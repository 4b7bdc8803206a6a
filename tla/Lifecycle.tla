----------------------------- MODULE Lifecycle -----------------------------
(***************************************************************************)
(* The life of one ENA device in the Linux driver (ena_netdev.c): bringing *)
(* the interface up and down, tearing the device down and restoring it,    *)
(* and the resets that interrupt handlers, NAPI, the transmit watchdog and *)
(* the timer ask for.                                                      *)
(*                                                                         *)
(* Whoever holds the rtnl lock runs one operation at a time: op names it,  *)
(* and todo is what is left of it, a stack of the functions and steps it   *)
(* still has to do.  Everybody else runs beside it: the timer, the admin   *)
(* (AENQ) interrupt handler, NAPI, the removal of the device before it     *)
(* takes the lock.                                                         *)
(*                                                                         *)
(* Resets of the device itself are taken to succeed.  The carrier, the     *)
(* statistics and the contents of the queues are left out.                 *)
(***************************************************************************)
EXTENDS Naturals, Sequences

CONSTANTS
    Operations,     \* what the system may ask of the driver
    MaxOps,         \* bound: operations
    MaxRequests,    \* bound: resets asked for by device, NAPI or watchdogs
    MaxFailures     \* bound: steps that fail

AllOperations == {"open", "close", "reconfigure", "xdp_set", "large_llq",
                  "reload", "suspend", "remove"}

ASSUME OperationsAssumption == Operations \subseteq AllOperations
ASSUME BoundsAssumption == MaxOps \in Nat /\ MaxRequests \in Nat /\ MaxFailures \in Nat

VARIABLES
    open,                   \* the network stack's view: netif_running()
    DEVICE_RUNNING,         \* ENA_FLAG_DEVICE_RUNNING
    DEV_UP,                 \* ENA_FLAG_DEV_UP
    TRIGGER_RESET,          \* ENA_FLAG_TRIGGER_RESET
    reset_reason,           \* atomic adapter->reset_reason
    dev_up_before_reset,    \* adapter->dev_up_before_reset
    running_state,          \* of the admin queue (AdminQueue)
    io,                     \* I/O interrupts, queues and NAPI
    mgmnt_irq,              \* MSI-X and the interrupt of the admin queues
    rings,                  \* memory of the admin queue and of the AENQ
    events,                 \* the device may write events to the AENQ
    timer,                  \* timer_service: "off", "armed", or "check"
    reset_task,             \* the work is queued
    pending,                \* who has set the reason, but not yet the flag
    op, todo,               \* the holder of rtnl
    dev_was_up,             \* its local variable of this name
    upFailed,               \* its last ena_up() returned an error
    restoreFailed,          \* history: an ena_restore_device() has failed
    reload,                 \* devlink reload: where it is, with the devlink lock held
    suspended,
    removal,                \* __ena_shutoff(): the step before which it is
    ops, requests, failures \* bound counters

flagVars == <<DEVICE_RUNNING, DEV_UP, TRIGGER_RESET, reset_reason>>
devVars == <<running_state, io, mgmnt_irq, rings, events>>
localVars == <<dev_up_before_reset, dev_was_up, upFailed, restoreFailed>>
watchVars == <<timer, reset_task, pending>>
lockVars == <<op, todo>>
userVars == <<open, reload, suspended, removal>>
boundVars == <<ops, requests, failures>>
vars == <<flagVars, devVars, localVars, watchVars, lockVars, userVars, boundVars>>

Requesters == {"aenq", "io", "timer"}
NORMAL == "NORMAL"
Reasons == {NORMAL, "REQUESTED", "DRIVER_INVALID_STATE", "SHUTDOWN"}

\* The end of ena_probe().
Init ==
    /\ open = FALSE /\ DEVICE_RUNNING = TRUE /\ DEV_UP = FALSE
    /\ TRIGGER_RESET = FALSE /\ reset_reason = NORMAL
    /\ dev_up_before_reset = FALSE /\ dev_was_up = FALSE
    /\ upFailed = FALSE /\ restoreFailed = FALSE
    /\ running_state = TRUE /\ io = FALSE /\ mgmnt_irq = TRUE /\ rings = TRUE
    /\ events = TRUE
    /\ timer = "armed" /\ reset_task = FALSE /\ pending = {}
    /\ op = "none" /\ todo = << >>
    /\ reload = "no" /\ suspended = FALSE /\ removal = "no"
    /\ ops = 0 /\ requests = 0 /\ failures = 0

-----------------------------------------------------------------------------
(***************************************************************************)
(* Asking for a reset: ena_reset_device()                                  *)
(***************************************************************************)
\* Interrupt handlers run as long as their interrupts are requested and the
\* device has something to report, NAPI and the transmit watchdog as long as
\* the interface's queues exist, the timer's checks in its callback.
Alive(who) ==
    \/ who = "aenq" /\ mgmnt_irq
    \/ who = "io" /\ io
    \/ who = "timer" /\ timer = "check"

MayRequest(who) == Alive(who) /\ (who = "aenq" => events)

\* ena_reset_device_try_lock(): the first reason counts, others are ignored.
MayLock == reset_reason = NORMAL

TryLock(who) ==
    /\ MayRequest(who) /\ who \notin pending /\ requests < MaxRequests
    /\ MayLock
    /\ reset_reason' = "REQUESTED"
    /\ pending' = pending \cup {who}
    /\ requests' = requests + 1
    /\ UNCHANGED <<DEVICE_RUNNING, DEV_UP, TRIGGER_RESET, devVars, localVars, timer,
                   reset_task, lockVars, userVars, ops, failures>>

\* __ena_reset_device()
Trigger(who) ==
    /\ who \in pending
    /\ TRIGGER_RESET' = TRUE
    /\ pending' = pending \ {who}
    /\ UNCHANGED <<DEVICE_RUNNING, DEV_UP, reset_reason, devVars, localVars, timer,
                   reset_task, lockVars, userVars, boundVars>>

\* A command times out: the admin queue is closed (AdminQueue).
AdminStops ==
    /\ running_state /\ rings /\ requests < MaxRequests
    /\ running_state' = FALSE
    /\ requests' = requests + 1
    /\ UNCHANGED <<flagVars, io, mgmnt_irq, rings, events, localVars, watchVars, lockVars,
                   userVars, ops, failures>>

-----------------------------------------------------------------------------
(***************************************************************************)
(* ena_timer_service()                                                     *)
(***************************************************************************)
\* check_for_admin_com_state() asks for a reset; the other checks may (TryLock).
TimerFires ==
    /\ timer = "armed"
    /\ timer' = "check"
    /\ IF ~running_state /\ MayLock
       THEN reset_reason' = "REQUESTED" /\ pending' = pending \cup {"timer"}
       ELSE UNCHANGED <<reset_reason, pending>>
    /\ UNCHANGED <<DEVICE_RUNNING, DEV_UP, TRIGGER_RESET, devVars, localVars, reset_task,
                   lockVars, userVars, boundVars>>

\* check_missing_comp_in_tx_queue() sets the flag first, whatever the reason is.
TimerMissesCompletions ==
    /\ timer = "check" /\ DEV_UP /\ ~TRIGGER_RESET /\ requests < MaxRequests
    /\ TRIGGER_RESET' = TRUE
    /\ reset_reason' = IF MayLock THEN "REQUESTED" ELSE reset_reason
    /\ requests' = requests + 1
    /\ UNCHANGED <<DEVICE_RUNNING, DEV_UP, devVars, localVars, watchVars, lockVars, userVars,
                   ops, failures>>

ChecksDone == timer = "check" /\ "timer" \notin pending

\* Nothing to do, or ena_com_validate_version() times out.
TimerRearms ==
    /\ ChecksDone
    /\ timer' = "armed"
    /\ UNCHANGED <<flagVars, devVars, localVars, reset_task, pending, lockVars, userVars,
                   boundVars>>

\* Mutant: only interfaces that are up are reset.
ResetWantedIfUp == TRIGGER_RESET /\ DEV_UP
ResetWanted == TRIGGER_RESET

\* Not armed again: ena_restore_device() will do so.
TimerQueuesReset ==
    /\ ChecksDone /\ ResetWanted
    /\ reset_task' = TRUE
    /\ timer' = "off"
    /\ UNCHANGED <<flagVars, devVars, localVars, pending, lockVars, userVars, boundVars>>

Timer == TimerFires \/ TimerRearms \/ TimerQueuesReset

-----------------------------------------------------------------------------
(***************************************************************************)
(* What the holder of rtnl does, step by step                              *)
(***************************************************************************)
At(step) == todo # << >> /\ Head(todo) = step
Then(steps) == todo' = steps \o Tail(todo)
Done == Then(<< >>)
When(condition, steps) == IF condition THEN steps ELSE << >>
MayFail == failures < MaxFailures /\ failures' = failures + 1

outside == <<op, userVars, ops, requests>>

\* ena_down() -------------------------------------------------------------
Down ==
    /\ At("ena_down")
    /\ DEV_UP' = FALSE
    /\ Then(<<"napi_disable", "reset_if_triggered">>)
    /\ UNCHANGED <<DEVICE_RUNNING, TRIGGER_RESET, reset_reason, devVars, localVars,
                   watchVars, outside, failures>>

\* netif_tx_disable() and napi_disable() wait for whoever is at work.
NapiDisable ==
    /\ At("napi_disable") /\ "io" \notin pending
    /\ io' = FALSE
    /\ Done
    /\ UNCHANGED <<flagVars, running_state, mgmnt_irq, rings, events, localVars, watchVars,
                   outside, failures>>

ResetIfTriggered ==
    /\ At("reset_if_triggered")
    /\ events' = (events /\ ~TRIGGER_RESET)
    /\ running_state' = (running_state /\ ~TRIGGER_RESET)
    /\ Done
    /\ UNCHANGED <<flagVars, io, mgmnt_irq, rings, localVars, watchVars, outside, failures>>

\* ena_up() ---------------------------------------------------------------
CanUp == mgmnt_irq /\ ~io /\ running_state

Up ==
    /\ At("ena_up") /\ CanUp
    /\ io' = TRUE /\ upFailed' = FALSE
    /\ Then(<<"set_DEV_UP">>)
    /\ UNCHANGED <<flagVars, running_state, mgmnt_irq, rings, events, dev_up_before_reset,
                   dev_was_up, restoreFailed, watchVars, outside, failures>>

UpFails ==
    /\ At("ena_up")
    /\ IF CanUp THEN MayFail ELSE UNCHANGED failures
    /\ upFailed' = TRUE
    /\ Done
    /\ UNCHANGED <<flagVars, devVars, dev_up_before_reset, dev_was_up, restoreFailed, watchVars,
                   outside>>

SetDevUp ==
    /\ At("set_DEV_UP")
    /\ DEV_UP' = TRUE
    /\ Done
    /\ UNCHANGED <<DEVICE_RUNNING, TRIGGER_RESET, reset_reason, devVars, localVars,
                   watchVars, outside, failures>>

\* ena_close() ------------------------------------------------------------
Close ==
    /\ At("ena_close")
    /\ Then(When(DEVICE_RUNNING,
                 When(DEV_UP, <<"ena_down">>) \o <<"check_admin", "reset_if_needed">>))
    /\ UNCHANGED <<flagVars, devVars, localVars, watchVars, outside, failures>>

\* check_for_admin_com_state()
CheckAdmin ==
    /\ At("check_admin")
    /\ IF ~running_state /\ MayLock
       THEN reset_reason' = "REQUESTED" /\ TRIGGER_RESET' = TRUE
       ELSE UNCHANGED <<reset_reason, TRIGGER_RESET>>
    /\ Done
    /\ UNCHANGED <<DEVICE_RUNNING, DEV_UP, devVars, localVars, watchVars, outside, failures>>

ResetIfNeeded ==
    /\ At("reset_if_needed")
    /\ Then(When(TRIGGER_RESET, <<"ena_destroy_device", "ena_restore_device">>))
    /\ UNCHANGED <<flagVars, devVars, localVars, watchVars, outside, failures>>

\* ena_destroy_device() ---------------------------------------------------
Destroy ==
    /\ At("ena_destroy_device")
    /\ Then(When(DEVICE_RUNNING,
                 <<"stop_timer", "take_down", "reset_unless_done", "free_admin",
                   "back_to_default">>))
    /\ UNCHANGED <<flagVars, devVars, localVars, watchVars, outside, failures>>

\* Mutant: del_timer() does not wait for the callback.
TimerMayStopAtOnce == TRUE
\* del_timer_sync() does.
TimerMayStop == timer # "check"

StopTimer ==
    /\ At("stop_timer") /\ TimerMayStop
    /\ timer' = "off"
    /\ Done
    /\ UNCHANGED <<flagVars, devVars, localVars, reset_task, pending, outside, failures>>

graceful == op \in {"suspend", "remove"}

\* Mutant: the state is noted for resets only.
UpToNoteIfReset == DEV_UP /\ TRIGGER_RESET
UpToNote == DEV_UP

TakeDown ==
    /\ At("take_down")
    /\ dev_up_before_reset' = UpToNote
    /\ running_state' = (running_state /\ graceful)
    /\ Then(When(DEV_UP, <<"ena_down">>))
    /\ UNCHANGED <<flagVars, io, mgmnt_irq, rings, events, dev_was_up, upFailed, restoreFailed,
                   watchVars, outside, failures>>

\* dev_up is what dev_up_before_reset was set to.
ResetUnlessDone ==
    /\ At("reset_unless_done")
    /\ events' = (events /\ TRIGGER_RESET /\ dev_up_before_reset)
    /\ Done
    /\ UNCHANGED <<flagVars, running_state, io, mgmnt_irq, rings, localVars, watchVars,
                   outside, failures>>

\* free_irq() waits for the handler.
FreeAdmin ==
    /\ At("free_admin") /\ "aenq" \notin pending
    /\ mgmnt_irq' = FALSE /\ rings' = FALSE
    /\ Done
    /\ UNCHANGED <<flagVars, running_state, io, events, localVars, watchVars, outside,
                   failures>>

\* Mutant: the reason stays for the statistics.
ReasonKept == reset_reason
DefaultReason == NORMAL

BackToDefault ==
    /\ At("back_to_default")
    /\ reset_reason' = DefaultReason
    /\ TRIGGER_RESET' = FALSE /\ DEVICE_RUNNING' = FALSE
    /\ Done
    /\ UNCHANGED <<DEV_UP, devVars, localVars, watchVars, outside, failures>>

\* ena_restore_device() ---------------------------------------------------
\* ena_device_init() resets the device and brings the admin queue up.
DeviceInit ==
    /\ At("ena_restore_device")
    /\ events' = FALSE /\ rings' = TRUE /\ running_state' = TRUE
    /\ Then(<<"enable_msix">>)
    /\ UNCHANGED <<flagVars, io, mgmnt_irq, localVars, watchVars, outside, failures>>

DeviceInitFails ==
    /\ At("ena_restore_device") /\ MayFail
    /\ events' = FALSE /\ rings' = FALSE
    /\ running_state' \in {running_state, TRUE}
    /\ DEVICE_RUNNING' = FALSE /\ restoreFailed' = TRUE
    /\ Done
    /\ UNCHANGED <<DEV_UP, TRIGGER_RESET, reset_reason, io, mgmnt_irq, dev_up_before_reset,
                   dev_was_up, upFailed, watchVars, outside>>

\* The last of it lets the device send events.
EnableMsix ==
    /\ At("enable_msix")
    /\ mgmnt_irq' = TRUE /\ events' = TRUE
    /\ Then(<<"up_again">>)
    /\ UNCHANGED <<flagVars, running_state, io, rings, localVars, watchVars, outside, failures>>

\* Also if the device's parameters have changed.
EnableMsixFails ==
    /\ At("enable_msix") /\ MayFail
    /\ Then(<<"destroy_admin", "reset_invalid">>)
    /\ UNCHANGED <<flagVars, devVars, localVars, watchVars, outside>>

\* Mutant: the interrupt of the admin queues stays requested.
UndoWithIrq == <<"destroy_admin", "reset_invalid">>
\* The error path.
Undo == <<"disable_msix", "destroy_admin", "reset_invalid">>

UpAgain ==
    /\ At("up_again")
    /\ Then(When(dev_up_before_reset, <<"ena_up">>) \o <<"finish">>)
    /\ UNCHANGED <<flagVars, devVars, localVars, watchVars, outside, failures>>

\* Flow steering rules or time stamps could not be restored.
UpAgainFails ==
    /\ At("up_again") /\ MayFail
    /\ Then(Undo)
    /\ UNCHANGED <<flagVars, devVars, localVars, watchVars, outside>>

NotUpAgain == dev_up_before_reset /\ upFailed

\* Mutant: only an interface that is up again is watched.
TimerAfterRestoreIfUp == IF DEV_UP THEN "armed" ELSE timer
\* mod_timer()
TimerAfterRestore == "armed"

Finish ==
    /\ At("finish") /\ ~NotUpAgain
    /\ DEVICE_RUNNING' = TRUE
    /\ timer' = TimerAfterRestore
    /\ Done
    /\ UNCHANGED <<DEV_UP, TRIGGER_RESET, reset_reason, devVars, localVars, reset_task,
                   pending, outside, failures>>

FinishFails ==
    /\ At("finish") /\ NotUpAgain
    /\ Then(Undo)
    /\ UNCHANGED <<flagVars, devVars, localVars, watchVars, outside, failures>>

DisableMsix ==
    /\ At("disable_msix") /\ "aenq" \notin pending
    /\ mgmnt_irq' = FALSE
    /\ Done
    /\ UNCHANGED <<flagVars, running_state, io, rings, events, localVars, watchVars, outside,
                   failures>>

DestroyAdmin ==
    /\ At("destroy_admin")
    /\ rings' = FALSE
    /\ Done
    /\ UNCHANGED <<flagVars, running_state, io, mgmnt_irq, events, localVars, watchVars,
                   outside, failures>>

ResetInvalid ==
    /\ At("reset_invalid")
    /\ reset_reason' = "DRIVER_INVALID_STATE"
    /\ events' = FALSE
    /\ DEVICE_RUNNING' = FALSE /\ restoreFailed' = TRUE
    /\ Done
    /\ UNCHANGED <<DEV_UP, TRIGGER_RESET, running_state, io, mgmnt_irq, rings,
                   dev_up_before_reset, dev_was_up, upFailed, watchVars, outside, failures>>

UpNeeded == dev_was_up

\* The end of ena_update_queue_params(), ena_xdp_set() and their like.
UpIfWasUp ==
    /\ At("up_if_was_up")
    /\ Then(When(UpNeeded, <<"ena_up">>))
    /\ UNCHANGED <<flagVars, devVars, localVars, watchVars, outside, failures>>

\* The stack takes an interface that cannot be opened for closed.
Opened ==
    /\ At("opened")
    /\ open' = ~upFailed
    /\ Done
    /\ UNCHANGED <<flagVars, devVars, localVars, watchVars, reload, suspended, removal, op,
                   boundVars>>

Step ==
    \/ Down \/ NapiDisable \/ ResetIfTriggered
    \/ Up \/ UpFails \/ SetDevUp
    \/ Close \/ CheckAdmin \/ ResetIfNeeded
    \/ Destroy \/ StopTimer \/ TakeDown \/ ResetUnlessDone \/ FreeAdmin \/ BackToDefault
    \/ DeviceInit \/ DeviceInitFails \/ EnableMsix \/ EnableMsixFails
    \/ UpAgain \/ UpAgainFails \/ Finish \/ FinishFails
    \/ DisableMsix \/ DestroyAdmin \/ ResetInvalid
    \/ UpIfWasUp \/ Opened

-----------------------------------------------------------------------------
(***************************************************************************)
(* Who takes rtnl                                                          *)
(***************************************************************************)
Take(who, steps) ==
    /\ op = "none" /\ removal # "freed"
    /\ op' = who /\ todo' = steps

Release ==
    /\ op # "none" /\ todo = << >>
    /\ op' = "none"
    /\ removal' = IF op = "remove" THEN "out" ELSE removal
    /\ reload' = CASE op = "reload_down" -> "between"
                   [] op = "reload_up" -> "done"
                   [] OTHER -> reload
    /\ suspended' = (suspended /\ op # "resume")
    /\ UNCHANGED <<flagVars, devVars, localVars, watchVars, todo, open, boundVars>>

\* Processes are frozen while the system is suspended.
UserTakes(who, steps) ==
    /\ who \in Operations /\ ops < MaxOps /\ ~suspended
    /\ ops' = ops + 1
    /\ Take(who, steps)
    /\ UNCHANGED <<requests, failures, devVars, watchVars, reload, removal>>

\* ena_open(), ena_close()
OpenInterface ==
    /\ ~open
    /\ open' = TRUE
    /\ UserTakes("open", <<"ena_up", "opened">>)
    /\ UNCHANGED <<flagVars, localVars, suspended>>

CloseInterface ==
    /\ open
    /\ open' = FALSE
    /\ UserTakes("close", <<"ena_close">>)
    /\ UNCHANGED <<flagVars, localVars, suspended>>

\* ena_update_queue_params(), with and without another LLQ entry size, and the
\* other callers of ena_close() and ena_up().  Without a restored device there
\* is no ena_up(); the model's fails.
Reconfigure ==
    /\ dev_was_up' = DEV_UP
    /\ \E device \in BOOLEAN :
         UserTakes("reconfigure",
                   <<"ena_close">>
                     \o When(device, <<"ena_destroy_device", "ena_restore_device">>)
                     \o <<"up_if_was_up">>)
    /\ UNCHANGED <<flagVars, open, dev_up_before_reset, upFailed, restoreFailed, suspended>>

\* ena_xdp_set() and the like, which bring the interface down and up only.
XdpSet ==
    /\ dev_was_up' = DEV_UP
    /\ UserTakes("xdp_set", When(DEV_UP, <<"ena_down">>) \o <<"up_if_was_up">>)
    /\ UNCHANGED <<flagVars, open, dev_up_before_reset, upFailed, restoreFailed, suspended>>

\* ena_large_llq_set()
LargeLlq ==
    /\ removal = "no"
    /\ UserTakes("large_llq", <<"ena_destroy_device", "ena_restore_device">>)
    /\ UNCHANGED <<flagVars, localVars, open, suspended>>

\* ena_suspend(), ena_resume()
Suspend ==
    /\ reload \in {"no", "done"} /\ removal = "no"
    /\ suspended' = TRUE
    /\ TRIGGER_RESET' = FALSE
    /\ UserTakes("suspend", <<"ena_destroy_device">>)
    /\ UNCHANGED <<DEVICE_RUNNING, DEV_UP, reset_reason, localVars, open>>

Resume ==
    /\ suspended
    /\ Take("resume", <<"ena_restore_device">>)
    /\ UNCHANGED <<flagVars, devVars, localVars, watchVars, userVars, boundVars>>

\* devlink reload.  Bound: at most once.
Reload ==
    /\ "reload" \in Operations /\ reload = "no" /\ ~suspended
    /\ removal \notin {"out", "freed"}
    /\ reload' = "down"
    /\ UNCHANGED <<flagVars, devVars, localVars, watchVars, lockVars, open, suspended,
                   removal, boundVars>>

ReloadDown ==
    /\ reload = "down"
    /\ Take("reload_down", <<"ena_destroy_device">>)
    /\ UNCHANGED <<flagVars, devVars, localVars, watchVars, userVars, boundVars>>

ReloadUp ==
    /\ reload = "between"
    /\ Take("reload_up", When(~DEVICE_RUNNING, <<"ena_restore_device">>))
    /\ UNCHANGED <<flagVars, devVars, localVars, watchVars, userVars, boundVars>>

\* ena_fw_reset_device()
ResetTask ==
    /\ reset_task
    /\ reset_task' = FALSE
    /\ Take("reset_task", When(TRIGGER_RESET, <<"ena_destroy_device", "ena_restore_device">>))
    /\ UNCHANGED <<flagVars, devVars, localVars, timer, pending, userVars, boundVars>>

\* __ena_shutoff().  The timer and the reset task are stopped before rtnl is taken.
removalOnly == <<flagVars, devVars, localVars, pending, open, reload, suspended, boundVars>>

Remove ==
    /\ "remove" \in Operations /\ removal = "no" /\ ~suspended
    /\ removal' = "del_timer"
    /\ UNCHANGED <<removalOnly, timer, reset_task, lockVars>>

RemoveStopsTimer ==
    /\ removal = "del_timer" /\ TimerMayStop
    /\ timer' = "off"
    /\ removal' = "cancel_work"
    /\ UNCHANGED <<removalOnly, reset_task, lockVars>>

\* cancel_work_sync() waits for a task at work.
RemoveCancelsTask ==
    /\ removal = "cancel_work" /\ op # "reset_task"
    /\ reset_task' = FALSE
    /\ removal' = "rtnl_lock"
    /\ UNCHANGED <<removalOnly, timer, lockVars>>

RemoveTakes ==
    /\ removal = "rtnl_lock"
    /\ removal' = "destroy"
    /\ reset_reason' = "SHUTDOWN"
    /\ Take("remove", <<"ena_destroy_device", "ena_devlink_unregister">>)
    /\ UNCHANGED <<DEVICE_RUNNING, DEV_UP, TRIGGER_RESET, devVars, localVars, watchVars,
                   open, reload, suspended, boundVars>>

\* Takes the devlink lock with rtnl held.
Unregister ==
    /\ At("ena_devlink_unregister") /\ reload \in {"no", "done"}
    /\ Done
    /\ UNCHANGED <<flagVars, devVars, localVars, watchVars, outside, failures>>

\* unregister_netdev() closes the interface; everything is freed.
RemoveFrees ==
    /\ removal = "out" /\ op = "none"
    /\ open' = FALSE
    /\ removal' = "freed"
    /\ UNCHANGED <<flagVars, devVars, localVars, watchVars, lockVars, reload, suspended,
                   boundVars>>

Removal ==
    \/ Remove \/ RemoveStopsTimer \/ RemoveCancelsTask \/ RemoveTakes
    \/ Unregister \/ RemoveFrees

User == \/ OpenInterface \/ CloseInterface \/ Reconfigure \/ XdpSet \/ LargeLlq
        \/ Suspend \/ Resume \/ Reload \/ ReloadDown \/ ReloadUp

Next ==
    \/ \E who \in Requesters : TryLock(who) \/ Trigger(who)
    \/ AdminStops \/ TimerMissesCompletions \/ Timer \/ Step \/ Release \/ ResetTask \/ User \/ Removal

Spec == Init /\ [][Next]_vars

\* The clock, the workqueue and the interrupted go on, and so does who holds
\* rtnl; the firmware is not silent for ever.
Fairness ==
    /\ WF_vars(Timer) /\ SF_vars(TimerQueuesReset)
    /\ \A who \in Requesters : WF_vars(Trigger(who))
    /\ WF_vars(Step \/ Release) /\ SF_vars(ResetTask)

LiveSpec == Spec /\ Fairness

-----------------------------------------------------------------------------
(***************************************************************************)
(* Properties                                                              *)
(***************************************************************************)
Steps == {"ena_open", "ena_close", "ena_up", "ena_down", "set_DEV_UP", "napi_disable",
          "reset_if_triggered", "check_admin", "reset_if_needed", "ena_destroy_device",
          "stop_timer", "take_down", "reset_unless_done", "free_admin", "back_to_default",
          "ena_restore_device", "enable_msix", "up_again", "finish", "disable_msix",
          "destroy_admin", "reset_invalid", "up_if_was_up", "opened",
          "ena_devlink_unregister"}

\* The variables keep their types, and nobody who asks for a reset outlives the
\* interrupt, the queues or the timer he belongs to.
TypeOK ==
    /\ {open, DEVICE_RUNNING, DEV_UP, TRIGGER_RESET, dev_up_before_reset, dev_was_up,
        upFailed, restoreFailed, running_state, io, mgmnt_irq, rings, events, reset_task, suspended}
         \subseteq BOOLEAN
    /\ reset_reason \in Reasons
    /\ timer \in {"off", "armed", "check"}
    /\ pending \subseteq {who \in Requesters : Alive(who)}
    /\ op \in AllOperations \cup {"none", "resume", "reload_down", "reload_up", "reset_task"}
    /\ todo \in Seq(Steps)
    /\ reload \in {"no", "down", "between", "done"}
    /\ removal \in {"no", "del_timer", "cancel_work", "rtnl_lock", "destroy", "out", "freed"}
    /\ ops \in 0..MaxOps /\ requests \in 0..MaxRequests /\ failures \in 0..MaxFailures

atRest == op = "none" /\ removal = "no"

\* A running device is always watched: the timer is armed, or it has handed over
\* to the reset task, and that task will find the flag that makes it arm the
\* timer again.
DeviceIsWatched ==
    atRest /\ DEVICE_RUNNING => timer # "off" \/ (reset_task /\ TRIGGER_RESET)

\* A device that is not running has left nothing behind, however it was stopped:
\* no timer, interrupts or queues, and no memory of the admin queues.
StoppedIsQuiet ==
    atRest /\ ~DEVICE_RUNNING =>
        timer = "off" /\ ~mgmnt_irq /\ ~io /\ ~rings /\ ~DEV_UP

\* An open interface of a running device is up, whatever resets it went through,
\* unless its last ena_up() failed.
OpenIsUp == atRest /\ open /\ DEVICE_RUNNING /\ ~upFailed => DEV_UP

\* An interface that is up is open, and ena_up() is never run on top of another.
\* Not so when devlink reload or a failed ena_restore_device() leaves the device
\* stopped, or when its removal, which does, has released rtnl: see the README.
UpIsOpen ==
    ~restoreFailed /\ reload = "no" /\ removal # "out" =>
        /\ atRest /\ DEV_UP => open
        /\ At("ena_up") => ~io

\* The interface is up in the driver when, and only when, it is open to the network
\* stack.
UpWithOpen == OpenIsUp /\ UpIsOpen

\* A request is never left half done: a reason that would make the driver ignore
\* all further requests always comes with the flag, or with somebody who is about
\* to set it.
RequestIsWhole ==
    atRest /\ DEVICE_RUNNING /\ reset_reason = "REQUESTED" =>
        TRIGGER_RESET \/ pending # {}

\* "in case reset flag is set and device is up, ena_down() already reset the
\* device": no memory is freed that the device may still write events to.
ResetBeforeFree == At("back_to_default") => ~events

\* "Make sure timer and reset routine won't be called after freeing device
\* resources". Removal stops them before it takes rtnl, and the reset task or an
\* operation that still held it can start the timer again: this does not hold.
NothingRunsWhenFreed == removal = "freed" => timer = "off" /\ ~reset_task

\* A reset that was asked for is carried out, unless the device is stopped.
ResetHappens ==
    (TRIGGER_RESET /\ DEVICE_RUNNING /\ removal = "no") ~>
        (~TRIGGER_RESET \/ ~DEVICE_RUNNING \/ removal # "no")
=============================================================================
