----------------------------- MODULE AdminQueue -----------------------------
(***************************************************************************)
(* The ENA admin queue (src/kernel/linux/common/ena_com/ena_com.c):        *)
(* concurrent callers of ena_com_execute_admin_command(), the management   *)
(* interrupt handler, the teardown and bring-up of the queue around a      *)
(* device reset, and the device.                                           *)
(*                                                                         *)
(* Rings are indexed by the masked index (q_depth is a power of two and    *)
(* every use of the u16 counters masks them), and flip their phase bit     *)
(* when the index wraps.  Handler x's hpc/hslot/hphase/hctx/hdst are the   *)
(* locals of its run of ena_com_handle_admin_completion().  A command's    *)
(* payload is its serial number k; user_cqe is the serial of the call      *)
(* whose buffer the context points to.                                     *)
(***************************************************************************)
EXTENDS Integers, FiniteSets

CONSTANTS
    Clients,       \* threads that execute admin commands
    Isr,           \* the management interrupt handler
    Depth,         \* q_depth, ENA_ADMIN_QUEUE_DEPTH in the code
    DevStatus,     \* statuses a device answers with
    BadIds,        \* command ids >= Depth a faulty device may report
    AutoPolling,   \* admin_queue->auto_polling
    MaxCmds,       \* bound: commands submitted in a behaviour
    MaxInits       \* bound: times the queue is brought up

Ids == 0..(Depth - 1)
Cmds == 1..MaxCmds
Nobody == "nobody"
NoCmd == 0

ASSUME ClientsAssumption == IsFiniteSet(Clients)
ASSUME DepthAssumption == Depth \in Nat \ {0}
ASSUME StatusAssumption == "none" \notin DevStatus
ASSUME BoundsAssumption == MaxCmds \in Nat /\ MaxInits \in Nat
ASSUME BadIdsAssumption == BadIds \cap Ids = {}
ASSUME NamesAssumption ==
    /\ Isr \notin Clients
    /\ Nobody \notin Clients \cup {Isr}

Handlers == Clients \cup {Isr}

VARIABLES
    \* struct ena_com_admin_queue
    running_state, polling, is_missing_admin_interrupt, curr_cmd_id,
    outstanding_cmds, polling_for_completions,
    q_lock,           \* the client that holds the spinlock, or Nobody
    sq, sqTail, sqPhase, cq, cqHead, cqPhase,
    \* struct ena_comp_ctx, by command id; comp_ctx: the array is allocated
    comp_ctx, occupied, user_cqe, status, comp_status, wait_event,
    \* the callers: where, the call's serial, its context, its result, buffer
    pc, call, ctx, ret, buf,
    \* the runs of ena_com_handle_admin_completion()
    hpc, hslot, hphase, hctx, hdst,
    \* teardown and bring-up: where, the abort loop's index, bring-ups so far
    td, tdNext, inits,
    \* the device: fetch pointer and phase, entries the doorbell announced,
    \* commands being executed, completion pointer and phase, a pending MSI-X
    devHead, devSqPhase, announced, executing, devTail, devPhase, irq, irqOn,
    \* history: serial of the last command, the device's answers, calls that
    \* timed out or were aborted, calls whose buffer was written too late,
    \* calls that a submission to the closed queue exposed, and whether that
    \* submission overran the rings
    lastCmd, answer, gaveUp, stray, exposed, overrun

adminVars == <<running_state, polling, is_missing_admin_interrupt, curr_cmd_id,
               outstanding_cmds, polling_for_completions, q_lock>>
ringVars == <<sq, sqTail, sqPhase, cq, cqHead, cqPhase>>
ctxVars == <<comp_ctx, occupied, user_cqe, status, comp_status, wait_event>>
clientVars == <<pc, call, ctx, ret, buf>>
handlerVars == <<hpc, hslot, hphase, hctx, hdst>>
tdVars == <<td, tdNext, inits>>
devVars == <<devHead, devSqPhase, announced, executing, devTail, devPhase,
             irq, irqOn>>
ghostVars == <<lastCmd, answer, gaveUp, stray, exposed, overrun>>
vars == <<adminVars, ringVars, ctxVars, clientVars, handlerVars, tdVars,
          devVars, ghostVars>>

(***************************************************************************)
(* Types                                                                   *)
(***************************************************************************)
ClientPc == {"idle", "submit", "submitted",
             "pollLock", "pollScan", "pollCheck", "pollExpired", "pollAborted",
             "intrWait", "intrCheck", "intrLock", "intrScan", "intrRecheck",
             "intrAborted", "closeAq", "release", "decrement", "returned"}
HandlerPc == {"off", "own", "scan", "copy", "post", "wake"}
TdPc == {"down", "init", "polled", "irqOn", "up", "closed", "reset", "freed",
         "abort", "drained"}
CmdStatus == {"SUBMITTED", "COMPLETED", "ABORTED"}
Results == {"none", "OK", "ENOMEM", "EOPNOTSUPP", "EAGAIN", "EINVAL", "ETIME",
            "ENODEV", "ENOSPC"}
SqEntry == [phase : BOOLEAN, id : Ids, cmd : Cmds \cup {NoCmd}]
CqEntry == [phase : BOOLEAN, id : Ids \cup BadIds, cmd : Cmds \cup {NoCmd},
            st : DevStatus \cup {"none"}]

NoSqEntry == [phase |-> FALSE, id |-> 0, cmd |-> NoCmd]
NoCqEntry == [phase |-> FALSE, id |-> 0, cmd |-> NoCmd, st |-> "none"]

\* Mutants: the index does not wrap; the phase bit does not flip when it does.
NextSlotUnmasked(i) == i + 1
NextPhaseStuck(i, ph) == ph

\* The ring index after i, and the phase once the index has moved past i.
NextSlot(i) == IF i = Depth - 1 THEN 0 ELSE i + 1
NextPhase(i, ph) == IF i = Depth - 1 THEN ~ph ELSE ph

\* ena_com_admin_status_to_errno()
Errno(st) ==
    CASE st = "SUCCESS"                     -> "OK"
      [] st = "RESOURCE_ALLOCATION_FAILURE" -> "ENOMEM"
      [] st = "UNSUPPORTED_OPCODE"          -> "EOPNOTSUPP"
      [] st = "RESOURCE_BUSY"               -> "EAGAIN"
      [] OTHER                              -> "EINVAL"

(***************************************************************************)
(* Before the first bring-up nothing is allocated; ena_com_admin_init()    *)
(* gives every field the value it has here.                                *)
(***************************************************************************)
Init ==
    /\ running_state = FALSE /\ polling = FALSE
    /\ is_missing_admin_interrupt = FALSE /\ curr_cmd_id = 0
    /\ outstanding_cmds = 0 /\ polling_for_completions = FALSE
    /\ q_lock = Nobody
    /\ sq = [i \in Ids |-> NoSqEntry] /\ sqTail = 0 /\ sqPhase = TRUE
    /\ cq = [i \in Ids |-> NoCqEntry] /\ cqHead = 0 /\ cqPhase = TRUE
    /\ comp_ctx = FALSE
    /\ occupied = [i \in Ids |-> FALSE]
    /\ user_cqe = [i \in Ids |-> NoCmd]
    /\ status = [i \in Ids |-> "SUBMITTED"]
    /\ comp_status = [i \in Ids |-> "none"]
    /\ wait_event = [i \in Ids |-> FALSE]
    /\ pc = [c \in Clients |-> "idle"]
    /\ call = [c \in Clients |-> NoCmd]
    /\ ctx = [c \in Clients |-> 0]
    /\ ret = [c \in Clients |-> "none"]
    /\ buf = [c \in Clients |-> NoCmd]
    /\ hpc = [x \in Handlers |-> "off"]
    /\ hslot = [x \in Handlers |-> 0]
    /\ hphase = [x \in Handlers |-> FALSE]
    /\ hctx = [x \in Handlers |-> 0]
    /\ hdst = [x \in Handlers |-> NoCmd]
    /\ td = "down" /\ tdNext = 0 /\ inits = 0
    /\ devHead = 0 /\ devSqPhase = TRUE /\ announced = 0 /\ executing = {}
    /\ devTail = 0 /\ devPhase = TRUE /\ irq = FALSE /\ irqOn = FALSE
    /\ lastCmd = 0
    /\ answer = [k \in Cmds |-> "none"]
    /\ gaveUp = {} /\ stray = {} /\ exposed = {} /\ overrun = FALSE

-----------------------------------------------------------------------------
(***************************************************************************)
(* Where both sides are in the rings, for the history and the properties.  *)
(* The next completion the driver will look at is the scanner's, which     *)
(* runs ahead of the published cq.head, or cq.head.                        *)
(***************************************************************************)
Scanning(x) == hpc[x] \in {"scan", "copy", "post", "wake"}

Slot == IF \E x \in Handlers : Scanning(x)
        THEN hslot[CHOOSE x \in Handlers : Scanning(x)] ELSE cqHead
Phase == IF \E x \in Handlers : Scanning(x)
         THEN hphase[CHOOSE x \in Handlers : Scanning(x)] ELSE cqPhase
Distance(from, to) == IF to >= from THEN to - from ELSE to + Depth - from
Unread == {s \in Ids : cq[s].phase = IF s >= Slot THEN Phase ELSE ~Phase}

Announced == {s \in Ids : Distance(devHead, s) < announced}

\* The commands the rings and the device hold.
Load == announced + Cardinality(executing) + Cardinality(Unread)

-----------------------------------------------------------------------------
(***************************************************************************)
(* Submission.  ena_com_submit_admin_cmd() tests running_state and then    *)
(* calls __ena_com_submit_admin_cmd(), all under q_lock.  But a caller     *)
(* whose interrupt never came, and a handler that meets a bad id, close    *)
(* the queue without q_lock, and contexts are released without it, so the  *)
(* test and what follows are two steps.                                    *)
(***************************************************************************)
Goto(c, there) == pc' = [pc EXCEPT ![c] = there]

\* The submission is refused with error e and the call comes straight back.
Refuse(c, from, e) ==
    /\ pc[c] = from
    /\ Goto(c, "returned")
    /\ ret' = [ret EXCEPT ![c] = e]
    /\ UNCHANGED <<call, ctx, buf, ringVars, ctxVars, handlerVars, tdVars,
                   devVars, ghostVars, polling, is_missing_admin_interrupt,
                   curr_cmd_id, outstanding_cmds, polling_for_completions>>

RefuseNotRunning(c) ==
    /\ q_lock = Nobody
    /\ ~running_state
    /\ Refuse(c, "idle", "ENODEV")
    /\ UNCHANGED <<running_state, q_lock>>

\* The queue runs: c goes on with q_lock held.  MaxCmds bounds the model here and,
\* no command coming in between, in Submit.
LockToSubmit(c) ==
    /\ pc[c] = "idle"
    /\ q_lock = Nobody
    /\ running_state
    /\ lastCmd < MaxCmds
    /\ q_lock' = c
    /\ Goto(c, "submit")
    /\ UNCHANGED <<call, ctx, ret, buf, running_state, polling,
                   is_missing_admin_interrupt, curr_cmd_id, outstanding_cmds,
                   polling_for_completions, ringVars, ctxVars, handlerVars,
                   tdVars, devVars, ghostVars>>

\* Mutant: the context is taken without looking whether it is occupied.
MayTakeAlways(i) == comp_ctx

\* get_comp_ctxt() with capture: the context may be taken.
MayTake(i) == comp_ctx /\ ~occupied[i]

\* Any error of __ena_com_submit_admin_cmd() closes the queue.
RefuseFull(c) ==
    /\ outstanding_cmds >= Depth
    /\ Refuse(c, "submit", "ENOSPC")
    /\ running_state' = FALSE
    /\ q_lock' = Nobody

RefuseOccupied(c) ==
    /\ outstanding_cmds < Depth
    /\ ~MayTake(curr_cmd_id)
    /\ Refuse(c, "submit", "EINVAL")
    /\ running_state' = FALSE
    /\ q_lock' = Nobody

\* History: a command submitted after the queue was closed may share its id with
\* one that was given up on and that the device still holds, and is exposed to
\* its answer.  If the rings have no room, every call at work is exposed.
Expose(k) ==
    /\ overrun' = (~running_state /\ Load >= Depth)
    /\ exposed' = exposed \cup (IF running_state THEN {} ELSE {k})
                          \cup (IF overrun' THEN {call[c] : c \in Clients} ELSE {})

\* The count is read and the context captured, which other callers only make
\* more likely to succeed; then the entry is written and the doorbell rung.
Submit(c) ==
    LET id == curr_cmd_id
        k  == lastCmd + 1
    IN
    /\ pc[c] = "submit"
    /\ outstanding_cmds < Depth
    /\ MayTake(id)
    /\ k \in Cmds
    /\ outstanding_cmds' = outstanding_cmds + 1
    /\ occupied' = [occupied EXCEPT ![id] = TRUE]
    /\ status' = [status EXCEPT ![id] = "SUBMITTED"]
    /\ user_cqe' = [user_cqe EXCEPT ![id] = k]
    /\ wait_event' = [wait_event EXCEPT ![id] = FALSE]
    /\ sq' = [sq EXCEPT ![sqTail] = [phase |-> sqPhase, id |-> id, cmd |-> k]]
    /\ curr_cmd_id' = NextSlot(curr_cmd_id)
    /\ sqTail' = NextSlot(sqTail)
    /\ sqPhase' = NextPhase(sqTail, sqPhase)
    /\ announced' = announced + 1
    /\ lastCmd' = k
    /\ Expose(k)
    /\ call' = [call EXCEPT ![c] = k]
    /\ ctx' = [ctx EXCEPT ![c] = id]
    /\ q_lock' = Nobody
    /\ Goto(c, "submitted")
    /\ UNCHANGED <<running_state, polling, is_missing_admin_interrupt,
                   polling_for_completions, cq, cqHead, cqPhase, comp_ctx,
                   comp_status, ret, buf, handlerVars, tdVars, devHead,
                   devSqPhase, executing, devTail, devPhase, irq, irqOn,
                   answer, gaveUp, stray>>

\* ena_com_wait_and_process_admin_cq() picks the way to wait.
ChooseWait(c) ==
    /\ pc[c] = "submitted"
    /\ Goto(c, IF polling THEN "pollLock" ELSE "intrWait")
    /\ UNCHANGED <<call, ctx, ret, buf, adminVars, ringVars, ctxVars,
                   handlerVars, tdVars, devVars, ghostVars>>

-----------------------------------------------------------------------------
(***************************************************************************)
(* ena_com_handle_admin_completion(), run by a waiting client under q_lock *)
(* (busy_poll_ownership: it spins) or by the interrupt handler without it  *)
(* (it gives up when the queue is being polled).                           *)
(***************************************************************************)
StartScan(x) ==
    /\ polling_for_completions' = TRUE
    /\ hpc' = [hpc EXCEPT ![x] = "scan"]
    /\ hslot' = [hslot EXCEPT ![x] = cqHead]
    /\ hphase' = [hphase EXCEPT ![x] = cqPhase]
    /\ UNCHANGED <<hctx, hdst>>

\* A client takes q_lock to poll, then spins for the ownership.
LockToPoll(c) ==
    /\ \/ pc[c] = "pollLock" /\ Goto(c, "pollScan")
       \/ pc[c] = "intrLock" /\ Goto(c, "intrScan")
    /\ q_lock = Nobody
    /\ q_lock' = c
    /\ hpc' = [hpc EXCEPT ![c] = "own"]
    /\ UNCHANGED <<call, ctx, ret, buf, running_state, polling,
                   is_missing_admin_interrupt, curr_cmd_id, outstanding_cmds,
                   polling_for_completions, ringVars, ctxVars, hslot, hphase,
                   hctx, hdst, tdVars, devVars, ghostVars>>

\* Mutant: the poller does not wait for the handler that owns the scan.
MayOwnAlways == TRUE
MayOwn == ~polling_for_completions

TakeOwnership(c) ==
    /\ hpc[c] = "own"
    /\ MayOwn
    /\ StartScan(c)
    /\ UNCHANGED <<clientVars, running_state, polling,
                   is_missing_admin_interrupt, curr_cmd_id, outstanding_cmds,
                   q_lock, ringVars, ctxVars, tdVars, devVars, ghostVars>>

\* The MSI-X handler runs; it returns at once when someone else is polling.
Interrupt ==
    /\ irq /\ irqOn
    /\ hpc[Isr] = "off"
    /\ irq' = FALSE
    /\ IF polling_for_completions
       THEN UNCHANGED <<polling_for_completions, handlerVars>>
       ELSE StartScan(Isr)
    /\ UNCHANGED <<clientVars, running_state, polling,
                   is_missing_admin_interrupt, curr_cmd_id, outstanding_cmds,
                   q_lock, ringVars, ctxVars, tdVars, devHead, devSqPhase,
                   announced, executing, devTail, devPhase, irqOn, ghostVars>>

\* Mutant: the entry is taken whatever its phase bit, as if it were written.
EntryReadyAlways(x) == cq[hslot[x]].cmd # NoCmd
EntryReady(x) == cq[hslot[x]].phase = hphase[x]

Advance(x) ==
    /\ hslot' = [hslot EXCEPT ![x] = NextSlot(hslot[x])]
    /\ hphase' = [hphase EXCEPT ![x] = NextPhase(hslot[x], hphase[x])]

\* Mutant: the status is published before the response is copied.
AfterEarlyStatus(step) ==
    CASE step = "scan" -> "post" [] step = "post" -> "copy" [] step = "copy" -> "wake"

\* ena_com_handle_single_admin_completion(): the response is copied, then the
\* status is published, then the waiter is woken.
After(step) ==
    CASE step = "scan" -> "copy" [] step = "copy" -> "post" [] step = "post" -> "wake"

\* A completion: find its context and the caller's buffer.
FindContext(x) ==
    LET e == cq[hslot[x]] IN
    /\ hpc[x] = "scan"
    /\ EntryReady(x)
    /\ e.id \in Ids
    /\ hctx' = [hctx EXCEPT ![x] = e.id]
    /\ hdst' = [hdst EXCEPT ![x] = user_cqe[e.id]]
    /\ hpc' = [hpc EXCEPT ![x] = After("scan")]
    /\ UNCHANGED <<clientVars, adminVars, ringVars, ctxVars, hslot, hphase,
                   tdVars, devVars, ghostVars>>

\* A completion for no context closes the queue.
BadCompletion(x) ==
    /\ hpc[x] = "scan"
    /\ EntryReady(x)
    /\ cq[hslot[x]].id \notin Ids
    /\ running_state' = FALSE
    /\ Advance(x)
    /\ UNCHANGED <<clientVars, polling, is_missing_admin_interrupt,
                   curr_cmd_id, outstanding_cmds, polling_for_completions,
                   q_lock, ringVars, ctxVars, hpc, hctx, hdst, tdVars, devVars,
                   ghostVars>>

\* memcpy() of the entry to the caller's buffer.  When the call it belongs to
\* has come back meanwhile, the write is stray.
CopyResponse(x) ==
    LET e == cq[hslot[x]]
        k == hdst[x]
    IN
    /\ hpc[x] = "copy"
    /\ buf' = [c \in Clients |-> IF k # NoCmd /\ call[c] = k THEN e.cmd ELSE buf[c]]
    /\ stray' = IF k # NoCmd /\ \A c \in Clients : call[c] # k
                THEN stray \cup {k} ELSE stray
    /\ hpc' = [hpc EXCEPT ![x] = After("copy")]
    /\ UNCHANGED <<pc, call, ctx, ret, adminVars, ringVars, ctxVars, hslot,
                   hphase, hctx, hdst, tdVars, devVars, lastCmd, answer,
                   gaveUp, exposed, overrun>>

\* The status is published after the response; from here on the command may
\* be released and its slot of the ring written again ...
PostStatus(x) ==
    /\ hpc[x] = "post"
    /\ comp_status' = [comp_status EXCEPT ![hctx[x]] = cq[hslot[x]].st]
    /\ status' = [status EXCEPT ![hctx[x]] = "COMPLETED"]
    /\ Advance(x)
    /\ hpc' = [hpc EXCEPT ![x] = After("post")]
    /\ UNCHANGED <<clientVars, adminVars, ringVars, comp_ctx, occupied,
                   user_cqe, wait_event, hctx, hdst, tdVars, devVars, ghostVars>>

\* ... and then the waiter is woken, unless the queue is in polling mode.
Wake(x) ==
    /\ hpc[x] = "wake"
    /\ wait_event' = IF polling THEN wait_event
                     ELSE [wait_event EXCEPT ![hctx[x]] = TRUE]
    /\ hpc' = [hpc EXCEPT ![x] = "scan"]
    /\ hctx' = [hctx EXCEPT ![x] = 0]
    /\ hdst' = [hdst EXCEPT ![x] = NoCmd]
    /\ UNCHANGED <<clientVars, adminVars, ringVars, comp_ctx, occupied,
                   user_cqe, status, comp_status, hslot, hphase, tdVars,
                   devVars, ghostVars>>

\* Mutant: the ownership of the scan is never given back.
OwnedAfterScanForever == TRUE
OwnedAfterScan == FALSE

\* No more entries: publish the head, release the ownership and, for a client,
\* q_lock.
FinishScan(x) ==
    /\ hpc[x] = "scan"
    /\ ~EntryReady(x)
    /\ cqHead' = hslot[x]
    /\ cqPhase' = hphase[x]
    /\ polling_for_completions' = OwnedAfterScan
    /\ hpc' = [hpc EXCEPT ![x] = "off"]
    /\ hslot' = [hslot EXCEPT ![x] = 0]
    /\ hphase' = [hphase EXCEPT ![x] = FALSE]
    /\ IF x \in Clients
       THEN /\ q_lock' = Nobody
            /\ Goto(x, IF pc[x] = "pollScan" THEN "pollCheck" ELSE "intrRecheck")
       ELSE UNCHANGED <<q_lock, pc>>
    /\ UNCHANGED <<call, ctx, ret, buf, running_state, polling,
                   is_missing_admin_interrupt, curr_cmd_id, outstanding_cmds,
                   sq, sqTail, sqPhase, cq, ctxVars, hctx, hdst, tdVars,
                   devVars, ghostVars>>

-----------------------------------------------------------------------------
(***************************************************************************)
(* ena_com_wait_and_process_admin_cq_polling().  Time is abstract: a wait  *)
(* may time out at any moment.                                             *)
(***************************************************************************)
Move(c, from, there) ==
    /\ pc[c] = from
    /\ Goto(c, there)
    /\ UNCHANGED <<call, ctx, buf, ringVars, handlerVars, tdVars, devVars,
                   polling, curr_cmd_id, outstanding_cmds,
                   polling_for_completions, q_lock>>

\* The status is read without the lock.
PollCheck(c) ==
    /\ \/ /\ status[ctx[c]] = "SUBMITTED"
          /\ \/ Move(c, "pollCheck", "pollLock")
             \/ Move(c, "pollCheck", "pollExpired")
          /\ UNCHANGED ret
       \/ /\ status[ctx[c]] = "ABORTED"
          /\ Move(c, "pollCheck", "pollAborted")
          /\ UNCHANGED ret
       \/ /\ status[ctx[c]] = "COMPLETED"
          /\ Move(c, "pollCheck", "release")
          /\ ret' = [ret EXCEPT ![c] = Errno(comp_status[ctx[c]])]
    /\ UNCHANGED <<running_state, is_missing_admin_interrupt, ctxVars,
                   ghostVars>>

PollExpired(c) ==
    /\ q_lock = Nobody
    /\ Move(c, "pollExpired", "release")
    /\ running_state' = FALSE
    /\ ret' = [ret EXCEPT ![c] = "ETIME"]
    /\ gaveUp' = gaveUp \cup {call[c]}
    /\ UNCHANGED <<is_missing_admin_interrupt, ctxVars, lastCmd, answer,
                   stray, exposed, overrun>>

\* q_lock is taken to count the abort.
Aborted(c) ==
    /\ q_lock = Nobody
    /\ Move(c, "pollAborted", "release") \/ Move(c, "intrAborted", "release")
    /\ ret' = [ret EXCEPT ![c] = "ENODEV"]
    /\ gaveUp' = gaveUp \cup {call[c]}
    /\ UNCHANGED <<running_state, is_missing_admin_interrupt, ctxVars, lastCmd,
                   answer, stray, exposed, overrun>>

(***************************************************************************)
(* ena_com_wait_and_process_admin_cq_interrupts().                         *)
(***************************************************************************)
\* wait_for_completion_timeout() returns: woken or, at any moment, timed out.
Woken(c) ==
    /\ wait_event[ctx[c]]
    /\ Move(c, "intrWait", "intrCheck")
    /\ UNCHANGED <<ret, running_state, is_missing_admin_interrupt, ctxVars,
                   ghostVars>>

WaitExpired(c) ==
    /\ ~wait_event[ctx[c]]
    /\ Move(c, "intrWait", "intrCheck")
    /\ UNCHANGED <<ret, running_state, is_missing_admin_interrupt, ctxVars,
                   ghostVars>>

\* The status is read without the lock.
IntrCheck(c) ==
    /\ \/ /\ status[ctx[c]] = "SUBMITTED"
          /\ Move(c, "intrCheck", "intrLock")
          /\ UNCHANGED ret
       \/ /\ status[ctx[c]] = "ABORTED"
          /\ Move(c, "intrCheck", "intrAborted")
          /\ UNCHANGED ret
       \/ /\ status[ctx[c]] = "COMPLETED"
          /\ Move(c, "intrCheck", "release")
          /\ ret' = [ret EXCEPT ![c] = Errno(comp_status[ctx[c]])]
    /\ UNCHANGED <<running_state, is_missing_admin_interrupt, ctxVars,
                   ghostVars>>

\* The queue was polled and still holds no completion of this command.
NoCompletion(c) ==
    /\ status[ctx[c]] # "COMPLETED"
    /\ Move(c, "intrRecheck", "closeAq")
    /\ ret' = [ret EXCEPT ![c] = "ETIME"]
    /\ UNCHANGED <<running_state, is_missing_admin_interrupt, ctxVars,
                   ghostVars>>

\* The command did complete: the interrupt is taken to be lost.
MissingInterruptFatal(c) ==
    /\ ~AutoPolling
    /\ status[ctx[c]] = "COMPLETED"
    /\ Move(c, "intrRecheck", "closeAq")
    /\ is_missing_admin_interrupt' = TRUE
    /\ ret' = [ret EXCEPT ![c] = "ETIME"]
    /\ UNCHANGED <<running_state, ctxVars, ghostVars>>

\* close_aq: the queue is closed without q_lock, whoever holds it.
CloseAq(c) ==
    /\ Move(c, "closeAq", "release")
    /\ running_state' = FALSE
    /\ gaveUp' = gaveUp \cup {call[c]}
    /\ UNCHANGED <<ret, is_missing_admin_interrupt, ctxVars, lastCmd, answer,
                   stray, exposed, overrun>>

\* ... and the queue falls back to polling.
MissingInterruptPolls(c) ==
    /\ AutoPolling
    /\ status[ctx[c]] = "COMPLETED"
    /\ pc[c] = "intrRecheck"
    /\ Goto(c, "release")
    /\ is_missing_admin_interrupt' = TRUE
    /\ polling' = TRUE
    /\ ret' = [ret EXCEPT ![c] = Errno(comp_status[ctx[c]])]
    /\ UNCHANGED <<call, ctx, buf, running_state, curr_cmd_id,
                   outstanding_cmds, polling_for_completions, q_lock,
                   ringVars, ctxVars, handlerVars, tdVars, devVars, ghostVars>>

(***************************************************************************)
(* comp_ctxt_release(), without q_lock, and the return to the caller.      *)
(***************************************************************************)
Release(c) ==
    LET i == ctx[c] IN
    /\ pc[c] = "release"
    /\ user_cqe' = [user_cqe EXCEPT ![i] = NoCmd]
    /\ occupied' = [occupied EXCEPT ![i] = FALSE]
    /\ Goto(c, "decrement")
    /\ UNCHANGED <<call, ctx, ret, buf, adminVars, ringVars, comp_ctx, status,
                   comp_status, wait_event, handlerVars, tdVars, devVars,
                   ghostVars>>

\* Mutant: outstanding_cmds is not decremented.
CountAfterReleaseKept == outstanding_cmds
CountAfterRelease == outstanding_cmds - 1

Decrement(c) ==
    /\ pc[c] = "decrement"
    /\ outstanding_cmds' = CountAfterRelease
    /\ Goto(c, "returned")
    /\ UNCHANGED <<call, ctx, ret, buf, running_state, polling,
                   is_missing_admin_interrupt, curr_cmd_id,
                   polling_for_completions, q_lock, ringVars, ctxVars,
                   handlerVars, tdVars, devVars, ghostVars>>

\* The caller has looked at the result and its buffer goes out of scope.
Return(c) ==
    /\ pc[c] = "returned"
    /\ Goto(c, "idle")
    /\ call' = [call EXCEPT ![c] = NoCmd]
    /\ ctx' = [ctx EXCEPT ![c] = 0]
    /\ ret' = [ret EXCEPT ![c] = "none"]
    /\ buf' = [buf EXCEPT ![c] = NoCmd]
    /\ UNCHANGED <<adminVars, ringVars, ctxVars, handlerVars, tdVars, devVars,
                   ghostVars>>

-----------------------------------------------------------------------------
(***************************************************************************)
(* Teardown, as ena_destroy_device(graceful = false) drives it, and        *)
(* bring-up, as ena_device_init() and                                      *)
(* ena_enable_msix_and_set_admin_interrupts() do.                          *)
(***************************************************************************)
StepTd(from, there) ==
    /\ td = from
    /\ td' = there

\* ena_com_set_admin_running_state(false)
Close ==
    /\ StepTd("up", "closed")
    /\ q_lock = Nobody
    /\ running_state' = FALSE
    /\ UNCHANGED <<tdNext, inits, polling, is_missing_admin_interrupt,
                   curr_cmd_id, outstanding_cmds, polling_for_completions,
                   q_lock, ringVars, ctxVars, clientVars, handlerVars,
                   devVars, ghostVars>>

\* ena_com_dev_reset(): the device forgets what it has not answered yet.
ResetDevice ==
    /\ StepTd("closed", "reset")
    /\ announced' = 0
    /\ executing' = {}
    /\ UNCHANGED <<tdNext, inits, adminVars, ringVars, ctxVars, clientVars,
                   handlerVars, devHead, devSqPhase, devTail, devPhase, irq,
                   irqOn, ghostVars>>

\* ena_free_mgmnt_irq(): free_irq() waits for a running handler.
FreeIrq ==
    /\ StepTd("reset", "freed")
    /\ hpc[Isr] = "off"
    /\ irqOn' = FALSE
    /\ irq' = FALSE
    /\ UNCHANGED <<tdNext, inits, adminVars, ringVars, ctxVars, clientVars,
                   handlerVars, devHead, devSqPhase, announced, executing,
                   devTail, devPhase, ghostVars>>

\* One iteration of ena_com_abort_admin_commands(), which takes no lock.
AbortOne ==
    /\ td \in {"freed", "abort"}
    /\ status' = [status EXCEPT ![tdNext] = "ABORTED"]
    /\ wait_event' = [wait_event EXCEPT ![tdNext] = TRUE]
    /\ IF tdNext = Depth - 1
       THEN tdNext' = 0 /\ td' = "drained"
       ELSE tdNext' = tdNext + 1 /\ td' = "abort"
    /\ UNCHANGED <<inits, adminVars, ringVars, comp_ctx, occupied, user_cqe,
                   comp_status, clientVars, handlerVars, devVars, ghostVars>>

\* Mutant: nobody waits for the aborted callers to leave.
DrainedAlways == TRUE
\* ena_com_wait_for_abort_completion() leaves its loop.
Drained == outstanding_cmds = 0

\* ... and ena_com_admin_destroy() frees the contexts and the rings.
Destroy ==
    /\ StepTd("drained", "down")
    /\ q_lock = Nobody
    /\ Drained
    /\ comp_ctx' = FALSE
    /\ UNCHANGED <<tdNext, inits, adminVars, ringVars, occupied, user_cqe,
                   status, comp_status, wait_event, clientVars, handlerVars,
                   devVars, ghostVars>>

\* ena_com_admin_init()
AdminInit ==
    /\ StepTd("down", "init")
    /\ inits < MaxInits
    /\ inits' = inits + 1
    /\ running_state' = TRUE /\ polling' = FALSE
    /\ is_missing_admin_interrupt' = FALSE /\ curr_cmd_id' = 0
    /\ outstanding_cmds' = 0 /\ polling_for_completions' = FALSE
    /\ q_lock' = Nobody
    /\ sq' = [i \in Ids |-> NoSqEntry] /\ sqTail' = 0 /\ sqPhase' = TRUE
    /\ cq' = [i \in Ids |-> NoCqEntry] /\ cqHead' = 0 /\ cqPhase' = TRUE
    /\ comp_ctx' = TRUE
    /\ occupied' = [i \in Ids |-> FALSE]
    /\ user_cqe' = [i \in Ids |-> NoCmd]
    /\ status' = [i \in Ids |-> "SUBMITTED"]
    /\ comp_status' = [i \in Ids |-> "none"]
    /\ wait_event' = [i \in Ids |-> FALSE]
    /\ devHead' = 0 /\ devSqPhase' = TRUE /\ devTail' = 0 /\ devPhase' = TRUE
    /\ overrun' = FALSE
    /\ UNCHANGED <<tdNext, clientVars, handlerVars, announced, executing, irq,
                   irqOn, lastCmd, answer, gaveUp, stray, exposed>>

\* ena_com_set_admin_polling_mode(true), early in ena_device_init()
PollFirst ==
    /\ StepTd("init", "polled")
    /\ polling' = TRUE
    /\ UNCHANGED <<tdNext, inits, running_state, is_missing_admin_interrupt,
                   curr_cmd_id, outstanding_cmds, polling_for_completions,
                   q_lock, ringVars, ctxVars, clientVars, handlerVars,
                   devVars, ghostVars>>

\* ena_request_mgmnt_irq()
RequestIrq ==
    /\ StepTd("polled", "irqOn")
    /\ irqOn' = TRUE
    /\ UNCHANGED <<tdNext, inits, adminVars, ringVars, ctxVars, clientVars,
                   handlerVars, devHead, devSqPhase, announced, executing,
                   devTail, devPhase, irq, ghostVars>>

\* ena_com_set_admin_polling_mode(false)
InterruptsOn ==
    /\ StepTd("irqOn", "up")
    /\ polling' = FALSE
    /\ UNCHANGED <<tdNext, inits, running_state, is_missing_admin_interrupt,
                   curr_cmd_id, outstanding_cmds, polling_for_completions,
                   q_lock, ringVars, ctxVars, clientVars, handlerVars,
                   devVars, ghostVars>>

-----------------------------------------------------------------------------
(***************************************************************************)
(* The device: it fetches the announced entries in order, executes them in *)
(* any order, and may answer late or never.  A set_admin_polling_mode()    *)
(* masks its MSI-X; an MSI-X that is not masked may be lost.               *)
(***************************************************************************)
DeviceFetch ==
    /\ announced > 0
    /\ announced' = announced - 1
    /\ executing' = executing \cup {sq[devHead]}
    /\ devHead' = NextSlot(devHead)
    /\ devSqPhase' = NextPhase(devHead, devSqPhase)
    /\ UNCHANGED <<devTail, devPhase, irq, irqOn, adminVars, ringVars, ctxVars,
                   clientVars, handlerVars, tdVars, ghostVars>>

DeviceComplete ==
    \E e \in executing, st \in DevStatus :
    \E id \in {e.id} \cup BadIds :
        /\ executing' = executing \ {e}
        /\ cq' = [cq EXCEPT ![devTail] =
                     [phase |-> devPhase, id |-> id, cmd |-> e.cmd, st |-> st]]
        /\ devTail' = NextSlot(devTail)
        /\ devPhase' = NextPhase(devTail, devPhase)
        /\ answer' = [answer EXCEPT ![e.cmd] = st]
        /\ \/ ~polling /\ irqOn /\ irq' = TRUE
           \/ UNCHANGED irq
        /\ UNCHANGED <<devHead, devSqPhase, announced, irqOn, adminVars, sq,
                       sqTail, sqPhase, cqHead, cqPhase, ctxVars, clientVars,
                       handlerVars, tdVars, lastCmd, gaveUp, stray,
                       exposed, overrun>>

-----------------------------------------------------------------------------
Handle(x) ==
    \/ FindContext(x) \/ BadCompletion(x) \/ CopyResponse(x)
    \/ PostStatus(x) \/ Wake(x) \/ FinishScan(x)

Issue(c) ==
    \/ RefuseNotRunning(c) \/ LockToSubmit(c)
    \/ RefuseFull(c) \/ RefuseOccupied(c) \/ Submit(c)

Wait(c) ==
    \/ ChooseWait(c) \/ LockToPoll(c) \/ TakeOwnership(c)
    \/ PollCheck(c) \/ PollExpired(c) \/ Aborted(c)
    \/ Woken(c) \/ WaitExpired(c) \/ IntrCheck(c)
    \/ NoCompletion(c) \/ MissingInterruptFatal(c) \/ MissingInterruptPolls(c)
    \/ CloseAq(c) \/ Release(c) \/ Decrement(c) \/ Return(c)

TearDown == ResetDevice \/ FreeIrq \/ AbortOne \/ Destroy
BringUp == AdminInit \/ PollFirst \/ RequestIrq \/ InterruptsOn

Next ==
    \/ \E c \in Clients : Issue(c) \/ Wait(c)
    \/ \E x \in Handlers : Handle(x)
    \/ Interrupt
    \/ Close \/ TearDown \/ BringUp
    \/ DeviceFetch \/ DeviceComplete

Spec == Init /\ [][Next]_vars

(***************************************************************************)
(* Fairness: a thread that is in a call, the interrupt handler and a       *)
(* started teardown keep running, spinlocks are handed out fairly (SF: the *)
(* lock is free again and again), and a polling loop does not find its     *)
(* deadline ahead forever.  The device owes nothing: it may never answer,  *)
(* and its interrupt may be lost.  Nobody has to start a call or a         *)
(* teardown.                                                               *)
(***************************************************************************)
Proceed(c) ==
    \/ RefuseFull(c) \/ RefuseOccupied(c) \/ Submit(c)
    \/ ChooseWait(c) \/ LockToPoll(c) \/ TakeOwnership(c) \/ Handle(c)
    \/ PollCheck(c) \/ PollExpired(c) \/ Aborted(c)
    \/ Woken(c) \/ WaitExpired(c) \/ IntrCheck(c)
    \/ NoCompletion(c) \/ MissingInterruptFatal(c) \/ MissingInterruptPolls(c)
    \/ CloseAq(c) \/ Release(c) \/ Decrement(c)

LeavePolling(c) == PollCheck(c) /\ pc'[c] # "pollLock"

Fairness ==
    /\ \A c \in Clients : SF_vars(Proceed(c)) /\ SF_vars(LeavePolling(c))
    /\ WF_vars(Handle(Isr) \/ Interrupt)
    /\ SF_vars(TearDown)

FairSpec == Spec /\ Fairness

-----------------------------------------------------------------------------
(***************************************************************************)
(* Properties                                                              *)
(***************************************************************************)
AdminType ==
    /\ running_state \in BOOLEAN /\ polling \in BOOLEAN
    /\ is_missing_admin_interrupt \in BOOLEAN
    /\ curr_cmd_id \in Ids
    /\ outstanding_cmds \in Int
    /\ polling_for_completions \in BOOLEAN
    /\ q_lock \in Clients \cup {Nobody}
RingType ==
    /\ sq \in [Ids -> SqEntry] /\ sqTail \in Ids /\ sqPhase \in BOOLEAN
    /\ cq \in [Ids -> CqEntry] /\ cqHead \in Ids /\ cqPhase \in BOOLEAN
CtxType ==
    /\ comp_ctx \in BOOLEAN
    /\ occupied \in [Ids -> BOOLEAN]
    /\ user_cqe \in [Ids -> Cmds \cup {NoCmd}]
    /\ status \in [Ids -> CmdStatus]
    /\ comp_status \in [Ids -> DevStatus \cup {"none"}]
    /\ wait_event \in [Ids -> BOOLEAN]
ClientType ==
    /\ pc \in [Clients -> ClientPc]
    /\ call \in [Clients -> Cmds \cup {NoCmd}]
    /\ ctx \in [Clients -> Ids]
    /\ ret \in [Clients -> Results]
    /\ buf \in [Clients -> Cmds \cup {NoCmd}]
HandlerType ==
    /\ hpc \in [Handlers -> HandlerPc]
    /\ hslot \in [Handlers -> Ids]
    /\ hphase \in [Handlers -> BOOLEAN]
    /\ hctx \in [Handlers -> Ids]
    /\ hdst \in [Handlers -> Cmds \cup {NoCmd}]
TdType == td \in TdPc /\ tdNext \in Ids /\ inits \in Nat
DevType ==
    /\ devHead \in Ids /\ devSqPhase \in BOOLEAN /\ announced \in Nat
    /\ executing \subseteq SqEntry
    /\ devTail \in Ids /\ devPhase \in BOOLEAN
    /\ irq \in BOOLEAN /\ irqOn \in BOOLEAN
GhostType ==
    /\ lastCmd \in Cmds \cup {NoCmd}
    /\ answer \in [Cmds -> DevStatus \cup {"none"}]
    /\ gaveUp \subseteq Cmds \cup {NoCmd}
    /\ stray \subseteq Cmds \cup {NoCmd}
    /\ exposed \subseteq Cmds \cup {NoCmd}
    /\ overrun \in BOOLEAN

\* Every variable keeps its type: the admin queue, its contexts and rings, the
\* callers, the handlers, teardown, the device and the history.
TypeOK ==
    /\ AdminType /\ RingType /\ CtxType /\ ClientType
    /\ HandlerType /\ TdType /\ DevType /\ GhostType

\* The client's command holds its context.
Holds(c) == pc[c] \notin {"idle", "submit", "decrement", "returned"}
DriverErrors == {"ETIME", "ENODEV"}

\* Call c has its own command's answer in its buffer and returns that answer's
\* status.
OwnAnswer(c) ==
    /\ buf[c] = call[c]
    /\ answer[call[c]] # "none"
    /\ ret[c] = Errno(answer[call[c]])

\* c comes back with the device's verdict.
Answered(c) == pc[c] = "returned" /\ call[c] # NoCmd /\ ret[c] \notin DriverErrors

\* "Submit an admin command and then wait until the device returns a completion.
\* The completion will be copied into cmd_comp" (ena_com.h): a call that comes back
\* with the device's verdict has its own command's answer.
CompletionIsCopied == \A c \in Clients : Answered(c) => OwnAnswer(c)

\* The code keeps that promise except to the calls it exposes: no timeout, abort,
\* reuse of a command id or late completion makes a caller take another command's
\* answer, but for the one that was submitted to the closed queue and, when the
\* rings had no room for its command, those at work then
\* (ena_com_wait_and_process_admin_cq).
ResponseIsOwn == \A c \in Clients : Answered(c) /\ call[c] \notin exposed => OwnAnswer(c)

\* comp_ctxt_release() runs without q_lock, so a handler may have read user_cqe
\* before it is cleared and copy after the call is over.  Such a stray memcpy()
\* hits the buffer of a call that timed out, was aborted or is exposed, never that
\* of another call that came back with an answer.
StrayOnlyAfterGivingUp == stray \subseteq gaveUp \cup exposed

\* Freed contexts are never used: once ena_com_admin_destroy() has run, no
\* caller holds one or is about to take one, and nobody is scanning completions
\* (ena_com_wait_for_abort_completion).
NoUseAfterFree ==
    ~comp_ctx => /\ \A c \in Clients : ~Holds(c) /\ pc[c] \notin {"submit", "decrement"}
                 /\ \A x \in Handlers : hpc[x] = "off"

\* Every occupied context has exactly one caller, and outstanding_cmds counts
\* the callers that have not left yet, although release and decrement are two
\* unlocked steps.
ContextsOwned ==
    comp_ctx =>
    /\ \A c, d \in Clients : (Holds(c) /\ Holds(d) /\ ctx[c] = ctx[d]) => c = d
    /\ {i \in Ids : occupied[i]} = {ctx[c] : c \in {d \in Clients : Holds(d)}}
    /\ outstanding_cmds = Cardinality({c \in Clients : Holds(c) \/ pc[c] = "decrement"})

\* One scan at a time: polling_for_completions keeps a poller and the interrupt
\* handler from consuming the same entries.
OneScanner ==
    /\ \A x, y \in Handlers : (Scanning(x) /\ Scanning(y)) => x = y
    /\ comp_ctx => (polling_for_completions <=> \E x \in Handlers : Scanning(x))

\* The driver and the device agree on both rings although they share only phase
\* bits and a doorbell: the completions the driver still has to take are the
\* ones the device wrote from the driver's position on, the commands announced
\* carry the phase the device expects, and neither side laps the other, unless a
\* submission to the closed queue found no room.
PositionsAgree ==
    comp_ctx /\ ~overrun =>
    /\ devTail = (Slot + Cardinality(Unread)) % Depth
    /\ Unread = {s \in Ids : Distance(Slot, s) < Cardinality(Unread)}
    /\ Load <= Depth
    /\ td \in {"init", "polled", "irqOn", "up", "closed"} =>
         sqTail = (devHead + announced) % Depth
    /\ \A s \in Announced :
          sq[s].phase = IF s >= devHead THEN devSqPhase ELSE ~devSqPhase

\* An id is not given to a new command while the device or the completion ring
\* still holds an earlier command with that id: the driver closes the queue before
\* it releases the context of a command it gave up on.  Only the command that was
\* submitted to the closed queue can share its id with one.
IdsInFlightDistinct ==
    comp_ctx /\ ~overrun =>
    LET inFlight == {<<sq[s].id, sq[s].cmd>> : s \in Announced}
                    \cup {<<e.id, e.cmd>> : e \in executing}
                    \cup {<<cq[s].id, cq[s].cmd>> : s \in {t \in Unread : cq[t].id \in Ids}}
    IN \A e, f \in inFlight :
          e[1] = f[1] => \/ e = f
                         \/ e[2] \in exposed /\ f[2] \in gaveUp
                         \/ f[2] \in exposed /\ e[2] \in gaveUp

\* The rings stay usable: positions and phases agree on both sides, and an id names
\* one command, but for the command that the queue exposes.
RingsInStep == PositionsAgree /\ IdsInFlightDistinct

\* What the callers see implements AdminCommands.
Rpc == INSTANCE AdminCommands WITH
    mode <- IF overrun THEN "overrun" ELSE IF running_state THEN "open"
            ELSE IF \E c \in Clients : pc[c] = "submit" THEN "closing" ELSE "closed",
    state <- [c \in Clients |->
                IF pc[c] = "submit" THEN "idle"
                ELSE IF pc[c] \in {"idle", "returned"} THEN pc[c] ELSE "pending"],
    cmd <- call,
    response <- [c \in Clients |->
                   IF pc[c] = "returned" /\ ret[c] \notin DriverErrors
                   THEN buf[c] ELSE NoCmd],
    result <- [c \in Clients |-> IF pc[c] = "returned" THEN ret[c] ELSE "none"],
    issued <- lastCmd

\* The queue gives its callers what AdminCommands promises them.
ExecutesAdminCommands == Rpc!Spec

\* Every call comes back, whatever the device and its interrupts do: nobody waits
\* for ever for q_lock, the scan, an interrupt or an answer.  As MaxCmds bounds the
\* calls, there is again and again a moment when nobody is in one.
EveryCallReturns == []<>(\A c \in Clients : pc[c] \in {"idle", "returned"})

\* A teardown ends: the callers it aborts all leave.
TearDownEnds == td = "closed" ~> td = "down"
=============================================================================
