-------------------------------- MODULE IoIntr --------------------------------
(***************************************************************************)
(* The interrupt of a queue pair of the Linux driver (src/kernel/linux/    *)
(* ena/ena_netdev.c): ena_intr_msix_io(), the polling of the two           *)
(* completion queues by ena_io_poll() in NAPI context or by a busy poller, *)
(* the unmasking of the interrupt, and check_for_lost_interrupts().        *)
(*                                                                         *)
(* "The ENA device operates in auto-mask and auto-clear interrupt modes"   *)
(* (ena/README.rst): an interrupt masks itself, and ena_io_poll() has to   *)
(* unmask it, which it does after it gave NAPI back and while another CPU  *)
(* may be polling already.  The queue stays up; TxQueue has the reset.     *)
(***************************************************************************)
EXTENDS Integers

CONSTANTS
    CPUs,       \* where ena_io_poll() runs
    Budget,     \* completions of a ring taken in one poll
    MaxPosted,  \* bound: completions the device posts
    MaxLost     \* bound: interrupts that do not arrive

ASSUME BudgetAssumption == Budget \in Nat \ {0}
ASSUME BoundsAssumption == MaxPosted \in Nat /\ MaxLost \in Nat

Rings == {"tx", "rx"}

VARIABLES
    \* the device: completions not handled by ring, posted so far, whether there
    \* are some since the last interrupt, the mask
    cqes, posted, cause, unmasked,
    msix, lost,           \* an interrupt on its way, and how many were lost
    interrupts_masked,    \* struct ena_napi
    hpc,                  \* ena_intr_msix_io()
    \* the state bits of NAPI; listed: a CPU has been told to poll
    SCHED, MISSED, IN_BUSY_POLL, listed,
    pc, full,             \* ena_io_poll(): where each CPU is, whether a budget was used up
    \* check_for_lost_interrupts(); polled: last_napi_jiffies is not
    \* last_checked_last_napi_jiffies
    tpc, polled, last_checked_is_cq_empty, lost_interrupt_unmask_handled

devVars == <<cqes, posted, cause, unmasked>>
napiVars == <<SCHED, MISSED, IN_BUSY_POLL, listed>>
pollVars == <<pc, full>>
checkVars == <<tpc, last_checked_is_cq_empty, lost_interrupt_unmask_handled>>
vars == <<devVars, msix, lost, interrupts_masked, hpc, napiVars, pollVars, polled, checkVars>>

\* The end of ena_up(): the interrupt is unmasked and NAPI scheduled.
Init ==
    /\ cqes = [r \in Rings |-> 0] /\ posted = 0 /\ cause = FALSE /\ unmasked = TRUE
    /\ msix = FALSE /\ lost = 0
    /\ interrupts_masked = FALSE /\ hpc = "idle"
    /\ SCHED = TRUE /\ MISSED = FALSE /\ IN_BUSY_POLL = FALSE /\ listed = TRUE
    /\ pc = [c \in CPUs |-> "idle"] /\ full = FALSE
    /\ tpc = "idle" /\ polled = TRUE
    /\ last_checked_is_cq_empty = [r \in Rings |-> TRUE]
    /\ lost_interrupt_unmask_handled = FALSE

At(c, l) == pc[c] = l
Go(c, l) == pc' = [pc EXCEPT ![c] = l]

-----------------------------------------------------------------------------
(***************************************************************************)
(* The device and the way of the interrupt                                 *)
(***************************************************************************)
DeviceCompletes(r) ==
    /\ posted < MaxPosted
    /\ posted' = posted + 1
    /\ cqes' = [cqes EXCEPT ![r] = @ + 1]
    /\ cause' = TRUE
    /\ UNCHANGED <<unmasked, msix, lost, interrupts_masked, hpc, napiVars, pollVars, polled,
                   checkVars>>

\* Auto-mask and auto-clear.
DeviceInterrupts ==
    /\ unmasked /\ cause
    /\ unmasked' = FALSE /\ cause' = FALSE
    /\ msix' = TRUE
    /\ UNCHANGED <<cqes, posted, lost, interrupts_masked, hpc, napiVars, pollVars, polled,
                   checkVars>>

\* The check tries once: an interrupt it asked for is not lost as well.
InterruptIsLost ==
    /\ msix /\ lost < MaxLost /\ ~lost_interrupt_unmask_handled
    /\ msix' = FALSE
    /\ lost' = lost + 1
    /\ UNCHANGED <<devVars, interrupts_masked, hpc, napiVars, pollVars, polled, checkVars>>

-----------------------------------------------------------------------------
(***************************************************************************)
(* ena_intr_msix_io()                                                      *)
(***************************************************************************)
\* napi_schedule()
NapiSchedule ==
    IF SCHED THEN MISSED' = TRUE /\ UNCHANGED <<SCHED, listed>>
             ELSE SCHED' = TRUE /\ listed' = TRUE /\ UNCHANGED MISSED

\* Mutant: the handler leaves the flag to the poll it schedules.
MaskedByHandlerNot == interrupts_masked
MaskedByHandler == TRUE

HandlerFlags ==
    /\ msix /\ hpc = "idle"
    /\ msix' = FALSE
    /\ interrupts_masked' = MaskedByHandler
    /\ hpc' = "schedule"
    /\ UNCHANGED <<devVars, lost, napiVars, pollVars, polled, checkVars>>

HandlerSchedules ==
    /\ hpc = "schedule"
    /\ hpc' = "idle"
    /\ NapiSchedule
    /\ UNCHANGED <<devVars, msix, lost, interrupts_masked, IN_BUSY_POLL, pollVars, polled,
                   checkVars>>

\* Others schedule NAPI as well: check_for_empty_rx_ring().
OthersSchedule ==
    /\ NapiSchedule
    /\ UNCHANGED <<devVars, msix, lost, interrupts_masked, hpc, IN_BUSY_POLL, pollVars, polled,
                   checkVars>>

-----------------------------------------------------------------------------
(***************************************************************************)
(* ena_io_poll().  full is of the CPU that polls, of which there is one.   *)
(***************************************************************************)
\* It sets last_napi_jiffies.
BeginPoll(c) == Go(c, "tx") /\ full' = FALSE /\ polled' = TRUE

StartPoll(c) ==
    /\ At(c, "idle") /\ listed
    /\ listed' = FALSE
    /\ BeginPoll(c)
    /\ UNCHANGED <<devVars, msix, lost, interrupts_masked, hpc, SCHED, MISSED, IN_BUSY_POLL,
                   checkVars>>

\* Mutant: a budget is taken from a completion queue that has less.
TakeableBudget(r) == Budget
Takeable(r) == IF cqes[r] < Budget THEN cqes[r] ELSE Budget

Take(r, n) ==
    /\ cqes' = [cqes EXCEPT ![r] = @ - n]
    /\ full' = (full \/ n = Budget)
    /\ UNCHANGED <<posted, cause, unmasked, msix, lost, interrupts_masked, hpc, napiVars,
                   polled, checkVars>>

CleanTx(c) ==
    /\ At(c, "tx")
    /\ Take("tx", Takeable("tx"))
    /\ Go(c, "rx")

\* Without memory for a packet ena_clean_rx_irq() leaves the rest where it is; the
\* packet itself is dropped, and not counted.
CleanRx(c) ==
    /\ At(c, "rx")
    /\ \/ Take("rx", Takeable("rx"))
       \/ \E n \in 1..Takeable("rx") :
            /\ cqes' = [cqes EXCEPT !["rx"] = @ - n]
            /\ UNCHANGED <<posted, cause, unmasked, msix, lost, interrupts_masked, hpc,
                           napiVars, full, polled, checkVars>>
    /\ Go(c, "complete")

\* A poll that used up a budget is repeated.
PollAgain(c) ==
    /\ At(c, "complete") /\ full
    /\ IF IN_BUSY_POLL THEN Go(c, "busy") /\ UNCHANGED listed
                       ELSE Go(c, "idle") /\ listed' = TRUE
    /\ UNCHANGED <<devVars, msix, lost, interrupts_masked, hpc, SCHED, MISSED, IN_BUSY_POLL,
                   full, polled, checkVars>>

\* napi_complete_done(): it returns true in the last case only.
CompleteDone(c) ==
    /\ At(c, "complete") /\ ~full
    /\ \/ IN_BUSY_POLL /\ Go(c, "busy") /\ UNCHANGED <<SCHED, MISSED, listed>>
       \/ /\ ~IN_BUSY_POLL /\ MISSED
          /\ MISSED' = FALSE /\ listed' = TRUE /\ Go(c, "idle") /\ UNCHANGED SCHED
       \/ /\ ~IN_BUSY_POLL /\ ~MISSED
          /\ SCHED' = FALSE /\ Go(c, "read") /\ UNCHANGED <<MISSED, listed>>
    /\ UNCHANGED <<devVars, msix, lost, interrupts_masked, hpc, IN_BUSY_POLL, full, polled,
                   checkVars>>

\* From here on another CPU may poll.
ReadFlag(c) ==
    /\ At(c, "read")
    /\ Go(c, IF interrupts_masked THEN "clear" ELSE "idle")
    /\ UNCHANGED <<devVars, msix, lost, interrupts_masked, hpc, napiVars, full, polled,
                   checkVars>>

ClearFlag(c) ==
    /\ At(c, "clear")
    /\ interrupts_masked' = FALSE
    /\ Go(c, "unmask")
    /\ UNCHANGED <<devVars, msix, lost, hpc, napiVars, full, polled, checkVars>>

\* ena_unmask_interrupt()
UnmaskInterrupt(c) ==
    /\ At(c, "unmask")
    /\ unmasked' = TRUE
    /\ Go(c, "idle")
    /\ UNCHANGED <<cqes, posted, cause, msix, lost, interrupts_masked, hpc, napiVars, full,
                   polled, checkVars>>

-----------------------------------------------------------------------------
(***************************************************************************)
(* A busy poller, the kernel's napi_busy_loop(): it owns NAPI, polls any   *)
(* number of times, and gives it back with a last poll of the usual kind.  *)
(***************************************************************************)
StartBusyPoll(c) ==
    /\ At(c, "idle") /\ ~SCHED
    /\ SCHED' = TRUE /\ IN_BUSY_POLL' = TRUE
    /\ Go(c, "busy")
    /\ UNCHANGED <<devVars, msix, lost, interrupts_masked, hpc, MISSED, listed, full, polled,
                   checkVars>>

BusyPoll(c) ==
    /\ At(c, "busy")
    /\ BeginPoll(c)
    /\ UNCHANGED <<devVars, msix, lost, interrupts_masked, hpc, napiVars, checkVars>>

ForgetMissed(c) ==
    /\ At(c, "busy")
    /\ MISSED' = FALSE
    /\ Go(c, "stop busy")
    /\ UNCHANGED <<devVars, msix, lost, interrupts_masked, hpc, SCHED, IN_BUSY_POLL, listed,
                   full, polled, checkVars>>

StopBusyPoll(c) ==
    /\ At(c, "stop busy")
    /\ IN_BUSY_POLL' = FALSE
    /\ BeginPoll(c)
    /\ UNCHANGED <<devVars, msix, lost, interrupts_masked, hpc, SCHED, MISSED, listed,
                   checkVars>>

-----------------------------------------------------------------------------
(***************************************************************************)
(* check_for_lost_interrupts(), every second                               *)
(***************************************************************************)
checkUnchanged == <<cqes, posted, msix, lost, interrupts_masked, hpc, napiVars, pollVars>>

\* Bound: an interrupt arrives or is lost, its handler ends, and a CPU that read the
\* flag unmasks, within the second between two checks.
Settled ==
    /\ ~(unmasked /\ cause) /\ ~msix /\ hpc = "idle"
    /\ \A c \in CPUs : pc[c] \notin {"read", "clear", "unmask"}

CheckNapi ==
    /\ tpc = "idle" /\ Settled
    /\ IF SCHED
       THEN lost_interrupt_unmask_handled' = FALSE /\ UNCHANGED tpc
       ELSE tpc' = "rings" /\ UNCHANGED lost_interrupt_unmask_handled
    /\ UNCHANGED <<checkUnchanged, cause, unmasked, polled, last_checked_is_cq_empty>>

\* Mutant: the mark of an interrupt that was dealt with stays.
HandledAfterFor(isLost) == lost_interrupt_unmask_handled \/ isLost
HandledAfter(isLost) == isLost

\* check_ring_for_lost_interrupt() of both rings, and what follows from it.
CheckRings ==
    LET isLost == \E r \in Rings : cqes[r] > 0 /\ ~last_checked_is_cq_empty[r] /\ ~polled IN
    /\ tpc = "rings"
    /\ last_checked_is_cq_empty' = [r \in Rings |-> cqes[r] = 0]
    /\ tpc' = IF isLost /\ ~lost_interrupt_unmask_handled THEN "unmask" ELSE "idle"
    /\ lost_interrupt_unmask_handled' = HandledAfter(isLost)
    /\ polled' = FALSE
    /\ UNCHANGED <<checkUnchanged, cause, unmasked>>

\* ena_unmask_interrupt() with lost_interrupt set: the device reports again.
UnmaskLost ==
    /\ tpc = "unmask"
    /\ unmasked' = TRUE /\ cause' = TRUE
    /\ tpc' = "idle"
    /\ UNCHANGED <<checkUnchanged, polled, last_checked_is_cq_empty,
                   lost_interrupt_unmask_handled>>

-----------------------------------------------------------------------------
Poll(c) ==
    \/ StartPoll(c) \/ CleanTx(c) \/ CleanRx(c) \/ PollAgain(c) \/ CompleteDone(c)
    \/ ReadFlag(c) \/ ClearFlag(c) \/ UnmaskInterrupt(c)
BusyPolls(c) == BusyPoll(c) \/ ForgetMissed(c) \/ StopBusyPoll(c)
Handler == HandlerFlags \/ HandlerSchedules
Check == CheckNapi \/ CheckRings \/ UnmaskLost

Next ==
    \/ (\E r \in Rings : DeviceCompletes(r)) \/ DeviceInterrupts \/ InterruptIsLost
    \/ Handler \/ OthersSchedule \/ Check
    \/ \E c \in CPUs : Poll(c) \/ StartBusyPoll(c) \/ BusyPolls(c)

Spec == Init /\ [][Next]_vars

\* The device interrupts, the kernel runs the handler and what was scheduled, and
\* the timer runs again and again.
Fairness ==
    /\ WF_vars(DeviceInterrupts) /\ WF_vars(Handler)
    /\ \A c \in CPUs : WF_vars(Poll(c) \/ BusyPolls(c))
    /\ WF_vars(Check)

LiveSpec == Spec /\ Fairness

-----------------------------------------------------------------------------
(***************************************************************************)
(* Properties                                                              *)
(***************************************************************************)
\* Where a CPU can be in ena_io_poll(), or in a busy poll.
PollStates == {"idle", "tx", "rx", "complete", "read", "clear", "unmask", "busy", "stop busy"}

DevType ==
    /\ cqes \in [Rings -> Nat] /\ posted \in Nat
    /\ cause \in BOOLEAN /\ unmasked \in BOOLEAN
IrqType ==
    /\ msix \in BOOLEAN /\ lost \in 0..MaxLost
    /\ interrupts_masked \in BOOLEAN /\ hpc \in {"idle", "schedule"}
NapiType ==
    /\ SCHED \in BOOLEAN /\ MISSED \in BOOLEAN
    /\ IN_BUSY_POLL \in BOOLEAN /\ listed \in BOOLEAN
PollType == pc \in [CPUs -> PollStates] /\ full \in BOOLEAN
CheckType ==
    /\ tpc \in {"idle", "rings", "unmask"} /\ polled \in BOOLEAN
    /\ last_checked_is_cq_empty \in [Rings -> BOOLEAN]
    /\ lost_interrupt_unmask_handled \in BOOLEAN

\* The state of the device, of the interrupt, of NAPI and of the check keeps its type.
TypeOK == DevType /\ IrqType /\ NapiType /\ PollType /\ CheckType

\* No interrupt arrived that was not served: NAPI, the handler and every CPU are
\* at rest.
Quiet == ~msix /\ hpc = "idle" /\ ~SCHED /\ \A c \in CPUs : At(c, "idle")

\* "The interrupt is unmasked by the driver after NAPI processing is complete":
\* whatever CPUs and busy pollers interleave, interrupts are never left masked
\* when nobody is at work any more, unless one was lost on its way.
NeverLeftMasked == Quiet /\ lost = 0 => unmasked

\* Completions are handled, also when an interrupt was lost, or a poll stopped
\* early for lack of memory: the timer finds out.
CompletionsAreHandled == \A r \in Rings : cqes[r] > 0 ~> cqes[r] = 0
=============================================================================
