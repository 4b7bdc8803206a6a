------------------------------- MODULE MCIntrRx -------------------------------
(***************************************************************************)
(* Liveness of two components of a queue pair that share no state in the   *)
(* models, in one run of TLC: interrupts and NAPI (IoIntr), and the        *)
(* receive queue (RxQueue).  A behaviour is one of the part it starts      *)
(* with, and fair to that part.                                            *)
(***************************************************************************)
EXTENDS IoIntr

CONSTANTS Pages, NoPage

VARIABLES
    part,
    \* the receive queue
    mode, ring, used, rx_info, sq, rung, cq, taken, mem, stack, failures, napi,
    missed, poll, trigger_reset, faults, oops

\* One buffer posted; one more page, and two allocations that may fail.
Rx == INSTANCE RxQueue WITH
          RingSize <- 2, SglSize <- 1, CacheSize <- 1, Modes <- {"plain", "lpc", "xdp"},
          MaxHeld <- 1, MaxFailures <- 2, MaxFaults <- 0

rxVars ==
    <<mode, ring, used, rx_info, sq, rung, cq, taken, mem, stack, failures, napi,
      missed, poll, trigger_reset, faults, oops>>

BothInit ==
    /\ part \in {"intr", "rx"}
    /\ Init /\ Rx!Init
    /\ part = "intr" => mode = "plain"
BothNext ==
    \/ part = "intr" /\ Next /\ UNCHANGED <<part, rxVars>>
    \/ part = "rx" /\ Rx!Next /\ UNCHANGED <<part, vars>>
    \/ part = "rx" /\ oops /\ UNCHANGED <<part, vars, rxVars>>   \* the kernel stopped

\* The fairness of each, under the condition that it is the part.
IntrFairness ==
    /\ WF_vars(part = "intr" /\ DeviceInterrupts) /\ WF_vars(part = "intr" /\ Handler)
    /\ \A c \in CPUs : WF_vars(part = "intr" /\ (Poll(c) \/ BusyPolls(c)))
    /\ WF_vars(part = "intr" /\ Check)
RxFairness ==
    /\ WF_rxVars(part = "rx" /\ Rx!Napi) /\ WF_rxVars(part = "rx" /\ Rx!TimerChecks)
    /\ WF_rxVars(part = "rx" /\ Rx!Reset) /\ WF_rxVars(part = "rx" /\ Rx!StackFrees)

BothSpec == BothInit /\ [][BothNext]_<<part, vars, rxVars>> /\ IntrFairness /\ RxFairness
-----------------------------------------------------------------------------
\* A receive ring that has run empty is filled again once there is memory, although
\* the device interrupts no more (check_for_empty_rx_ring(): "This case will lead to
\* a deadlock").
EmptyRingIsRefilled == part = "rx" => Rx!EmptyRingIsRefilled
=============================================================================
