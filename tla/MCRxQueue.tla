------------------------------ MODULE MCRxQueue ------------------------------
(***************************************************************************)
(* A small instance of RxQueue for TLC: two buffers posted, packets of one *)
(* or two.                                                                 *)
(***************************************************************************)
EXTENDS RxQueue, TLC

\* With the page cache, which multiplies the states, the device commits no fault and
\* the network stack has one part at a time.
NoneYet == stack = {} /\ Waiting = <<>>
BoundedNext ==
    \/ Napi \/ Interrupt \/ TimerChecks \/ StackFrees \/ Reset
    \/ (mode = "lpc" => NoneYet) /\ DeviceFills
    \/ mode # "lpc" /\ DeviceErrs
Bounded == Init /\ [][BoundedNext]_vars

\* Which page is which makes no difference.
Symmetry == Permutations(Pages)
=============================================================================
