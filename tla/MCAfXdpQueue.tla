----------------------------- MODULE MCAfXdpQueue -----------------------------
(***************************************************************************)
(* Small instances of AfXdpQueue for TLC.                                  *)
(***************************************************************************)
EXTENDS AfXdpQueue, TLC

\* A packet of others or a fault, one of them.
OneDisturbance == others + faults <= 1

\* Which frame is which makes no difference.
Symmetry == Permutations(Frames)
=============================================================================
