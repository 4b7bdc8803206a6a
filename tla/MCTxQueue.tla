------------------------------ MODULE MCTxQueue ------------------------------
(***************************************************************************)
(* Small instances of TxQueue for TLC.                                     *)
(***************************************************************************)
EXTENDS TxQueue, TLC

\* With and without a meta descriptor; without one also with another packet to come.
AllPackets ==
    [bufs : {1}, descs : {1, 2}, more : {FALSE}] \cup [bufs : {1}, descs : {1}, more : {TRUE}]
\* One kind, so that several are in flight.
OnePacket == [bufs : {1}, descs : {1}, more : {FALSE}]

\* Which id is which makes no difference.
Symmetry == Permutations(Ids)
=============================================================================
