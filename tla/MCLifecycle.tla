---------------------------- MODULE MCLifecycle ----------------------------
(***************************************************************************)
(* Small instances of Lifecycle for TLC.                                   *)
(***************************************************************************)
EXTENDS Lifecycle

\* Everything, and everything but the removal of the device.
Everything == AllOperations
OneLife == AllOperations \ {"remove"}
=============================================================================
