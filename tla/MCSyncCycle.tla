---------------------------- MODULE MCSyncCycle ----------------------------
(* Model-checking instance of SyncCycle; the bounds are given in the .cfg files. *)
EXTENDS CycleInvariant
=============================================================================
