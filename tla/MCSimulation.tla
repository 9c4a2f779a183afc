---------------------------- MODULE MCSimulation ----------------------------
(* Model-checking instances of Simulation; the .cfg files name the workloads. *)
EXTENDS ReplicaInvariant
=============================================================================
