-------------------------- MODULE MCOutboxPipeline --------------------------
(* OutboxPipeline as TLC checks it; the constants are set by the .cfg files. *)
EXTENDS OutboxInvariant
=============================================================================
