---------------------------- MODULE MCLifecycle ----------------------------
(* Model-checking instances of Lifecycle; the .cfg files give the bounds.  *)
EXTENDS Lifecycle
=============================================================================
