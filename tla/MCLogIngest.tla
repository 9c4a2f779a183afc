---------------------------- MODULE MCLogIngest ----------------------------
(* Model-checking instances of LogIngest.                                  *)
EXTENDS LogIngest
=============================================================================
