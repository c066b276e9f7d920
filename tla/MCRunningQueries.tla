-------------------------- MODULE MCRunningQueries --------------------------
(* A model-checking instance of RunningQueries. *)
EXTENDS RunningQueries
=============================================================================
