-------------------------- MODULE MCTypeExecution --------------------------
(* Model-checking instance of TypeExecution. *)
EXTENDS TypeExecution, TLC

RequestSymmetry == Permutations(Requests) \cup Permutations(Contexts) \cup Permutations(Ids)
=============================================================================
