------------------------- MODULE MCTransactionOwner -------------------------
(* Model-checking instances of TransactionOwner. *)
EXTENDS TransactionOwner, TLC

CallSymmetry == Permutations(Calls)
=============================================================================
