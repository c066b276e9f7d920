------------------------ MODULE MCManualTransaction ------------------------
(* Model-checking instances of ManualTransaction. *)
EXTENDS ManualTransaction, TLC
=============================================================================
