------------------------- MODULE MCConnectionPools -------------------------
(* Model-checking instances of ConnectionPools. *)
EXTENDS ConnectionPools, TLC

WorkerSymmetry == Permutations(Workers)

\* Every driver: two whose pools are kept, one whose pools are displaced because its
\* password is not saved, and MongoDB
EveryDriver ==
  {[driver |-> d, saved |-> d # "mysql"] : d \in AllDrivers}
=============================================================================
