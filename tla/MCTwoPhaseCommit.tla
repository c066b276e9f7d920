--------------------------- MODULE MCTwoPhaseCommit ---------------------------
(* Instances of TwoPhaseCommit for TLC.                                        *)
EXTENDS TwoPhaseCommit, TLC

ParticipantSymmetry == Permutations(Participants)
=============================================================================
