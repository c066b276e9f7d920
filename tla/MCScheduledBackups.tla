------------------------ MODULE MCScheduledBackups ------------------------
(* Instances of ScheduledBackups for TLC.                                    *)
EXTENDS ScheduledBackups, TLC

\* Processes and commands are interchangeable.
ProcSymmetry == Permutations(Procs) \cup Permutations(Users)
===========================================================================
