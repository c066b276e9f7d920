---------------------------- MODULE AtomicCommit ----------------------------
(***************************************************************************)
(* What the two-phase commit coordinator promises its participants and its *)
(* caller, without phases, retries or recovery: the decision to commit is  *)
(* made when everyone has agreed and is prepared, and nobody commits       *)
(* without it; it may be given up, and then nobody commits any more; an    *)
(* outcome is announced once, it is true of those who committed, and       *)
(* nothing happens to anyone after it.  Participants may part ways (the    *)
(* outcome "mixed"): the code gives up commits that keep failing.          *)
(***************************************************************************)
CONSTANT Participants

VARIABLES
  stage,  \* "voting", "committing", "aborting", or the announced outcome
  fate,   \* what each participant has done
  yes     \* the participants that have agreed

vars == <<stage, fate, yes>>

Open == stage \in {"voting", "committing", "aborting"}

Init ==
  /\ stage = "voting"
  /\ fate = [p \in Participants |-> "working"]
  /\ yes = {}

\* p does its work and agrees, or its answer is lost.
Prepare(p) ==
  /\ stage = "voting" /\ fate[p] = "working"
  /\ fate' = [fate EXCEPT ![p] = "prepared"]
  /\ yes' \in {yes, yes \cup {p}}
  /\ UNCHANGED stage

Decide ==
  /\ stage = "voting" /\ yes = Participants
  /\ \A p \in Participants : fate[p] = "prepared"
  /\ stage' = "committing"
  /\ UNCHANGED <<fate, yes>>

GiveUp ==
  /\ stage \in {"voting", "committing"}
  /\ stage' = "aborting"
  /\ UNCHANGED <<fate, yes>>

Commit(p) ==
  /\ stage = "committing" /\ fate[p] = "prepared"
  /\ fate' = [fate EXCEPT ![p] = "committed"]
  /\ UNCHANGED <<stage, yes>>

RollBack(p) ==
  /\ Open /\ fate[p] \in {"working", "prepared"}
  /\ fate' = [fate EXCEPT ![p] = "rolled_back"]
  /\ UNCHANGED <<stage, yes>>

Announce ==
  /\ \/ /\ stage = "committing" /\ stage' = "committed"
        /\ \A p \in Participants : fate[p] = "committed"
     \/ /\ stage \in {"committing", "aborting"} /\ stage' = "mixed"
        /\ \E p \in Participants : fate[p] = "committed"
     \/ Open /\ stage' = "rolled_back"
  /\ UNCHANGED <<fate, yes>>

Next ==
  \/ Decide \/ GiveUp \/ Announce
  \/ \E p \in Participants : Prepare(p) \/ Commit(p) \/ RollBack(p)

Spec == Init /\ [][Next]_vars
=============================================================================
