--------------------------- MODULE TwoPhaseCommit ---------------------------
(***************************************************************************)
(* The two-phase commit coordinator                                        *)
(* (crates/dbx-core/src/query/two_phase_commit.rs): execute runs prepare   *)
(* and commit over the participants with a durable log of its status, and  *)
(* recover finishes from the log what a crash interrupted.                 *)
(*                                                                         *)
(* The participants are external closures: a call that returns an error    *)
(* may have taken effect.  They are called one after another; the model    *)
(* lets any of those that are left be the next one.                        *)
(***************************************************************************)
EXTENDS Naturals

CONSTANTS
  Participants,
  MaxRetries,   \* max_retries of commit_phase (2 in the code)
  MaxCrashes,   \* bound: how often the coordinator dies or a save of the log fails
  LostReplies   \* may a commit that took effect return an error

ASSUME BoundsAssumption ==
  MaxRetries \in Nat /\ MaxCrashes \in Nat /\ LostReplies \in BOOLEAN

VARIABLES
  log,      \* TransactionLog.status, durable
  part,     \* what each participant has done
  pc,       \* where the coordinator is
  caller,   \* in execute or in recover
  todo,     \* participants still to be called in this loop
  retry,    \* next_pending
  acked,    \* results with committed = true
  attempt,
  errors,   \* participants whose rollback returned an error
  voted,    \* participants that ever voted yes (history)
  lost,     \* participants whose commit returned an error and took effect (history)
  crashes

loopVars == <<caller, todo, retry, acked, attempt, errors>>
vars     == <<log, part, pc, loopVars, voted, lost, crashes>>

Final == {"committed", "rolled_back", "mixed"}

TypeOK ==
  /\ log \in Final \cup {"none", "preparing", "prepared", "committing", "rolling_back"}
  /\ part \in [Participants -> {"working", "prepared", "committed", "rolled_back"}]
  /\ pc \in {"begin", "prepare", "agreed", "commit", "counted", "rejected",
             "rollback", "save", "done", "down"}
  /\ caller \in {"execute", "recover"}
  /\ todo \subseteq Participants /\ retry \subseteq Participants
  /\ acked \subseteq Participants /\ voted \subseteq Participants
  /\ lost \subseteq Participants
  /\ attempt \in 0 .. MaxRetries
  /\ errors \subseteq Participants
  /\ crashes \in 0 .. MaxCrashes

Init ==
  /\ log = "none"
  /\ part = [p \in Participants |-> "working"]
  /\ pc = "begin" /\ caller = "execute"
  /\ todo = {} /\ retry = {} /\ acked = {} /\ attempt = 0 /\ errors = {}
  /\ voted = {} /\ lost = {} /\ crashes = 0

-----------------------------------------------------------------------------
\* execute saves the log before anyone is asked.  A transaction id is executed once: the
\* callers choose the ids, and a second execute of one would overwrite its log.
Begin ==
  /\ pc = "begin"
  /\ log' = "preparing"
  /\ pc' = "prepare" /\ todo' = Participants
  /\ UNCHANGED <<part, caller, retry, acked, attempt, errors, voted, lost, crashes>>

\* prepare_phase: p votes yes ...
VoteYes(p) ==
  /\ pc = "prepare" /\ p \in todo
  /\ part' = [part EXCEPT ![p] = "prepared"]
  /\ voted' = voted \cup {p}
  /\ todo' = todo \ {p}
  /\ UNCHANGED <<log, pc, caller, retry, acked, attempt, errors, lost, crashes>>

\* Mutant: the loop goes on after a vote against.
VoteNo_GoesOn(p) ==
  /\ pc = "prepare" /\ p \in todo
  /\ todo' = todo \ {p}
  /\ UNCHANGED <<log, part, pc, caller, retry, acked, attempt, errors, voted, lost, crashes>>

\* ... or returns an error, prepared or not, and nobody else is asked.
VoteNo(p) ==
  /\ pc = "prepare" /\ p \in todo
  /\ \E s \in {"working", "prepared"} : part' = [part EXCEPT ![p] = s]
  /\ pc' = "rejected" /\ todo' = {}
  /\ UNCHANGED <<log, caller, retry, acked, attempt, errors, voted, lost, crashes>>

\* All agreed: "prepared" is saved, then "committing".
Prepared ==
  /\ pc = "prepare" /\ todo = {}
  /\ log' = "prepared" /\ pc' = "agreed"
  /\ UNCHANGED <<part, loopVars, voted, lost, crashes>>

StartCommit ==
  /\ pc = "agreed"
  /\ log' = "committing" /\ pc' = "commit"
  /\ todo' = Participants
  /\ UNCHANGED <<part, caller, retry, acked, attempt, errors, voted, lost, crashes>>

\* commit_phase: p commits, or says again that it has committed ...
CommitOk(p) ==
  /\ pc = "commit" /\ p \in todo /\ part[p] # "rolled_back"
  /\ part' = [part EXCEPT ![p] = "committed"]
  /\ acked' = acked \cup {p}
  /\ todo' = todo \ {p}
  /\ UNCHANGED <<log, pc, caller, retry, attempt, errors, voted, lost, crashes>>

\* ... or returns an error and is tried again in the next round, if any.
CommitErr(p) ==
  /\ pc = "commit" /\ p \in todo
  /\ \/ UNCHANGED <<part, lost>>
     \/ /\ LostReplies /\ part[p] # "rolled_back"
        /\ part' = [part EXCEPT ![p] = "committed"] /\ lost' = lost \cup {p}
  /\ retry' = IF attempt < MaxRetries THEN retry \cup {p} ELSE retry
  /\ todo' = todo \ {p}
  /\ UNCHANGED <<log, pc, caller, acked, attempt, errors, voted, crashes>>

CommitRound ==
  /\ pc = "commit" /\ todo = {}
  /\ IF retry = {}
       THEN pc' = "counted" /\ UNCHANGED <<todo, retry, attempt>>
       ELSE /\ todo' = retry /\ retry' = {} /\ attempt' = attempt + 1
            /\ UNCHANGED pc
  /\ UNCHANGED <<log, part, caller, acked, errors, voted, lost, crashes>>

AllCommitted ==
  /\ pc = "counted" /\ acked = Participants
  /\ log' = "committed" /\ pc' = "done"
  /\ UNCHANGED <<part, loopVars, voted, lost, crashes>>

\* Some did not commit: execute saves "rolling_back", recover does not.
SomeFailed ==
  /\ pc = "counted" /\ acked # Participants
  /\ log' = IF caller = "execute" THEN "rolling_back" ELSE log
  /\ pc' = "rollback" /\ todo' = Participants
  /\ UNCHANGED <<part, caller, retry, acked, attempt, errors, voted, lost, crashes>>

Rejected ==
  /\ pc = "rejected"
  /\ log' = "rolling_back"
  /\ pc' = "rollback" /\ todo' = Participants
  /\ UNCHANGED <<part, caller, retry, acked, attempt, errors, voted, lost, crashes>>

\* rollback_phase calls everyone; a committed participant stays committed.
RollbackOk(p) ==
  /\ pc = "rollback" /\ p \in todo
  /\ part' = [part EXCEPT ![p] = IF @ = "committed" THEN @ ELSE "rolled_back"]
  /\ todo' = todo \ {p}
  /\ UNCHANGED <<log, pc, caller, retry, acked, attempt, errors, voted, lost, crashes>>

RollbackErr(p) ==
  /\ pc = "rollback" /\ p \in todo
  /\ \/ UNCHANGED part
     \/ part[p] # "committed" /\ part' = [part EXCEPT ![p] = "rolled_back"]
  /\ errors' = errors \cup {p}
  /\ todo' = todo \ {p}
  /\ UNCHANGED <<log, pc, caller, retry, acked, attempt, voted, lost, crashes>>

\* Mutant: recover too goes on after an error.
RolledBack_IgnoresErrors ==
  /\ pc = "rollback" /\ todo = {}
  /\ pc' = "save"
  /\ UNCHANGED <<log, part, loopVars, voted, lost, crashes>>

\* execute ignores the errors, recover returns with them.
RolledBack ==
  /\ pc = "rollback" /\ todo = {}
  /\ pc' = IF caller = "recover" /\ errors # {} THEN "down" ELSE "save"
  /\ UNCHANGED <<log, part, loopVars, voted, lost, crashes>>

\* Mutant: what the commit phase returned is not looked at.
SaveOutcome_NeverMixed ==
  /\ pc = "save"
  /\ log' = "rolled_back"
  /\ pc' = "done"
  /\ UNCHANGED <<part, loopVars, voted, lost, crashes>>

SaveOutcome ==
  /\ pc = "save"
  /\ log' = IF acked = {} THEN "rolled_back" ELSE "mixed"
  /\ pc' = "done"
  /\ UNCHANGED <<part, loopVars, voted, lost, crashes>>

\* The coordinator dies, or a save fails and execute or recover returns.
Crash ==
  /\ pc \notin {"begin", "done", "down"} /\ crashes < MaxCrashes
  /\ pc' = "down" /\ crashes' = crashes + 1
  /\ UNCHANGED <<log, part, loopVars, voted, lost>>

\* Mutant: recover resumes the commits although they were given up.
Recover_Resumes ==
  /\ pc \in {"down", "done"} /\ log \notin Final
  /\ caller' = "recover"
  /\ retry' = {} /\ acked' = {} /\ attempt' = 0 /\ errors' = {}
  /\ todo' = Participants
  /\ pc' = IF log \in {"committing", "rolling_back"} THEN "commit" ELSE "rollback"
  /\ UNCHANGED <<log, part, voted, lost, crashes>>

\* recover: the log decides how to go on; a final one is returned as it is.
Recover ==
  \/ /\ pc \in {"down", "done"} /\ log \notin Final
     /\ caller' = "recover"
     /\ retry' = {} /\ acked' = {} /\ attempt' = 0 /\ errors' = {}
     /\ todo' = Participants
     /\ pc' = IF log = "committing" THEN "commit" ELSE "rollback"
     /\ UNCHANGED <<log, part, voted, lost, crashes>>
  \/ /\ pc \in {"down", "done"} /\ log \in Final
     /\ UNCHANGED vars

-----------------------------------------------------------------------------
Next ==
  \/ Begin \/ Prepared \/ StartCommit \/ CommitRound \/ AllCommitted \/ SomeFailed
  \/ Rejected \/ RolledBack \/ SaveOutcome \/ Crash \/ Recover
  \/ \E p \in Participants :
       VoteYes(p) \/ VoteNo(p) \/ CommitOk(p) \/ CommitErr(p) \/ RollbackOk(p) \/ RollbackErr(p)

Spec == Init /\ [][Next]_vars

-----------------------------------------------------------------------------
(* Properties                                                              *)

\* No participant commits unless every participant has voted yes, whatever
\* crashed in between.
CommitNeedsUnanimity ==
  (\E p \in Participants : part[p] = "committed") => voted = Participants

(***************************************************************************)
(* The outcome that execute or recover saves is true of the participants,  *)
(* also when commits were repeated by recover or their replies were lost:  *)
(* after "committed" everyone has committed and after "mixed" someone has. *)
(* "rolled_back" is true as long as nothing crashed, but for participants  *)
(* that committed and answered with an error.                              *)
(***************************************************************************)
OutcomeIsTrue ==
  LET Committed == {p \in Participants : part[p] = "committed"}
  IN /\ log = "committed" => Committed = Participants
     /\ log = "mixed" => Committed # {}
     /\ log = "rolled_back" /\ crashes = 0 => Committed \subseteq lost

\* After recover has ended the transaction nobody is left in doubt, holding
\* prepared work and its locks.
NobodyInDoubt ==
  pc = "done" /\ caller = "recover" /\ log = "rolled_back" =>
    \A p \in Participants : part[p] # "prepared"

\* A rejected transaction is not reported as rolled back over committed work,
\* whatever crashed in between (the test of commit failures expects mixed).
RolledBackIsTrue ==
  log = "rolled_back" => \A p \in Participants : part[p] # "committed"

\* An outcome that was saved is never changed, by recover or by anyone else.
OutcomeIsFinal == [][(log \in Final) => (log' = log)]_log

-----------------------------------------------------------------------------
\* What the log says of the decision.
Stage ==
  CASE log \in {"none", "preparing", "prepared"} -> "voting"
    [] log = "rolling_back" -> "aborting"
    [] OTHER -> log

Atomic == INSTANCE AtomicCommit WITH stage <- Stage, fate <- part, yes <- voted

\* execute and recover, through crashes, retries and lost replies, keep the
\* promise of AtomicCommit: nobody commits before all are prepared or after
\* "rolling_back" was saved, and nobody is touched once an outcome is.
ImplementsAtomicCommit == Atomic!Spec

=============================================================================
