------------------------ MODULE TwoPhaseCommitProofs ------------------------
(***************************************************************************)
(* Proofs about the two-phase commit coordinator, for any set of           *)
(* participants, any number of retries and any number of crashes.          *)
(***************************************************************************)
EXTENDS TwoPhaseCommit, TLAPS

\* Retries are collected only while a round is left (attempt < max_retries).
RetryBounded == retry # {} => attempt < MaxRetries

\* The log and the coordinator's place agree.
LogAndPlace ==
  /\ log \in Final => pc = "done"
  /\ pc \in {"commit", "counted"} => log = "committing"
  /\ pc = "done" => log \in Final
  /\ pc \in {"begin", "prepare"} => acked = {}

\* A vote is recorded for everyone the prepare loop has passed, and the log
\* leaves the prepare phase for the commit phase with all of them only.
VotesCounted ==
  /\ pc = "prepare" => Participants \ todo \subseteq voted
  /\ pc = "agreed" => voted = Participants
  /\ log \in {"committing", "committed"} => voted = Participants

\* A result "committed" comes from a participant that has committed.
AckedAreCommitted == \A p \in acked : part[p] = "committed"

\* Before the commit phase nobody has committed.
NoneCommittedYet ==
  pc \in {"begin", "prepare"} => \A p \in Participants : part[p] # "committed"

\* In recover's rollback, whoever was called without an error is settled.
RecoverSettles ==
  /\ (pc = "rollback" /\ caller = "recover" /\ errors = {}) =>
        \A p \in Participants \ todo : part[p] # "prepared"
  /\ (pc = "save" /\ caller = "recover") =>
        \A p \in Participants : part[p] # "prepared"

\* Before the first crash it is execute that runs, and the results it has
\* collected are complete, but for the lost replies.
CrashFree ==
  crashes = 0 =>
    /\ caller = "execute" /\ pc # "down"
    /\ \A p \in Participants : part[p] = "committed" => p \in acked \cup lost

IndInv ==
  /\ TypeOK /\ RetryBounded /\ LogAndPlace /\ VotesCounted
  /\ AckedAreCommitted /\ NoneCommittedYet /\ RecoverSettles /\ CrashFree
  /\ CommitNeedsUnanimity /\ OutcomeIsTrue /\ NobodyInDoubt

-----------------------------------------------------------------------------
\* The initial state, before execute saves its log, satisfies the invariant.
LEMMA InitIndInv == Init => IndInv
  BY BoundsAssumption
  DEF Init, IndInv, TypeOK, RetryBounded, LogAndPlace, VotesCounted, AckedAreCommitted,
      NoneCommittedYet, RecoverSettles, CommitNeedsUnanimity, OutcomeIsTrue, CrashFree,
      NobodyInDoubt, Final

\* Every step of execute, of its three phases, of a crash and of recover
\* preserves the invariant.
LEMMA NextIndInv == IndInv /\ [Next]_vars => IndInv'
<1> SUFFICES ASSUME IndInv, [Next]_vars PROVE IndInv'
  OBVIOUS
<1> USE BoundsAssumption
    DEF IndInv, TypeOK, RetryBounded, LogAndPlace, VotesCounted, AckedAreCommitted,
        NoneCommittedYet, RecoverSettles, CommitNeedsUnanimity, OutcomeIsTrue, CrashFree,
        NobodyInDoubt, Final, vars, loopVars
<1>1. CASE Begin
  BY <1>1 DEF Begin
<1>2. CASE Prepared
  BY <1>2 DEF Prepared
<1>3. CASE StartCommit
  BY <1>3 DEF StartCommit
<1>4. CASE CommitRound
  BY <1>4 DEF CommitRound
<1>5. CASE AllCommitted
  BY <1>5 DEF AllCommitted
<1>6. CASE SomeFailed
  BY <1>6 DEF SomeFailed
<1>7. CASE Rejected
  BY <1>7 DEF Rejected
<1>8. CASE RolledBack
  BY <1>8 DEF RolledBack
<1>9. CASE SaveOutcome
  BY <1>9 DEF SaveOutcome
<1>10. CASE Crash
  BY <1>10 DEF Crash
<1>11. CASE Recover
  BY <1>11 DEF Recover
<1>12. ASSUME NEW p \in Participants, VoteYes(p) PROVE IndInv'
  BY <1>12 DEF VoteYes
<1>13. ASSUME NEW p \in Participants, VoteNo(p) PROVE IndInv'
  BY <1>13 DEF VoteNo
<1>14. ASSUME NEW p \in Participants, CommitOk(p) PROVE IndInv'
  BY <1>14 DEF CommitOk
<1>15. ASSUME NEW p \in Participants, CommitErr(p) PROVE IndInv'
  BY <1>15 DEF CommitErr
<1>16. ASSUME NEW p \in Participants, RollbackOk(p) PROVE IndInv'
  BY <1>16 DEF RollbackOk
<1>17. ASSUME NEW p \in Participants, RollbackErr(p) PROVE IndInv'
  BY <1>17 DEF RollbackErr
<1>18. CASE UNCHANGED vars
  BY <1>18
<1> QED
  BY <1>1, <1>2, <1>3, <1>4, <1>5, <1>6, <1>7, <1>8, <1>9, <1>10, <1>11, <1>12, <1>13, <1>14, <1>15, <1>16, <1>17, <1>18 DEF Next

-----------------------------------------------------------------------------
\* The inductive invariant holds in every reachable state.
THEOREM Invariance == Spec => []IndInv
  BY InitIndInv, NextIndInv, PTL DEF Spec

\* Type correctness: the statuses, the loops' worklists and the retry counter
\* of commit_phase stay in their ranges.
THEOREM TypeCorrect == Spec => []TypeOK
<1>1. IndInv => TypeOK
  BY DEF IndInv
<1> QED
  BY <1>1, Invariance, PTL

\* Atomic commitment: however often the coordinator dies and recover runs,
\* nobody commits unless everybody voted yes.
THEOREM Unanimity == Spec => []CommitNeedsUnanimity
<1>1. IndInv => CommitNeedsUnanimity
  BY DEF IndInv
<1> QED
  BY <1>1, Invariance, PTL

\* What execute and recover save is true of the participants.
THEOREM OutcomesAreTrue == Spec => []OutcomeIsTrue
<1>1. IndInv => OutcomeIsTrue
  BY DEF IndInv
<1> QED
  BY <1>1, Invariance, PTL

\* A rollback that recover has finished leaves nobody in doubt.
THEOREM NobodyHeld == Spec => []NobodyInDoubt
<1>1. IndInv => NobodyInDoubt
  BY DEF IndInv
<1> QED
  BY <1>1, Invariance, PTL

\* A saved outcome is final: recover returns it and nothing else writes.
THEOREM FinalStays == Spec => OutcomeIsFinal
<1>1. IndInv /\ [Next]_vars => [(log \in Final) => (log' = log)]_log
  BY DEF IndInv, LogAndPlace, Final, Next, vars, loopVars, Begin, Prepared, StartCommit,
         CommitRound, AllCommitted, SomeFailed, Rejected, RolledBack, SaveOutcome, Crash,
         Recover, VoteYes, VoteNo, CommitOk, CommitErr, RollbackOk, RollbackErr
<1> QED
  BY <1>1, Invariance, PTL DEF Spec, OutcomeIsFinal

-----------------------------------------------------------------------------
(* The refinement of AtomicCommit                                          *)

\* What the refinement needs beyond IndInv: the log of the vote, and what the
\* participants have done while the coordinator collects their votes.
Voting ==
  /\ pc = "begin" => log = "none" /\ part = [p \in Participants |-> "working"]
  /\ pc \in {"prepare", "rejected"} => log = "preparing"
  /\ pc = "agreed" => log = "prepared"
  /\ pc = "prepare" => \A p \in Participants :
                         part[p] = IF p \in todo THEN "working" ELSE "prepared"
  /\ pc = "agreed" => \A p \in Participants : part[p] = "prepared"

\* A commit phase has been decided with everyone prepared, and only it has
\* results: "rolling_back" stops it for good.
Decided ==
  /\ log = "committing" => \A p \in Participants : part[p] # "working"
  /\ acked # {} => log \in {"committing", "rolling_back", "committed", "mixed"}

RefInv == Voting /\ Decided

\* Before execute saves its log nobody has done anything.
LEMMA InitRefInv == Init => RefInv
  BY DEF Init, RefInv, Voting, Decided

\* Every step of execute and recover keeps the log in line with the votes.
LEMMA NextRefInv == IndInv /\ RefInv /\ [Next]_vars => RefInv'
<1> SUFFICES ASSUME IndInv, RefInv, [Next]_vars PROVE RefInv'
  OBVIOUS
<1> USE DEF IndInv, TypeOK, LogAndPlace, RefInv, Voting, Decided, Final, vars, loopVars
<1>1. CASE Begin \/ Prepared \/ StartCommit
  BY <1>1 DEF Begin, Prepared, StartCommit
<1>2. CASE CommitRound \/ AllCommitted \/ SomeFailed \/ Rejected
  BY <1>2 DEF CommitRound, AllCommitted, SomeFailed, Rejected
<1>3. CASE RolledBack \/ SaveOutcome
  BY <1>3 DEF RolledBack, SaveOutcome
<1>4. CASE Crash \/ Recover
  BY <1>4 DEF Crash, Recover
<1>5. ASSUME NEW p \in Participants, VoteYes(p) \/ VoteNo(p) PROVE RefInv'
  BY <1>5 DEF VoteYes, VoteNo
<1>6. ASSUME NEW p \in Participants, CommitOk(p) \/ CommitErr(p) PROVE RefInv'
  BY <1>6 DEF CommitOk, CommitErr
<1>7. ASSUME NEW p \in Participants, RollbackOk(p) \/ RollbackErr(p) PROVE RefInv'
  BY <1>7 DEF RollbackOk, RollbackErr
<1>8. CASE UNCHANGED vars
  BY <1>8
<1> QED
  BY <1>1, <1>2, <1>3, <1>4, <1>5, <1>6, <1>7, <1>8 DEF Next

\* The initial states of the coordinator are initial states of AtomicCommit.
LEMMA InitRefines == Init => Atomic!Init
  BY DEF Init, Atomic!Init, Stage

\* A vote is a step of Prepare, or an error of a participant that did nothing.
LEMMA VotesRefine ==
  ASSUME IndInv, RefInv, NEW p \in Participants, VoteYes(p) \/ VoteNo(p)
  PROVE  Atomic!Prepare(p) \/ UNCHANGED <<Stage, part, voted>>
<1>1. Stage = "voting" /\ part[p] = "working" /\ log' = log
  BY DEF RefInv, Voting, Stage, VoteYes, VoteNo
<1>2. Stage' = Stage
  BY <1>1 DEF Stage
<1>3. CASE VoteYes(p)
  BY <1>1, <1>2, <1>3 DEF VoteYes, Atomic!Prepare
<1>4. CASE VoteNo(p)
  <2>1. part' = [part EXCEPT ![p] = "prepared"] \/ part' = part
    BY <1>1, <1>4 DEF VoteNo, IndInv, TypeOK
  <2> QED
    BY <1>1, <1>2, <1>4, <2>1 DEF VoteNo, Atomic!Prepare
<1> QED
  BY <1>3, <1>4

\* A commit that takes effect, answered or not, is a step of Commit; a
\* repeated one changes nothing.
LEMMA CommitsRefine ==
  ASSUME IndInv, RefInv, NEW p \in Participants, CommitOk(p) \/ CommitErr(p)
  PROVE  Atomic!Commit(p) \/ UNCHANGED <<Stage, part, voted>>
<1>1. log = "committing" /\ log' = log /\ voted' = voted
  BY DEF IndInv, LogAndPlace, CommitOk, CommitErr
<1>2. Stage = "committing" /\ Stage' = Stage
  BY <1>1 DEF Stage
<1>3. \/ part' = part
      \/ part[p] # "rolled_back" /\ part' = [part EXCEPT ![p] = "committed"]
  BY DEF CommitOk, CommitErr
<1>4. part[p] \in {"prepared", "committed", "rolled_back"}
  BY <1>1 DEF IndInv, TypeOK, RefInv, Decided
<1>5. CASE part[p] = "committed"
  BY <1>1, <1>2, <1>3, <1>5 DEF IndInv, TypeOK
<1> QED
  BY <1>1, <1>2, <1>3, <1>4, <1>5 DEF Atomic!Commit

\* A rollback that takes effect is a step of RollBack; a participant that has
\* committed stays so.
LEMMA RollbacksRefine ==
  ASSUME IndInv, RefInv, NEW p \in Participants, RollbackOk(p) \/ RollbackErr(p)
  PROVE  Atomic!RollBack(p) \/ UNCHANGED <<Stage, part, voted>>
<1>1. pc = "rollback" /\ log' = log /\ voted' = voted
  BY DEF RollbackOk, RollbackErr
<1>2. Stage' = Stage
  BY <1>1 DEF Stage
<1>3. log \notin Final
  BY <1>1 DEF IndInv, LogAndPlace
<1>4. Atomic!Open
  BY <1>3 DEF IndInv, TypeOK, Final, Stage, Atomic!Open
<1>5. \/ part' = part
      \/ part[p] # "committed" /\ part' = [part EXCEPT ![p] = "rolled_back"]
  BY DEF RollbackOk, RollbackErr, IndInv, TypeOK
<1>6. CASE part[p] = "rolled_back"
  BY <1>1, <1>2, <1>5, <1>6 DEF IndInv, TypeOK
<1> QED
  BY <1>1, <1>2, <1>4, <1>5, <1>6 DEF IndInv, TypeOK, Atomic!RollBack

\* Saving "committing" is the decision; every vote is in by then.
LEMMA DecisionRefines ==
  ASSUME IndInv, RefInv, StartCommit
  PROVE  Atomic!Decide
  BY DEF IndInv, VotesCounted, RefInv, Voting, StartCommit, Stage, Atomic!Decide

\* Saving "rolling_back" gives the commit up.
LEMMA GivingUpRefines ==
  ASSUME IndInv, RefInv, SomeFailed \/ Rejected
  PROVE  Atomic!GiveUp \/ UNCHANGED <<Stage, part, voted>>
  BY DEF IndInv, LogAndPlace, RefInv, Voting, SomeFailed, Rejected, Stage, Atomic!GiveUp

\* Saving a final status announces an outcome that is true.
LEMMA OutcomesRefine ==
  ASSUME IndInv, RefInv, AllCommitted \/ SaveOutcome
  PROVE  Atomic!Announce
<1>1. CASE AllCommitted
  <2>1. Stage = "committing" /\ Stage' = "committed"
    BY <1>1 DEF AllCommitted, IndInv, LogAndPlace, Stage
  <2>2. \A p \in Participants : part[p] = "committed"
    BY <1>1 DEF AllCommitted, IndInv, AckedAreCommitted
  <2> QED
    BY <1>1, <2>1, <2>2 DEF AllCommitted, Atomic!Announce
<1>2. CASE SaveOutcome
  <2>1. log \notin Final
    BY <1>2 DEF SaveOutcome, IndInv, LogAndPlace
  <2>2. Atomic!Open
    BY <2>1 DEF IndInv, TypeOK, Final, Stage, Atomic!Open
  <2>3. CASE acked = {}
    BY <1>2, <2>2, <2>3 DEF SaveOutcome, Stage, Atomic!Announce
  <2>4. CASE acked # {}
    <3>1. Stage \in {"committing", "aborting"} /\ Stage' = "mixed"
      BY <1>2, <2>1, <2>4 DEF SaveOutcome, RefInv, Decided, Final, Stage
    <3>2. \E p \in Participants : part[p] = "committed"
      BY <2>4 DEF IndInv, TypeOK, AckedAreCommitted
    <3> QED
      BY <1>2, <3>1, <3>2 DEF SaveOutcome, Atomic!Announce
  <2> QED
    BY <2>3, <2>4
<1> QED
  BY <1>1, <1>2

\* The bookkeeping of the loops, crashes and recoveries decide nothing.
LEMMA QuietRefines ==
  ASSUME RefInv, Begin \/ Prepared \/ CommitRound \/ RolledBack \/ Crash \/ Recover \/ UNCHANGED vars
  PROVE  UNCHANGED <<Stage, part, voted>>
<1>1. UNCHANGED <<part, voted>>
  BY DEF Begin, Prepared, CommitRound, RolledBack, Crash, Recover, vars, loopVars
<1>2. Stage' = Stage
  <2>1. log' = log \/ {log, log'} \subseteq {"none", "preparing", "prepared"}
    BY DEF RefInv, Voting, Begin, Prepared, CommitRound, RolledBack, Crash, Recover,
           vars, loopVars
  <2> QED
    BY <2>1 DEF Stage
<1> QED
  BY <1>1, <1>2

\* Every step of the coordinator is a step of AtomicCommit or changes nothing
\* that it speaks of.
LEMMA NextRefines == IndInv /\ RefInv /\ [Next]_vars => [Atomic!Next]_(Atomic!vars)
<1> SUFFICES ASSUME IndInv, RefInv, [Next]_vars
             PROVE  Atomic!Next \/ UNCHANGED <<Stage, part, voted>>
  BY DEF Atomic!vars
<1>1. CASE StartCommit
  BY <1>1, DecisionRefines DEF Atomic!Next
<1>2. CASE SomeFailed \/ Rejected
  BY <1>2, GivingUpRefines DEF Atomic!Next
<1>3. CASE AllCommitted \/ SaveOutcome
  BY <1>3, OutcomesRefine DEF Atomic!Next
<1>4. CASE Begin \/ Prepared \/ CommitRound \/ RolledBack \/ Crash \/ Recover \/ UNCHANGED vars
  BY <1>4, QuietRefines
<1>5. ASSUME NEW p \in Participants,
             VoteYes(p) \/ VoteNo(p) \/ CommitOk(p) \/ CommitErr(p)
               \/ RollbackOk(p) \/ RollbackErr(p)
      PROVE  Atomic!Next \/ UNCHANGED <<Stage, part, voted>>
  BY <1>5, VotesRefine, CommitsRefine, RollbacksRefine DEF Atomic!Next
<1> QED
  BY <1>1, <1>2, <1>3, <1>4, <1>5 DEF Next

\* execute and recover implement AtomicCommit, for any participants, retries
\* and crashes: the log is enough for a coordinator that forgets all else.
THEOREM CoordinatorImplementsAtomicCommit == Spec => ImplementsAtomicCommit
  BY InitRefInv, NextRefInv, InitRefines, NextRefines, Invariance, PTL
  DEF Spec, ImplementsAtomicCommit, Atomic!Spec
=============================================================================
