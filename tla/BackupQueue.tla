---------------------------- MODULE BackupQueue ----------------------------
(***************************************************************************)
(* The queue of scheduled backups on its own: how store.rs of crates/      *)
(* dbx-core/src/scheduled_backup shares the limit on pending runs among    *)
(* the schedules, tick after tick and without end.  ScheduledBackups       *)
(* models what a run does; here only its schedule and its state matter, so *)
(* a run that has ended is forgotten and no bound on the number of runs is *)
(* needed.  The leader is whichever process holds worker.lock.             *)
(***************************************************************************)
EXTENDS Naturals, Sequences, FiniteSets, SequencesExt

CONSTANTS
  Schedules,   \* schedule ids, numbers in the order of ORDER BY id
  MaxPending,  \* the limit on queued and running runs (100 in the code)
  OneShot      \* the schedule_id of a one-shot backup

ASSUME QueueAssumption ==
  /\ Schedules \subseteq Nat /\ IsFiniteSet(Schedules) /\ OneShot \notin Schedules
  /\ MaxPending \in Nat \ {0}

VARIABLES
  sched,    \* schedules: absent, or enabled or not
  due,      \* next_run_at has been reached
  queue,    \* the schedules of the queued rows, oldest first
  running,  \* the schedules of the rows that are running; the leader's own is the last
  leader    \* "none", or the leader's next store call: "enqueue", "claim", "finish"

vars == <<sched, due, queue, running, leader>>

Init ==
  /\ sched = [s \in Schedules |-> "absent"]
  /\ due = [s \in Schedules |-> FALSE]
  /\ queue = <<>>
  /\ running = <<>>
  /\ leader = "none"

Pending == queue \o running
Active(s) == s \in ToSet(Pending)

\* External: the clock passes next_run_at.
TimePasses(s) ==
  /\ sched[s] # "absent" /\ ~due[s]
  /\ due' = [due EXCEPT ![s] = TRUE]
  /\ UNCHANGED <<sched, queue, running, leader>>

\* save_schedule: next_run_at is recomputed when the schedule is new, enabled
\* again, or its timing was edited.
SaveSchedule(s, e, edited) ==
  /\ ~Active(s)
  /\ sched' = [sched EXCEPT ![s] = e]
  /\ due' = [due EXCEPT ![s] = @ /\ ~edited /\ sched[s] # "absent"
                                 /\ ~(sched[s] = "off" /\ e = "on")]
  /\ UNCHANGED <<queue, running, leader>>

DeleteSchedule(s) ==
  /\ sched[s] # "absent" /\ ~Active(s)
  /\ sched' = [sched EXCEPT ![s] = "absent"]
  /\ due' = [due EXCEPT ![s] = FALSE]
  /\ UNCHANGED <<queue, running, leader>>

\* enqueue, by hand: insert_job refuses at the limit.
Enqueue(s) ==
  /\ s # OneShot => ~Active(s) /\ sched[s] # "absent"
  /\ Len(Pending) < MaxPending
  /\ queue' = Append(queue, s)
  /\ UNCHANGED <<sched, due, running, leader>>

\* cancel of a queued run.  One that is running ends with its export.
Cancel(i) ==
  /\ i \in DOMAIN queue
  /\ queue' = RemoveAt(queue, i)
  /\ UNCHANGED <<sched, due, running, leader>>

\* A process takes worker.lock, and recover ends what was left running.
Recover ==
  /\ leader = "none"
  /\ leader' = "enqueue"
  /\ running' = <<>>
  /\ UNCHANGED <<sched, due, queue>>

\* The schedules that are enabled, due and not active, in the order of their ids.
Wanted == SetToSortSeq({s \in Schedules : sched[s] = "on" /\ due[s] /\ ~Active(s)}, <)

\* Mutant: the limit counts one too many.
EnqueueDue_OffByOne ==
  LET room == (MaxPending - Len(Pending)) - 1
      taken == IF Len(Wanted) <= room THEN Wanted ELSE SubSeq(Wanted, 1, room)
  IN /\ leader = "enqueue"
     /\ queue' = queue \o taken
     /\ due' = [s \in Schedules |-> due[s] /\ s \notin ToSet(taken)]
     /\ leader' = "claim"
     /\ UNCHANGED <<sched, running>>

\* enqueue_due: the scan stops where the limit is reached.
EnqueueDue ==
  LET room == MaxPending - Len(Pending)
      taken == IF Len(Wanted) <= room THEN Wanted ELSE SubSeq(Wanted, 1, room)
  IN /\ leader = "enqueue"
     /\ queue' = queue \o taken
     /\ due' = [s \in Schedules |-> due[s] /\ s \notin ToSet(taken)]
     /\ leader' = "claim"
     /\ UNCHANGED <<sched, running>>

\* claim: the oldest queued run, if there is one.
Claim ==
  /\ leader = "claim"
  /\ IF queue = <<>>
       THEN leader' = "enqueue" /\ UNCHANGED <<queue, running>>
       ELSE /\ leader' = "finish"
            /\ queue' = Tail(queue)
            /\ running' = Append(running, Head(queue))
  /\ UNCHANGED <<sched, due>>

\* The export has ended, or was cancelled.  finish moves a time on that has passed
\* meanwhile.
Finish ==
  /\ leader = "finish"
  /\ running' = Front(running)
  /\ due' = [s \in Schedules |-> due[s] /\ s # Last(running)]
  /\ leader' = "enqueue"
  /\ UNCHANGED <<sched, queue>>

\* A store call after the claim fails: the tick ends and the row stays running.
TickFails ==
  /\ leader = "finish"
  /\ leader' = "enqueue"
  /\ UNCHANGED <<sched, due, queue, running>>

\* The leader is stopped between two ticks, or dies anywhere.
LeaderEnds ==
  /\ leader # "none"
  /\ leader' = "none"
  /\ UNCHANGED <<sched, due, queue, running>>

Next ==
  \/ \E s \in Schedules :
       \/ TimePasses(s) \/ DeleteSchedule(s)
       \/ \E e \in {"on", "off"}, edited \in BOOLEAN : SaveSchedule(s, e, edited)
  \/ \E s \in Schedules \cup {OneShot} : Enqueue(s)
  \/ \E i \in 1 .. MaxPending : Cancel(i)
  \/ Recover \/ EnqueueDue \/ Claim \/ Finish \/ TickFails \/ LeaderEnds

\* A leader goes on with its tick, and when there is none a process becomes one.
\* An export need not end.
Fairness == WF_vars(Recover \/ EnqueueDue \/ Claim)

FairSpec == Init /\ [][Next]_vars /\ Fairness

-----------------------------------------------------------------------------
(* Properties                                                              *)

\* From some time on the leader lives, its exports end, no failed store call has
\* left a row running behind it, and nobody queues runs by hand.
Undisturbed ==
  /\ []<>(leader # "finish")
  /\ <>[](leader # "none")
  /\ <>[](leader = "enqueue" => running = <<>>)
  /\ <>[][\A s \in Schedules \cup {OneShot} : ~Enqueue(s)]_vars

\* The limit leaves room for s and for every schedule that enqueue_due lists before it.
Within(s) == Cardinality({t \in Schedules : t <= s}) <= MaxPending

\* A due schedule gets its run although enqueue_due stops at the limit, in the middle
\* of the schedules: if it is Undisturbed, each of the first MaxPending schedules is
\* queued, moved on, disabled or deleted in the end, however often those before it come
\* due again and whatever filled the queue.  (A schedule further back has no such
\* promise: as long as those before it come due in every tick it is passed over.)
DueIsServed ==
  Undisturbed =>
    \A s \in Schedules : Within(s) =>
      (due[s] /\ sched[s] = "on") ~> (~due[s] \/ sched[s] # "on")
=============================================================================
