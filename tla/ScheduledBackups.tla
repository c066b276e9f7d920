-------------------------- MODULE ScheduledBackups --------------------------
(***************************************************************************)
(* Scheduled database backups (crates/dbx-core/src/scheduled_backup): the  *)
(* durable queue of store.rs, the worker of engine.rs that one process at  *)
(* a time runs while it holds worker.lock, and the commands of service.rs. *)
(*                                                                         *)
(* Every store method is one SQLite transaction, hence one step, and its   *)
(* result may be stale when the caller uses it.  Runs are numbered in the  *)
(* order they are queued, which is the order of created_at.  A run backs   *)
(* up one database into one file.                                          *)
(***************************************************************************)
EXTENDS Naturals, FiniteSets

CONSTANTS
  Schedules,    \* schedule ids, numbers in the order the store lists them
  Paths,        \* paths the file name patterns produce, numbers
  UniquePaths,  \* do the patterns contain {runId}, as the default ones do
  Procs,        \* processes that call serve
  Users,        \* concurrent calls of the delete command
  MaxRuns,      \* bound: runs queued in one behaviour
  MaxPending,   \* the limit on queued and running runs (100 in the code)
  Retention,    \* retention_count of every schedule; 0 keeps everything
  MaxStops,     \* bound: how often a process or a command ends early
  Errors,       \* may a statement of the leader fail in SQLite
  None          \* no schedule, no path, no process

ASSUME SchedulesAssumption == Schedules \subseteq Nat /\ IsFiniteSet(Schedules) /\ None \notin Schedules
ASSUME ActorsAssumption == Procs \cap Users = {} /\ None \notin Procs
ASSUME BoundsAssumption ==
  /\ MaxRuns \in Nat /\ MaxPending \in Nat /\ Retention \in Nat /\ MaxStops \in Nat
  /\ Errors \in BOOLEAN
  /\ UniquePaths \in BOOLEAN /\ Paths \subseteq Nat /\ None \notin Paths

Runs   == 1 .. MaxRuns
NoRun  == 0
Actors == Procs \cup Users      \* whoever deletes runs or cleans up files

VARIABLES
  state,     \* runs.state, or "none" and "removed" for a row that is not there
  payload,   \* runs.payload: status, path and owned of the BackupRun
  cancel,    \* runs.cancel
  plan,      \* runs.schedule_id
  sched,     \* schedules: absent, or enabled or not
  due,       \* next_run_at has been reached
  disk,      \* which run's file is at each path
  lock,      \* the process that holds worker.lock
  ppc,       \* where the process is in serve and tick
  stopping,  \* its stop or drain token is cancelled
  job,       \* the run it claimed
  token,     \* the cancellation token of that run
  wpc,       \* where the worker thread is in execute
  mem,       \* the BackupRun in the worker's memory
  watch,     \* the BackupRun in the progress channel
  latest,    \* what the poll loop read from it and has not yet stored
  apc,       \* where each actor is in cleanup and delete_runs
  list,      \* the runs it has still to work off, as they were when read
  cur,       \* the one it is working on
  others,    \* the paths of other runs, as of its snapshot
  stops      \* processes and commands that have ended early so far

rowVars  == <<state, payload, cancel, plan>>
planVars == <<sched, due>>
procVars == <<lock, ppc, stopping, job, token>>
workVars == <<wpc, mem, watch, latest>>
actVars  == <<apc, list, cur, others>>
vars     == <<rowVars, planVars, disk, procVars, workVars, actVars, stops>>

Statuses == {"running", "success", "failed", "cancelled"}
Payload  == [status : Statuses, path : Paths \cup {None}, owned : BOOLEAN]
Blank    == [status |-> "running", path |-> None, owned |-> FALSE]
Pending  == {"queued", "running"}
Finished == {"success", "failed", "cancelled"}
Present  == Pending \cup Finished \cup {"deleting"}

TypeOK ==
  /\ state \in [Runs -> Present \cup {"none", "removed"}]
  /\ payload \in [Runs -> Payload]
  /\ cancel \in [Runs -> BOOLEAN]
  /\ plan \in [Runs -> Schedules \cup {None}]
  /\ sched \in [Schedules -> {"absent", "on", "off"}]
  /\ due \in [Schedules -> BOOLEAN]
  /\ disk \in [Paths -> 0 .. MaxRuns]
  /\ lock \in Procs \cup {None}
  /\ ppc \in [Procs -> {"down", "idle", "recover", "lead", "claim", "check", "work",
                        "clean", "finish", "retain", "delete"}]
  /\ stopping \in [Procs -> {"no", "drain", "stop"}]
  /\ job \in [Procs -> 0 .. MaxRuns]
  /\ token \in [Procs -> BOOLEAN]
  /\ wpc \in [Procs -> {"none", "start", "send", "create", "export", "done"}]
  /\ mem \in [Procs -> Payload] /\ watch \in [Procs -> Payload]
  /\ latest \in [Procs -> Payload \cup {None}]
  /\ apc \in [Actors -> {"idle", "snapshot", "remove", "settle", "failed"}]
  /\ \A a \in Actors : DOMAIN list[a] \subseteq Runs /\ \A r \in DOMAIN list[a] : list[a][r] \in Payload
  /\ cur \in [Actors -> 0 .. MaxRuns]
  /\ others \in [Actors -> SUBSET Paths]
  /\ stops \in 0 .. MaxStops

Nothing == [r \in {} |-> Blank]

Init ==
  /\ state = [r \in Runs |-> "none"]
  /\ payload = [r \in Runs |-> Blank]
  /\ cancel = [r \in Runs |-> FALSE]
  /\ plan = [r \in Runs |-> None]
  /\ sched = [s \in Schedules |-> "absent"]
  /\ due = [s \in Schedules |-> FALSE]
  /\ disk = [p \in Paths |-> NoRun]
  /\ lock = None
  /\ ppc = [p \in Procs |-> "idle"]
  /\ stopping = [p \in Procs |-> "no"]
  /\ job = [p \in Procs |-> NoRun]
  /\ token = [p \in Procs |-> FALSE]
  /\ wpc = [p \in Procs |-> "none"]
  /\ mem = [p \in Procs |-> Blank] /\ watch = [p \in Procs |-> Blank]
  /\ latest = [p \in Procs |-> None]
  /\ apc = [a \in Actors |-> "idle"]
  /\ list = [a \in Actors |-> Nothing]
  /\ cur = [a \in Actors |-> NoRun]
  /\ others = [a \in Actors |-> {}]
  /\ stops = 0

-----------------------------------------------------------------------------
(* The store                                                               *)

Active(s) == \E r \in Runs : plan[r] = s /\ state[r] \in Pending
PendingCount == Cardinality({r \in Runs : state[r] \in Pending})

\* The number of runs queued so far.
Count == Cardinality({r \in Runs : state[r] # "none"})

\* Bound: a number is left for every schedule that is due, and one more.  The code has no
\* such reserve; how schedules share its limit on pending runs is BackupQueue's subject.
Room == Count + Cardinality({s \in Schedules : due[s]}) < MaxRuns

\* insert_job for a run of schedule s (None: a one-shot backup).
InsertJob(r, s) ==
  /\ state' = [state EXCEPT ![r] = "queued"]
  /\ plan' = [plan EXCEPT ![r] = s]
  /\ UNCHANGED <<payload, cancel>>

Sleep == UNCHANGED <<procVars, workVars, actVars, stops>>

\* External: the clock passes next_run_at.
TimePasses(s) ==
  /\ sched[s] # "absent" /\ ~due[s] /\ Room
  /\ due' = [due EXCEPT ![s] = TRUE]
  /\ UNCHANGED <<rowVars, sched, disk>> /\ Sleep

\* save_schedule: next_run_at is recomputed when the schedule is new, enabled
\* again, or its timing was edited.
SaveSchedule(s, e, edited) ==
  /\ ~Active(s)
  /\ sched' = [sched EXCEPT ![s] = e]
  /\ due' = [due EXCEPT ![s] = @ /\ ~edited /\ sched[s] # "absent"
                                 /\ ~(sched[s] = "off" /\ e = "on")]
  /\ UNCHANGED <<rowVars, disk>> /\ Sleep

DeleteSchedule(s) ==
  /\ sched[s] # "absent" /\ ~Active(s)
  /\ sched' = [sched EXCEPT ![s] = "absent"]
  /\ due' = [due EXCEPT ![s] = FALSE]
  /\ UNCHANGED <<rowVars, disk>> /\ Sleep

\* Mutant: a run by hand does not look for an active one.
Enqueue_EvenIfActive(s) ==
  /\ Room /\ PendingCount < MaxPending
  /\ s # None => sched[s] # "absent"
  /\ InsertJob(Count + 1, s)
  /\ UNCHANGED <<planVars, disk>> /\ Sleep

\* enqueue, by hand.
Enqueue(s) ==
  /\ Room /\ PendingCount < MaxPending
  /\ s # None => ~Active(s) /\ sched[s] # "absent"
  /\ InsertJob(Count + 1, s)
  /\ UNCHANGED <<planVars, disk>> /\ Sleep

\* cancel: a queued run ends here, a running one is flagged.
Cancel(r) ==
  /\ state[r] \in Pending
  /\ cancel' = [cancel EXCEPT ![r] = TRUE]
  /\ IF state[r] = "queued"
       THEN /\ state' = [state EXCEPT ![r] = "cancelled"]
            /\ payload' = [payload EXCEPT ![r].status = "cancelled"]
       ELSE UNCHANGED <<state, payload>>
  /\ UNCHANGED <<plan, planVars, disk>> /\ Sleep

\* progress: the payload is replaced while the row is running.
Progress(r, x) ==
  payload' = IF state[r] = "running" THEN [payload EXCEPT ![r] = x] ELSE payload

-----------------------------------------------------------------------------
(* serve                                                                   *)

At(p, here)    == ppc[p] = here
GoTo(p, there) == ppc' = [ppc EXCEPT ![p] = there]

\* Mutant: the lock is shared.
TryLock_Shared(p) ==
  /\ At(p, "idle") /\ stopping[p] = "no" /\ lock # p
  /\ lock' = p
  /\ GoTo(p, "recover")
  /\ UNCHANGED <<stopping, job, token>>
  /\ UNCHANGED <<rowVars, planVars, disk, workVars, actVars, stops>>

TryLock(p) ==
  /\ At(p, "idle") /\ stopping[p] = "no" /\ lock = None
  /\ lock' = p
  /\ GoTo(p, "recover")
  /\ UNCHANGED <<stopping, job, token>>
  /\ UNCHANGED <<rowVars, planVars, disk, workVars, actVars, stops>>

\* Mutant: an interrupted deletion is taken back.
Recover_TakesDeletionBack(p) ==
  /\ At(p, "recover")
  /\ state' = [r \in Runs |-> CASE state[r] = "running" -> "failed"
                               [] state[r] = "deleting" -> payload[r].status
                               [] OTHER -> state[r]]
  /\ GoTo(p, "lead")
  /\ UNCHANGED <<payload, cancel, plan, lock, stopping, job, token>>
  /\ UNCHANGED <<planVars, disk, workVars, actVars, stops>>

\* recover: what the previous worker left running, and every deletion that is
\* under way anywhere, becomes failed.
Recover(p) ==
  LET hit == {r \in Runs : state[r] \in {"running", "deleting"}}
  IN /\ At(p, "recover")
     /\ state' = [r \in Runs |-> IF r \in hit THEN "failed" ELSE state[r]]
     /\ payload' = [r \in Runs |-> IF r \in hit THEN [payload[r] EXCEPT !.status = "failed"]
                                                ELSE payload[r]]
     /\ GoTo(p, "lead")
     /\ UNCHANGED <<cancel, plan, lock, stopping, job, token>>
     /\ UNCHANGED <<planVars, disk, workVars, actVars, stops>>

\* The handle that was not kept is closed and the lock is free again.
RecoverFails(p) ==
  /\ Errors /\ At(p, "recover")
  /\ lock' = None
  /\ GoTo(p, "idle")
  /\ UNCHANGED <<stopping, job, token>>
  /\ UNCHANGED <<rowVars, planVars, disk, workVars, actVars, stops>>

\* enqueue_due, at the start of tick: in the order of the schedules, each one
\* that is enabled, due and not active, up to the limit.
EnqueueDue(p) ==
  LET wanted == {s \in Schedules : sched[s] = "on" /\ due[s] /\ ~Active(s)}
      rank(s) == Cardinality({t \in wanted : t <= s})
      taken == {s \in wanted : PendingCount + rank(s) <= MaxPending}
      run(s) == Count + rank(s)
  IN /\ At(p, "lead") /\ stopping[p] = "no"
     /\ state' = [r \in Runs |-> IF \E s \in taken : run(s) = r THEN "queued" ELSE state[r]]
     /\ plan' = [r \in Runs |-> IF \E s \in taken : run(s) = r
                                  THEN CHOOSE s \in taken : run(s) = r ELSE plan[r]]
     /\ due' = [s \in Schedules |-> due[s] /\ s \notin taken]
     /\ GoTo(p, "claim")
     /\ UNCHANGED <<payload, cancel, sched, disk, lock, stopping, job, token>>
     /\ UNCHANGED <<workVars, actVars, stops>>

Queued == {r \in Runs : state[r] = "queued"}

\* claim: the oldest queued run.
Claim(p) ==
  /\ At(p, "claim")
  /\ IF Queued = {}
       THEN /\ GoTo(p, "lead")
            /\ UNCHANGED <<state, job>>
       ELSE LET r == CHOOSE q \in Queued : \A q2 \in Queued : q <= q2
            IN /\ state' = [state EXCEPT ![r] = "running"]
               /\ job' = [job EXCEPT ![p] = r]
               /\ GoTo(p, "check")
  /\ UNCHANGED <<payload, cancel, plan, planVars, disk, lock, stopping, token>>
  /\ UNCHANGED <<workVars, actVars, stops>>

\* The flag is read once, then the worker is started.
StartWorker(p) ==
  /\ At(p, "check")
  /\ token' = [token EXCEPT ![p] = cancel[job[p]] \/ stopping[p] = "stop"]
  /\ wpc' = [wpc EXCEPT ![p] = "start"]
  /\ mem' = [mem EXCEPT ![p] = Blank] /\ watch' = [watch EXCEPT ![p] = Blank]
  /\ GoTo(p, "work")
  /\ UNCHANGED <<rowVars, planVars, disk, lock, stopping, job, latest, actVars, stops>>

\* Mutant: the flag of the row is never polled.
PollCancel_StopOnly(p) ==
  /\ At(p, "work") /\ wpc[p] # "done" /\ latest[p] = None
  /\ token' = [token EXCEPT ![p] = @ \/ stopping[p] = "stop"]
  /\ latest' = [latest EXCEPT ![p] = watch[p]]
  /\ UNCHANGED <<rowVars, planVars, disk, lock, ppc, stopping, job, wpc, mem, watch, actVars, stops>>

\* Every 500 ms: the flag is polled (an error counts as cancelled), then the
\* progress channel is read ...
PollCancel(p) ==
  /\ At(p, "work") /\ wpc[p] # "done" /\ latest[p] = None
  /\ \E error \in {FALSE, Errors} :
       token' = [token EXCEPT ![p] = @ \/ stopping[p] = "stop" \/ cancel[job[p]] \/ error]
  /\ latest' = [latest EXCEPT ![p] = watch[p]]
  /\ UNCHANGED <<rowVars, planVars, disk, lock, ppc, stopping, job, wpc, mem, watch, actVars, stops>>

\* ... and what was read is stored; an error cancels the run.
PollStore(p) ==
  /\ At(p, "work") /\ latest[p] # None
  /\ \/ Progress(job[p], latest[p]) /\ UNCHANGED token
     \/ Errors /\ token' = [token EXCEPT ![p] = TRUE] /\ UNCHANGED payload
  /\ latest' = [latest EXCEPT ![p] = None]
  /\ UNCHANGED <<state, cancel, plan, planVars, disk, lock, ppc, stopping, job>>
  /\ UNCHANGED <<wpc, mem, watch, actVars, stops>>

-----------------------------------------------------------------------------
(* The worker thread: execute and export_job                               *)

\* execute: the status is decided from the token when the export returns.
Return(p, x, ok) ==
  /\ mem' = [mem EXCEPT ![p] = [x EXCEPT !.status =
                 IF token[p] THEN "cancelled" ELSE IF ok THEN "success" ELSE "failed"]]
  /\ wpc' = [wpc EXCEPT ![p] = "done"]

WorkerOnly == UNCHANGED <<state, cancel, plan, planVars, procVars, latest, actVars, stops>>

\* The preparation fails: cancelled, no connection, no database, ...
WorkerRefuses(p) ==
  /\ wpc[p] = "start"
  /\ Return(p, mem[p], FALSE)
  /\ UNCHANGED <<payload, disk, watch>> /\ WorkerOnly

\* A path that does not exist is recorded before it is created ...
WorkerRecords(p, f) ==
  /\ wpc[p] = "start" /\ ~token[p]
  /\ UniquePaths => f = job[p]
  /\ disk[f] = NoRun
  /\ mem' = [mem EXCEPT ![p].path = f]
  /\ Progress(job[p], mem'[p])
  /\ wpc' = [wpc EXCEPT ![p] = "send"]
  /\ UNCHANGED <<disk, watch>> /\ WorkerOnly

\* (if the row cannot be written the export returns with the path recorded)
WorkerRecordFails(p, f) ==
  /\ Errors /\ wpc[p] = "start" /\ ~token[p]
  /\ UniquePaths => f = job[p]
  /\ disk[f] = NoRun
  /\ Return(p, [mem[p] EXCEPT !.path = f], FALSE)
  /\ UNCHANGED <<payload, disk, watch>> /\ WorkerOnly

\* ... in the row, and then in the channel.
WorkerSends(p) ==
  /\ wpc[p] = "send"
  /\ watch' = [watch EXCEPT ![p] = mem[p]]
  /\ wpc' = [wpc EXCEPT ![p] = "create"]
  /\ UNCHANGED <<payload, disk, mem>> /\ WorkerOnly

\* The file is created with create_new, or the export fails before it is; then
\* the path is dropped again.
WorkerCreates(p) ==
  /\ wpc[p] = "create"
  /\ \/ /\ disk[mem[p].path] = NoRun
        /\ disk' = [disk EXCEPT ![mem[p].path] = job[p]]
        /\ mem' = [mem EXCEPT ![p].owned = TRUE]
        /\ wpc' = [wpc EXCEPT ![p] = "export"]
     \/ /\ Return(p, [mem[p] EXCEPT !.path = None], FALSE)
        /\ UNCHANGED disk
  /\ UNCHANGED <<payload, watch>> /\ WorkerOnly

\* An export event carries the owned flag into the channel.
WorkerReports(p) ==
  /\ wpc[p] = "export" /\ watch[p] # mem[p]
  /\ watch' = [watch EXCEPT ![p] = mem[p]]
  /\ UNCHANGED <<payload, disk, mem, wpc>> /\ WorkerOnly

WorkerEnds(p) ==
  /\ wpc[p] = "export"
  /\ \E ok \in BOOLEAN : Return(p, mem[p], ok)
  /\ UNCHANGED <<payload, disk, watch>> /\ WorkerOnly

\* The worker panics: the tick goes on with the run the channel last held.
WorkerPanics(p) ==
  /\ wpc[p] \in {"start", "send", "create", "export"}
  /\ mem' = [mem EXCEPT ![p] = [watch[p] EXCEPT !.status = "failed"]]
  /\ wpc' = [wpc EXCEPT ![p] = "done"]
  /\ UNCHANGED <<payload, disk, watch>> /\ WorkerOnly

-----------------------------------------------------------------------------
(* The end of a tick                                                       *)

\* The worker is joined.  Whatever was not a success is cleaned up first.
Join(p) ==
  /\ At(p, "work") /\ wpc[p] = "done" /\ latest[p] = None
  /\ IF mem[p].status = "success"
       THEN GoTo(p, "finish") /\ UNCHANGED <<apc, list>>
       ELSE /\ GoTo(p, "clean")
            /\ apc' = [apc EXCEPT ![p] = "snapshot"]
            /\ list' = [list EXCEPT ![p] = [r \in {job[p]} |-> mem[p]]]
  /\ wpc' = [wpc EXCEPT ![p] = "none"]
  /\ token' = [token EXCEPT ![p] = FALSE]
  /\ watch' = [watch EXCEPT ![p] = Blank]
  /\ UNCHANGED <<rowVars, planVars, disk, lock, stopping, job, mem, latest>>
  /\ UNCHANGED <<cur, others, stops>>

\* The cleanup has ended; its error only goes into the message.
Cleaned(p) ==
  /\ At(p, "clean") /\ apc[p] \in {"settle", "failed"}
  /\ mem' = [mem EXCEPT ![p] = list[p][job[p]]]
  /\ apc' = [apc EXCEPT ![p] = "idle"]
  /\ list' = [list EXCEPT ![p] = Nothing]
  /\ cur' = [cur EXCEPT ![p] = NoRun]
  /\ others' = [others EXCEPT ![p] = {}]
  /\ GoTo(p, "finish")
  /\ UNCHANGED <<rowVars, planVars, disk, lock, stopping, job, token, wpc, watch, latest, stops>>

\* finish: the row and the schedule; a time that has passed meanwhile is moved on.
Finish(p) ==
  LET r == job[p]
  IN /\ At(p, "finish")
     /\ state' = [state EXCEPT ![r] = IF @ \in Present THEN mem[p].status ELSE @]
     /\ payload' = [payload EXCEPT ![r] = IF state[r] \in Present THEN mem[p] ELSE @]
     /\ due' = [s \in Schedules |-> due[s] /\ s # plan[r]]
     /\ mem' = [mem EXCEPT ![p] = Blank]
     /\ IF mem[p].status = "success"
          THEN GoTo(p, "retain") /\ UNCHANGED job
          ELSE GoTo(p, "lead") /\ job' = [job EXCEPT ![p] = NoRun]
     /\ UNCHANGED <<cancel, plan, sched, disk, lock, stopping, token, wpc, watch, latest, actVars, stops>>

\* The successful runs of the schedule of r, by payload, as of the snapshot.
Successes(r) == {q \in Runs : plan[q] = plan[r] /\ state[q] \in Present /\ payload[q].status = "success"}

\* Mutant: one run too many is given up.
Surplus_OffByOne(r) ==
  {q \in Successes(r) : Cardinality({n \in Successes(r) : n > q}) + 1 >= Retention}

\* All but the newest retention_count of them.
Surplus(r) == {q \in Successes(r) : Cardinality({n \in Successes(r) : n > q}) >= Retention}

Deletable(r) == state[r] \in Finished \cup {"deleting"}

\* mark_deleting: all the runs, or an error if one of them cannot be deleted.
MarkDeleting(a, R) ==
  /\ state' = [r \in Runs |-> IF r \in R THEN "deleting" ELSE state[r]]
  /\ list' = [list EXCEPT ![a] = [r \in R |-> payload[r]]]
  /\ apc' = [apc EXCEPT ![a] = IF R = {} THEN "idle" ELSE "snapshot"]
  /\ UNCHANGED <<payload, cancel, plan, cur, others>>

\* After a success the surplus is deleted: the snapshot that selects it ...
Retain(p) ==
  LET keeps == plan[job[p]] = None \/ Retention = 0
      R == IF keeps THEN {} ELSE IF sched[plan[job[p]]] = "absent" THEN {} ELSE Surplus(job[p])
  IN /\ At(p, "retain")
     /\ list' = [list EXCEPT ![p] = [r \in R |-> payload[r]]]
     /\ IF R = {}
          THEN GoTo(p, "lead") /\ job' = [job EXCEPT ![p] = NoRun]
          ELSE GoTo(p, "delete") /\ UNCHANGED job
     /\ UNCHANGED <<rowVars, planVars, disk, lock, stopping, token, workVars, apc, cur, others, stops>>

\* ... and mark_deleting, which fails if one of them was removed meanwhile.
RetainMark(p) ==
  LET R == DOMAIN list[p]
  IN /\ At(p, "delete") /\ apc[p] = "idle" /\ R # {}
     /\ IF \A r \in R : Deletable(r)
          THEN MarkDeleting(p, R) /\ UNCHANGED <<ppc, job>>
          ELSE /\ GoTo(p, "lead") /\ job' = [job EXCEPT ![p] = NoRun]
               /\ list' = [list EXCEPT ![p] = Nothing]
               /\ UNCHANGED <<rowVars, apc, cur, others>>
     /\ UNCHANGED <<planVars, disk, lock, stopping, token, workVars, stops>>

Retained(p) ==
  /\ At(p, "delete") /\ apc[p] = "idle" /\ DOMAIN list[p] = {}
  /\ GoTo(p, "lead")
  /\ job' = [job EXCEPT ![p] = NoRun]
  /\ UNCHANGED <<rowVars, planVars, disk, lock, stopping, token, workVars, actVars, stops>>

-----------------------------------------------------------------------------
(* delete_runs and cleanup                                                 *)

ActOnly == UNCHANGED <<cancel, plan, planVars, procVars, workVars, stops>>

\* The delete command of a user.
DeleteRuns(u) ==
  /\ apc[u] = "idle"
  /\ \E R \in SUBSET {r \in Runs : Deletable(r)} : R # {} /\ MarkDeleting(u, R)
  /\ UNCHANGED <<planVars, disk, procVars, workVars, stops>>

\* cleanup: which paths do other runs refer to?
CleanupSnapshot(a) ==
  /\ apc[a] = "snapshot"
  /\ \E r \in DOMAIN list[a] :
       /\ cur' = [cur EXCEPT ![a] = r]
       /\ others' = [others EXCEPT ![a] =
            {payload[q].path : q \in {q \in Runs \ {r} : state[q] \in Present}} \ {None}]
  /\ \/ apc' = [apc EXCEPT ![a] = "remove"]
     \/ Errors /\ apc' = [apc EXCEPT ![a] = "failed"]     \* the snapshot failed
  /\ UNCHANGED <<state, payload, disk, list>> /\ ActOnly

(***************************************************************************)
(* Files of other runs and files that are gone are skipped; a file that is *)
(* not owned is kept with an error; an owned one is removed, or that fails *)
(* and it is kept with an error too.                                       *)
(***************************************************************************)
CleanupRemove(a) ==
  LET x == list[a][cur[a]]
      skip == x.path \in {None} \cup others[a] \cup {f \in Paths : disk[f] = NoRun}
      Keep == apc' = [apc EXCEPT ![a] = "failed"] /\ UNCHANGED <<disk, list>>
      Drop == /\ apc' = [apc EXCEPT ![a] = "settle"]
              /\ list' = [list EXCEPT ![a][cur[a]] = [@ EXCEPT !.path = None, !.owned = FALSE]]
  IN /\ apc[a] = "remove"
     /\ \/ skip /\ Drop /\ UNCHANGED disk
        \/ ~skip /\ ~x.owned /\ Keep
        \/ ~skip /\ x.owned /\ Drop /\ disk' = [disk EXCEPT ![x.path] = NoRun]
        \/ ~skip /\ x.owned /\ Errors /\ Keep
     /\ UNCHANGED <<state, payload, cur, others>> /\ ActOnly

\* Mutant: the row goes although the file could not be removed.
DeleteSettles_Always(a) ==
  LET r == cur[a]
      rest == [q \in DOMAIN list[a] \ {r} |-> list[a][q]]
  IN /\ apc[a] \in {"settle", "failed"}
     /\ a \in Procs => ppc[a] = "delete"
     /\ state' = [state EXCEPT ![r] = "removed"]
     /\ payload' = [payload EXCEPT ![r] = Blank]
     /\ list' = [list EXCEPT ![a] = rest]
     /\ cur' = [cur EXCEPT ![a] = NoRun]
     /\ others' = [others EXCEPT ![a] = {}]
     /\ apc' = [apc EXCEPT ![a] = IF DOMAIN rest = {} THEN "idle" ELSE "snapshot"]
     /\ UNCHANGED disk /\ ActOnly

\* remove_run or deletion_failed, both only if the row is still deleting, and
\* on to the next run.
DeleteSettles(a) ==
  LET r == cur[a]
      rest == [q \in DOMAIN list[a] \ {r} |-> list[a][q]]
  IN /\ apc[a] \in {"settle", "failed"}
     /\ a \in Procs => ppc[a] = "delete"
     /\ IF state[r] # "deleting"
          THEN UNCHANGED <<state, payload>>
          ELSE IF apc[a] = "settle"
            THEN /\ state' = [state EXCEPT ![r] = "removed"]
                 /\ payload' = [payload EXCEPT ![r] = Blank]
            ELSE /\ state' = [state EXCEPT ![r] = list[a][r].status]
                 /\ payload' = [payload EXCEPT ![r] = list[a][r]]
     /\ list' = [list EXCEPT ![a] = rest]
     /\ cur' = [cur EXCEPT ![a] = NoRun]
     /\ others' = [others EXCEPT ![a] = {}]
     /\ apc' = [apc EXCEPT ![a] = IF DOMAIN rest = {} THEN "idle" ELSE "snapshot"]
     /\ UNCHANGED disk /\ ActOnly

Forget(a) ==
  /\ apc' = [apc EXCEPT ![a] = "idle"]
  /\ list' = [list EXCEPT ![a] = Nothing]
  /\ cur' = [cur EXCEPT ![a] = NoRun]
  /\ others' = [others EXCEPT ![a] = {}]

\* A failing store call after the claim ends the tick: the row of the job stays
\* running, and rows that were being deleted stay deleting.
TickFails(p) ==
  /\ Errors /\ ppc[p] \in {"claim", "check", "finish", "retain", "delete"}
  /\ GoTo(p, "lead")
  /\ job' = [job EXCEPT ![p] = NoRun]
  /\ mem' = [mem EXCEPT ![p] = Blank]
  /\ Forget(p)
  /\ UNCHANGED <<rowVars, planVars, disk, lock, stopping, token, wpc, watch, latest, stops>>

\* The process or the request that runs a delete command ends in the middle.
DropCommand(u) ==
  /\ apc[u] # "idle"
  /\ Forget(u)
  /\ UNCHANGED <<rowVars, planVars, disk, procVars, workVars, stops>>

-----------------------------------------------------------------------------
(* The life of a process                                                   *)

\* The stop token cancels the job, the drain token lets it end.
Stop(p, how) ==
  /\ ppc[p] # "down" /\ stopping[p] = "no" /\ stops < MaxStops
  /\ stops' = stops + 1
  /\ stopping' = [stopping EXCEPT ![p] = how]
  /\ token' = [token EXCEPT ![p] = @ \/ (how = "stop" /\ wpc[p] # "none")]
  /\ UNCHANGED <<rowVars, planVars, disk, lock, ppc, job, workVars, actVars>>

\* serve leaves its loop and drops the lock.
Leave(p) ==
  /\ stopping[p] # "no" /\ ppc[p] \in {"idle", "lead"}
  /\ lock' = IF lock = p THEN None ELSE lock
  /\ stopping' = [stopping EXCEPT ![p] = "no"]
  /\ GoTo(p, "down")
  /\ UNCHANGED <<rowVars, planVars, disk, job, token, workVars, actVars, stops>>

\* The process dies, and the system releases its lock.
Crash(p) ==
  /\ ppc[p] # "down" /\ stops < MaxStops
  /\ stops' = stops + 1
  /\ lock' = IF lock = p THEN None ELSE lock
  /\ stopping' = [stopping EXCEPT ![p] = "no"]
  /\ GoTo(p, "down")
  /\ job' = [job EXCEPT ![p] = NoRun]
  /\ token' = [token EXCEPT ![p] = FALSE]
  /\ wpc' = [wpc EXCEPT ![p] = "none"]
  /\ mem' = [mem EXCEPT ![p] = Blank] /\ watch' = [watch EXCEPT ![p] = Blank]
  /\ latest' = [latest EXCEPT ![p] = None]
  /\ Forget(p)
  /\ UNCHANGED <<rowVars, planVars, disk>>

\* The process is started again.
Restart(p) ==
  /\ At(p, "down")
  /\ GoTo(p, "idle")
  /\ UNCHANGED <<rowVars, planVars, disk, lock, stopping, job, token, workVars, actVars, stops>>

-----------------------------------------------------------------------------
CommandNext ==
  \/ \E s \in Schedules :
       \/ TimePasses(s) \/ DeleteSchedule(s)
       \/ \E e \in {"on", "off"}, edited \in BOOLEAN : SaveSchedule(s, e, edited)
  \/ \E s \in Schedules \cup {None} : Enqueue(s)
  \/ \E r \in Runs : Cancel(r)
  \/ \E u \in Users : DeleteRuns(u) \/ DropCommand(u)

LeaderNext(p) ==
  \/ TryLock(p) \/ Recover(p) \/ RecoverFails(p) \/ EnqueueDue(p) \/ Claim(p) \/ TickFails(p)
  \/ StartWorker(p) \/ PollCancel(p) \/ PollStore(p) \/ Join(p) \/ Cleaned(p) \/ Finish(p)
  \/ Retain(p) \/ RetainMark(p) \/ Retained(p)

WorkerNext(p) ==
  \/ WorkerRefuses(p) \/ \E f \in Paths : WorkerRecords(p, f) \/ WorkerRecordFails(p, f)
  \/ WorkerSends(p) \/ WorkerCreates(p) \/ WorkerReports(p) \/ WorkerEnds(p) \/ WorkerPanics(p)

Next ==
  \/ CommandNext
  \/ \E p \in Procs : LeaderNext(p) \/ WorkerNext(p)
                      \/ \E how \in {"drain", "stop"} : Stop(p, how)
                      \/ Leave(p) \/ Crash(p) \/ Restart(p)
  \/ \E a \in Actors : CleanupSnapshot(a) \/ CleanupRemove(a) \/ DeleteSettles(a)

(***************************************************************************)
(* Fairness: a process that was started keeps running and is started again *)
(* by its supervisor; store calls return; the worker notices a cancelled   *)
(* token (set_export_cancelled) and ends.  An export that is not cancelled *)
(* need not end.  Each process and each worker is at one place at a time,  *)
(* so one condition for all its steps is enough.                           *)
(***************************************************************************)
LeaderStep(p) ==
  \/ TryLock(p) \/ Recover(p) \/ EnqueueDue(p) \/ Claim(p) \/ StartWorker(p)
  \/ PollCancel(p) \/ PollStore(p) \/ Join(p) \/ Cleaned(p) \/ Finish(p)
  \/ Retain(p) \/ RetainMark(p) \/ Retained(p) \/ Leave(p) \/ Restart(p)

WorkerStep(p) ==
  \/ WorkerSends(p) \/ WorkerCreates(p)
  \/ token[p] /\ (WorkerRefuses(p) \/ WorkerEnds(p))

Fairness ==
  /\ \A p \in Procs : WF_vars(LeaderStep(p)) /\ WF_vars(WorkerStep(p))
  /\ \A a \in Actors : WF_vars(CleanupSnapshot(a) \/ CleanupRemove(a) \/ DeleteSettles(a))

Spec     == Init /\ [][Next]_vars
FairSpec == Spec /\ Fairness

-----------------------------------------------------------------------------
(* Properties                                                              *)

\* "An already active schedule is never queued again": however enqueue,
\* enqueue_due, recover and edits of the schedule interleave.
OneActivePerSchedule ==
  /\ TypeOK
  /\ \A q, r \in Runs :
       q # r /\ {state[q], state[r]} \subseteq Pending => plan[q] = None \/ plan[q] # plan[r]

Executing(p, r) == job[p] = r /\ ppc[p] \in {"check", "work", "clean", "finish"}

\* A claimed run is executed by the one process that holds the lock, and its row
\* is still running when finish, which does not look, overwrites it.
ExecutedByLeader ==
  \A p \in Procs, r \in Runs :
    Executing(p, r) => lock = p /\ state[r] = "running"

\* A successful run has its file: no deletion or cleanup, of this run or of
\* another that used the same path, takes it away.
SuccessHasFile ==
  \A r \in Runs : state[r] = "success" => payload[r].path # None /\ disk[payload[r].path] = r

\* A removed run leaves no file behind, whichever way it ended and whichever
\* calls failed (where no process crashes).
RemovedLeavesNoFile ==
  \A r \in Runs : state[r] = "removed" => \A f \in Paths : disk[f] # r

\* Whatever retention has selected, retention_count newer successful runs of the
\* schedule stay, the one just made among them (where no user deletes runs too).
RetentionSparesNewest ==
  \A p \in Procs : ppc[p] = "delete" =>
    \A q \in DOMAIN list[p] :
      Cardinality({n \in Runs : n > q /\ plan[n] = plan[q] /\ state[n] = "success"}) >= Retention

\* A run that has ended stays ended: it is not queued or run again, and its
\* result changes only by way of a deletion.
EndedStaysEnded ==
  [][\A r \in Runs :
       /\ state[r] \in Finished => state'[r] \in {state[r], "deleting"}
       /\ state[r] = "deleting" => state'[r] \notin Pending]_vars

\* A cancelled running run ends.
CancelTakesEffect ==
  \A r \in Runs : (state[r] = "running" /\ cancel[r]) ~> (state[r] # "running")
=============================================================================
