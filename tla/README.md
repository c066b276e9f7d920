# TLA+ models of dbx

dbx is a database manager written in Rust: one core (`crates/dbx-core`) behind a
Tauri desktop application, a web server, a command line and an MCP server for AI
agents.  Most of its code talks to databases or builds SQL text.  Its own logic, and
the part that is hard to test, is the *control* around that: who may cancel a
statement and what the caller is told, whether an execution is repeated after a lost
answer, which process runs a backup, what a transaction's state is when nobody knows
whether COMMIT arrived.  These modules model that control.

Paths below are relative to the repository; `core/` stands for
`crates/dbx-core/src/`.

## 1. Inventory

### Components, state, operations

| Component | State | Operations | Hard behaviour |
|---|---|---|---|
| **Running query registry** `core/query/query_cancel.rs` | map id -> running task (token, watch channel, interrupt), completion records with expiry, registration counter | register (three kinds), register_interrupt, cancel, cancel_matching, cancel_and_wait, wait_for_completion, detach, finish, drop | ids are reused; the mutex is released before the interrupt runs and the completion is sent; timers |
| **TYPE execution receipts** `core/persistence/storage/type_execution_receipts.rs`, `core/query/query_cancel.rs` (finish, observe), `crates/dbx-web/src/routes/query.rs`, `src-tauri/src/commands/query.rs` | durable receipt per execution id, bound to its context | claim, finish, read; the handlers that execute, answer and observe | crash between claim and end, retries, answers lost or late, observers |
| **MCP transaction owner** `crates/dbx-mcp/src/transaction.rs` | status, lease semaphore, command channel, one MySQL connection | begin, query, commit, rollback, close, invalidate, wait_closed, the owner's loop | dropped requests, lost COMMIT answers, deadlock rollbacks, server settings, cleanup with timeouts |
| **Scheduled backups** `core/scheduled_backup/` | SQLite rows of schedules and runs, `worker.lock`, files on disk, worker thread and progress channel | save/delete schedule, enqueue, cancel, delete runs, tick (enqueue due, claim, poll, finish, retention), recover | several processes, crashes, a polling loop beside the worker, deletions that overlap |
| **Two-phase commit** `core/query/two_phase_commit.rs` | durable transaction log | execute (prepare, commit with retries, roll back), recover | crashes between phases, lost replies, partial failure |
| **MCP sessions** `crates/dbx-mcp/src/session.rs`, `server.rs`, `http.rs` | opening, active and closing sessions with their last use; workers that open and clean up; budget of owners | open, reserve, promote, resolve, close, sweep, shut down | calls cancelled at any await; handover of an owner; failed close; shutdown |
| **SQL Server manual transactions** `core/query/sqlserver_manual_transaction.rs` | session map, connection mutex, record of ended sessions, lifecycle token | begin, execute, commit, roll back, idle watcher, disconnect, execution guard | dropped requests, half-read streams, lost COMMIT answers, disconnect against a hanging batch |
| **Connection pools** `core/connection/mod.rs` | routing registry with publication numbers, last use, preserved marker, drain guards, connection attempts | get or create, validate, publish, reconnect, close, disconnect, sweep, reclaim, shut down | many tasks on one key, each region under its own lock |
| **Task supervisor** `core/connection/task_supervisor.rs` | keepalive and close tasks, accepting flag | spawn, stop, stop and wait, shut down | tasks that start during shutdown; a task that stops itself |
| Backup calendar `core/scheduled_backup/models.rs` | none | next_after, validate | time zones |
| Write unlock windows `core/safety/write_unlock.rs` | expiry per connection and session | unlock, lock, remaining_ms | expiry removed after the lock was dropped |
| AI tool approval `core/ai/tool_approval.rs` | pending approvals | ask, answer, time out | - |
| Agent, plugin, SQLite worker processes | child processes | start, call, stop | process death |
| Data transfer, schema, drivers, SQL analysis, formats, user interface | - | conversion, parsing, rendering | data, not control |

### How they interact

* The web and desktop handlers register a statement with the **running query
  registry**, run it through a driver, and release it; a cancel request of another
  thread reaches the driver through the stored interrupt.
* A conditional TYPE update claims a **receipt** first, registers with the registry,
  runs, and makes the receipt terminal before it answers; an observer waits on the
  registry and believes only the receipt.
* The MCP server hands every transaction session to a **transaction owner**, which is
  told by the connection layer when its connection is changed (invalidate_connection).
  The **session store** knows the owner as something that is open, ending or closed.
* Requests find or make a **pool**; the running query registry tells the pools' sweep,
  keepalive and health check which pools are in use; keepalive and close tasks belong
  to the **task supervisor**.
* A disconnect cancels the connection's lifecycle first and then takes **manual
  transactions** and pools away.
* The **backup service** of every process competes for `worker.lock`; the holder's
  tick queues, claims and runs; commands of every process change the same rows.
* **Two-phase commit** drives closures of its participants and a log.  Nothing outside
  its own file calls it at this commit; it is modelled as the library it is.

### What makes each modelled component correct

* Registry: what a waiter is told is true; a cancel is never lost between an entry and
  its interrupt; an entry is removed only by its own owner or a cancel; waiters wake.
* Receipts: at most one execution per id; "terminal" is true; receipts are for ever.
* Transaction owner: the status never claims what is not so; COMMIT is sent once;
  nothing stays open at the server.
* Backups: one active run per schedule, executed by the leader only; ended runs stay
  ended; success implies a file, removal implies none; the queue moves.
* Two-phase commit: atomic commitment, true outcomes, final outcomes.
* Pools: every pool has exactly one owner who will route or close it; a pool in use is
  spared by those who must spare it; nobody waits for a drain that nobody ends.
* MCP sessions: the cap holds; an owner is in the store or with a worker that closes
  it; an active session keeps its owner; every call returns.
* Manual transactions: a known outcome is true; nothing is sent over a half-read
  stream; a session that has ended lets its connection go.

The hazards behind these, with file and line, are in `PROJECT.json` under `hazards`.

## 2. Plan

1. *(done)* The registry, the receipts, the transaction owner, the backups and the
   two-phase commit as modules of their own; proofs of TypeExecution and
   TwoPhaseCommit.
2. *(done)* ConnectionPools with the task supervisor, McpSessions, ManualTransaction;
   the abstract specification ExecuteOnce and the proof that TypeExecution implements
   it.
3. *(done)* Proofs of all safety properties of RunningQueries, TransactionOwner,
   ManualTransaction, McpSessions, ConnectionPools and ScheduledBackups, the conditional
   ones of ScheduledBackups under their conditions; the abstract specification
   AtomicCommit and the proof that TwoPhaseCommit implements it.
4. An abstract specification still worth stating: leadership, refined by
   ScheduledBackups.
5. *(done)* BackupQueue, the share of the limit on pending runs among several schedules;
   ConnectionPools with publishers that displace a pool, and with the timeout around the
   shutdown.
6. The rest of ScheduledBackups: migrate, import_files, insert_completed, rename,
   several files per run.

## 3. The modules

Each component has a module `X` and an instance `MCX` that adds at most symmetry
sets and sets of values; the `.cfg` files give the constants their values.  Definitions named
`<Action>_<Something>` directly above an action are mutants of it: the change a
plausible mistake in that code would make, which a property must detect.  They are
not part of any specification.

### RunningQueries

One step per region under the mutex; whatever the code does after it has released the
mutex (run the taken interrupt, cancel a displaced token, send the completion) is a
step of its own.  Registrations are numbered as `next_registration_id` numbers them.
`inner` is the map, `completed` the completion records, `slot` the interrupt stored in
a task, `phase` the owner's place, `pc` the client's.  The kinds are `register_task`
("plain"), `..._for_terminal_confirmation` ("tracked", which remembers its completion)
and the same under a parent token ("child").  The time limits are nondeterministic: a
wait may time out and a completion record may expire at any step.
`set_pool_key` and `is_pool_active`, which the pools use, are part of ConnectionPools.

### TypeExecution

`receipt` is the durable table; a request goes through claim, registration and
spawning, the statement, `finish_conditional_update` (release, then the receipt) and
then the reply, each a step of its own, so that a crash may come between a saved receipt
and its reply; its client may give up or time out at any time, and the process may crash
at any time, which keeps only the receipts and what runs at the database.  The
observer is `observe_type_execution`: read, wait, read again.  The registry appears
only as a wait that may end at any time: that is all the observer may rely on, since
an unrelated registration with the same id can end it.  A binding is an id with one
context value that stands for connection, database, schema and the rest, possibly
blank (`validate` refuses it).

### ExecuteOnce

What the receipts are for, without receipts: an id is started by one request at most,
its statement runs and ends, the id is attested as over once nothing of it runs, and
only what is attested is told to anybody.  `TypeExecution` instantiates it as `Once`
with a refinement mapping: `started` are the requests whose statement was handed to
the database, `running` the ids being executed, `attested` the terminal receipts and
`told` the answers that callers and observers hold.  A crash is a step of `Forget`.

### TransactionOwner

The owner's loop (`opc`), the callers, who call again and again, with their lease and
drop guard (`cpc`, `dropped`), closers in `wait_closed` (`kpc`), and the MySQL server as
an external part: `wire` and `answer` separate sending, running and answering, `fate` is
the truth about every transaction.  The server runs a sent statement even when the owner
has given up, may refuse it, may roll the transaction back with the error (deadlock),
commits an open transaction on START TRANSACTION, and rolls back when the connection
ends. `Autocommit` and `Chain` are the two server settings that open transactions nobody
asked for.  Timeouts, dropped requests and transport errors are one nondeterministic
`GiveUp`, because the code treats all of them alike (set_unknown, end).

### ScheduledBackups

Rows (`state`, `payload`, `cancel`, `plan`), schedules (`sched`, `due`), files
(`disk`: who made it), the lock, the leader's tick (`ppc`), the worker thread (`wpc`,
`mem`) with its progress channel (`watch`) and the clone the poll loop holds between
reading and storing it (`latest`), and the actors that delete (`apc`, `list`, `cur`,
`others`).  Every store call is one transaction and one step.  Run ids are numbers in
the order of `created_at`.  Time is `TimePasses`, which makes an enabled schedule due.
A run has at most one file.  `UniquePaths` says that file name patterns contain
`{runId}`.  `Errors` lets store calls and file removals fail.  Left out: the
heartbeat, migration, import, renaming, the `updated_at` check of two editors.  `Room`
is not in the code: it is where the bound on runs acts, and leaves a number to every
schedule that is due.  What the real limit does among several schedules is the subject
of BackupQueue.

### BackupQueue

The limit on pending runs and nothing else, so that it needs no bound on runs: `queue`
holds the schedules of the queued rows in the order of `created_at`, `running` those of
the rows that are running, among them rows a failed tick left behind, and `leader` the
leader's next store call.  `enqueue_due` scans the schedules by id and stops where the
limit is reached; `enqueue` by hand is refused there.  Schedules are saved, edited,
disabled and deleted, one-shot backups and runs by hand fill the queue, queued runs are
cancelled, leaders end and are replaced.  A running run ends with its export.

### TwoPhaseCommit

`log` is the durable status, `part` the truth about each participant, `todo`, `retry`,
`attempt`, `acked` and `errors` the variables of the loops; `voted` and `lost` are
history.  A participant's call may
fail before or, with `LostReplies`, after it took effect.  A crash keeps `log` and
`part`; `Recover` is the handler for each status.  A transaction id is executed once.

### AtomicCommit

What the coordinator promises, without phases, retries or recovery: the decision to
commit is made when everyone has agreed and is prepared, nobody commits without it or
after it was given up, and an outcome is announced once, is true of those who committed,
and nothing happens to anyone after it.  `TwoPhaseCommit` instantiates it as `Atomic`:
`stage` is read off the durable log alone, `fate` is `part` and `yes` is `voted`.  It is
weaker than textbook atomic commitment where the code is: commits that keep failing are
given up, so participants may part ways, and "rolled_back" may be announced over
committed work (the run tpc_doc_mixed).

### ConnectionPools

One pool key.  A worker is a task that runs one operation of `AppState` at a time: a
request (`get`, with its statement), `connect` (the web server's) and `connectDb` (the
desktop's, and that of the web server's plugin connections), which carry an attempt
number and drain the connection's pools before they connect, `reconnect`, `close`,
`disconnect`, the idle `sweep`, `reclaim` (an Agent connection that ran out of slots),
the `cleanup` of a session, and `shutdown`.  Every region under a lock is a step; what
an operation read before an await and uses after it is in its record `me[w]` (`handle`,
`checked`, `mine`).  A pool is "open" from its connection until it is closed or until
its last handle is let go; `broken` are those whose server side has failed.  Keepalive
tasks are numbered as they are spawned, because a task that replaces another one of the
same pool is not the one that somebody awaits; `target` is the pool a task probes, `ka`
its place, `taken` the pool it has detached and has not closed yet, `aborted` the tasks
that are to end, and `task` the one that is registered.  A task detaches the pool it
found dead and then stops its own key.  A configuration is a driver and whether the
password is saved.  Four drivers stand for the cases the code distinguishes: "agent"
(probed by identity, reclaimed, not validated before reuse), "sqlserver" (probed by
identity and validated), "mysql" (validated, probe without identity) and "mongodb" (like
mysql, but looks once more at the registry after it has connected and then publishes
without keep_existing, `MongoRecheck`).  `KeepsExisting` is the code's keep_existing: a
pool that was connected on demand with a saved password gives way to one that was
published meanwhile, every other one displaces and closes it, whoever uses it. Without a
saved password a request may find the pool of another session
(`pool_credential_owner_mismatch`, a free choice) and connects its own.  A statement
with an execution id is "running" and known to RunningQueries; one without is
"unlisted", and the sweep, the keepalive and the health check do not see it.  `shutdown`
joins the supervisor's tasks and closes what it has removed side by side (`JoinTasks`,
`CloseRemoved`), and its own timeout, which is as long as the supervisor's and armed
before it, may end both at any time (`ShutdownEnds`, "cutOff").

Steps that touch no state anybody else sees in between are merged: the attempt's check
before a connection into `Connect`; `set_pool_key`, the touch and `pool_handle` into
`EnterStatement`; the choice of the candidate, `begin_pool_drain` and the abort of the
keepalive task into `BeginPoolDrain`.  Left out: which session owns unsaved credentials,
`drop_connection_pools_without_close` of plugins, replacement of Agent runtimes, loss
events, message queues, DuckDB leases, cancel contexts.

### McpSessions

`place` is the map a session id is in, `stale` the sessions whose idle time is over,
`tx` those opened with transactions, `owner` their owner's life (TransactionOwner has
its inside), `opener`, `cleaner` and `drainer` the workers, `req` the tool calls with
the cleanups they wait for.  A call may be cancelled wherever it waits, as
`cancellable_tool_call` does; a cancelled command ends its owner (RequestDropGuard).
`dropped` is history: sessions whose call was cancelled after it had changed the store
and before it had spawned a worker.  The pool pinned to a session appears only as a
close that succeeds or fails.

### ManualTransaction

One session: `entry` in `transaction_sessions`, `record` in EndedSessions, `lock` the
connection's mutex, `cancelled` the lifecycle, `released` the detached connection;
`server`, `sent` and `answer` are the server's side.  Tasks are the requests, the idle
watcher, the disconnect and the task that an ExecutionGuard spawns when its request is
dropped.  The server may answer a batch with success, with an error, by ending the
transaction, or not at all.  The read-only check of `execute` is nondeterministic.

### Proof modules

`TypeExecutionProofs`, `TwoPhaseCommitProofs`, `RunningQueriesProofs`,
`TransactionOwnerProofs`, `ManualTransactionProofs`, `McpSessionsProofs`,
`ScheduledBackupsProofs` and `ConnectionPoolsProofs` extend the module of their component
and hold nothing but invariants, lemmas, theorems and proofs (section 6).

## 4. Runs

| Run | Constants | What it shows |
|---|---|---|
| rq | 1 id, 2 registrations of every kind, 1 client, fair | What cancel_and_wait answers is true (TerminalMeansReleased, ProvenMeansEnded); a tracked execution stays reachable and a cancel reaches the interrupt wherever it is stored (StoredInterruptReachable, CancelReachesInterrupt, the latter also for what cancel_matching matched); an entry leaves only by its own owner's hand or a cancel (EntryLeavesByOwnHand); CompletionIsSent; DetachedIsReclaimed, which also says that an interrupt taken out of its entry is run |
| type_execution | 2 ids, 2 contexts and the blank one, 3 requests, 1 observer | NeverReplayed, ObservedTerminalIsTrue, KnownReplyIsDurable, and the refinement ImplementsExecuteOnce |
| tx | 2 callers, 1 closer, 2 transactions, autocommit off, chained transactions, fair | OutcomeIsTrue, IdleMeansNoTransaction, CommittedOnRequestOnly (COMMIT is sent once, and only for a request), ClosersReturn, NothingLeftOpen |
| bk_leader | 1 schedule, 2 runs, 2 processes, 1 stop or crash, failing calls | OneActivePerSchedule, ExecutedByLeader, EndedStaysEnded |
| bk_delete | 1 schedule, 2 runs, 1 process, 1 user, failing calls | RemovedLeavesNoFile |
| bk_live | 1 schedule, 2 runs, 1 process, 1 stop or crash, queue of 1, shared paths, fair | SuccessHasFile, RetentionSparesNewest, CancelTakesEffect |
| bk_queue | 3 schedules, queue of 2, runs without end, fair | DueIsServed: the first two schedules are always served, although the third competes with them, runs by hand and rows of failed ticks may have filled the queue, and enqueue_due stops in the middle of the schedules |
| two_phase_commit | 3 participants, 2 retries, 2 crashes, lost replies | CommitNeedsUnanimity, OutcomeIsTrue, NobodyInDoubt, and the refinement ImplementsAtomicCommit (of which OutcomeIsFinal is a consequence) |
| pools | 2 workers, 3 operations, 2 pools, 3 publications, 3 keepalive tasks; every driver, "mysql" without a saved password and the others with one | OneOwner, NoTaskOutlivesShutdown, WaitersHaveWakers, UsedPoolStays |
| mcp_sessions | 2 calls at a time, 3 sessions, cap 2, 1 owner at a time, fair | SessionsBounded, NothingForgotten, ActiveIsServed, CallsReturn |
| manual_tx | 3 requests at a time, 1 session, fair | KnownIsTrue, GoneAfterDisconnect, NeverOnPoisoned, EndedIsReleased |

A module's type invariant is the first conjunct of one of the invariants of its runs
(all of them are proved).  The settings of tx only add
behaviours to the default ones (the server *may* open a transaction), so the run covers
both.

One run must fail, because the code and what its comment and test say disagree:

| Run | Property | What TLC shows |
|---|---|---|
| tpc_doc_mixed | RolledBackIsTrue | A crash after "rolling_back" was saved: recover writes "rolled_back" although a participant has committed |

**Bounds.**  Two registrations of one id are what displacement needs: a third only
displaces the second in the same way.  One client that calls again and again cancels an
entry while its owner, its interrupt and its successor go on, and again after a timeout;
that the safety properties hold for clients that cancel one entry at the same time is
proved, and was checked with two clients.  Ids do not interact but through
cancel_matching, which works off its list one by one.  Three requests for two ids give a
first claim, a retry and an unrelated one; with two contexts a retry may be bound
differently.  Two callers who call again and again can hold, wait for and drop the lease
in every order; two transactions make a confusion between an old and a new outcome
visible.  Two runs per schedule show an overlap and, with retention 1, a surplus; a
queue of one is full as soon as one run is pending.  Three schedules over a queue of two
are the fewest where the scan stops before a schedule that is due.  Three participants
are the smallest number where one has committed, one has failed and one is still to be
called; two retries are the code's own limit.  Two workers and three operations are
enough for a request, an operation that takes its pool away and a third that publishes
again, with keepalive tasks beside them (`reconnect` is left out of the run: it is a
close that leaves the marker, and a request after it); two pools make an old and a new
one, and three operations spawn no more than three keepalive tasks.  Three sessions over
time with room for two let one be opened while another closes or comes back, and one
permit makes owners compete.  Three requests on a manual transaction are a batch that
hangs, a finish and one that comes late.  `MaxRuns`, `MaxReg`, `MaxTx`, `MaxStops`,
`MaxCrashes`, `MaxPools`, `MaxPub`, `MaxTasks`, `MaxOps` and `MaxIds` bound the
behaviours; `MaxPending`, `MaxRetries`, `MaxSessions` and `MaxOwners` are limits of the
code (100, 2, 32 and 32).  Where the bound of a run ends a behaviour (all calls made,
all registrations used) the run has `CHECK_DEADLOCK FALSE`; the backups, the two-phase
commit and the manual transaction are checked for deadlock (a restart, another recover
or a late request is always possible).

**Fairness** (in rq, tx, bk_live, bk_queue, mcp_sessions and manual_tx).  Registry:
threads that have left the mutex go on, watch channels wake their receivers, timers
fire; nothing says that an owner ever finishes or that a statement ends.  Transaction
owner: its task is polled and every I/O call is under a timeout, so it goes on; `Stop`
is strongly fair because `tokio::select!` picks at random among ready branches and so
cannot prefer a command for ever; the server notices a closed connection.  Backups: the
serving task is polled, store calls return, a process that ended is started again by its
supervisor or user, and an export that has been *cancelled* ends (set_export_cancelled
is checked between rows).  An export that is not cancelled need not end, so BackupQueue
asks only for the store calls before it and for a new leader when there is none, and
DueIsServed has the rest as its premise `Undisturbed` (section 5).  MCP sessions: the
runtime polls what is ready, the backend answers within its timeouts, an owner's cleanup
is bounded; nobody has to call or cancel. Manual transactions: every wait but that for a
batch has a timeout, so tasks go on; a server need not answer a batch, and it notices a
closed connection.

## 5. Limits of what holds

These are conditions under which a property is stated, found while checking it.

* TerminalMeansReleased, StoredInterruptReachable and CancelReachesInterrupt speak of
  an execution id that no second owner has registered.  With reused ids they fail:
  `register_interrupt` finds its task by id only, so that the interrupt of a task that
  was cancelled and registered again is stored with the new task, although the comment
  above it (query_cancel.rs 263-267) says that it runs at once.
* For plain registrations `cancel` sends the completion itself, and a second
  registration of an id sends the one of the first: cancel_and_wait can then answer
  terminal while the owner still runs.  TerminalMeansReleased is therefore about
  tracked registrations, which is what its callers use.
* SuccessHasFile holds as long as no store call or removal fails, and with delete
  commands of users only if the file name patterns contain `{runId}`.  Without `{runId}`,
  `cleanup` checks other runs' paths in a snapshot taken before the removal, and can
  remove a file that a new run has made since.  With failing calls, two deletions of a
  run may overlap: one fails, and deletion_failed makes the row a success again while the
  other removes its file.  Without any user the same comes from retention alone: it
  removes a file, a store error leaves the row "deleting", the next retention selects it
  again, fails to read the other runs, and deletion_failed makes it a success without a
  file.
* RemovedLeavesNoFile is stated without crashes.  The poll loop stores a clone of the
  progress it read before the worker recorded a path (engine.rs 95); a crash then
  leaves an interrupted run that does not list the file it made, which
  `docs/background-database-backups.md` line 108 says stays visible, and deleting that
  run leaves the file.  A store error of the leader that is then stopped does the same,
  since the next leader's `recover` interrupts the row; and where two runs may have the
  same path, a removal spares a path that another row lists, also one whose own file is
  gone and whose deletion was interrupted.
* DueIsServed is about the first `MaxPending` schedules (100) in the order of their ids.
  `enqueue_due` lists by id and stops at the limit, with no memory of whom it passed
  over: a schedule further back gets no run as long as those before it come due again in
  every tick.  (Without `Within` TLC shows it for the third schedule of bk_queue.)  It
  is stated under `Undisturbed`: from some time on the leader lives, its exports end, no
  failed tick has left a row running behind it, and nobody queues runs by hand.  Each is
  needed, since each can keep the queue full or the tick from coming round.
* RetentionSparesNewest is stated without users who delete runs at the same time.
* `recover` turns every "deleting" row into "failed", also one that a living process
  is deleting; that deletion then removes the file, finds the row in another state and
  leaves it, as a failed run.
* A store error between the claim and `finish` leaves the row running, and the
  schedule blocked, until another process becomes leader.
* The recover of a transaction that was committing rolls back after failed commits
  without saving "rolling_back" (two_phase_commit.rs 345-357): if it dies in between, the
  next recover goes on to commit the others.  AtomicCommit allows it, since both happen
  in the stage "committing".
* `TwoPhaseCommit::execute` ignores errors of the rollbacks it makes; NobodyInDoubt is
  about the ones `recover` makes.
* `TwoPhaseCommit::execute` does not look whether its id has a log yet and writes
  "preparing" over it (two_phase_commit.rs 157-158).  The model executes an id once; a
  second execute of an id whose participants are prepared or committed would lose what
  is known of them.
* UsedPoolStays excepts these causes.  Operations that take a key away on purpose do so
  under a running statement: reconnect, close, the drains (which both connects begin
  with), the sweep where RunningQueries does not know the statement, the cleanup of a
  session.  The desktop's connect, the connect of web plugin connections, connections
  whose password is not saved and MongoDB publish without keep_existing, and close the
  pool they displace.  `restore_reclaimed_agent_pool` does so too.  And `matches_pool`
  has no identity to compare for MySQL and MongoDB, so that a probe of an old pool
  detaches the current one.
* A statement without an execution id is not known to RunningQueries
  (query/mod.rs 1775-1777): the sweep may close its pool, and keepalive and health check
  probe a pool that is busy.
* `AppState::shutdown` puts a timeout around the supervisor's shutdown that is as long as
  the supervisor's own and armed before it (connection/mod.rs 2734-2751).  Where it fires
  first, the handles of the tasks are dropped without an abort, and removed pools without
  a close.  NoTaskOutlivesShutdown says of this case only that nothing else is left.
* `finish_detach` stops the keepalive task and clears the last use by key, after the
  route was given up: a pool published in between loses its own.
* `mysql_preserved_transactions` is cleared by `finish_detach`, `remove_pool_by_key` and
  `take_client_session_pool`, not by a reconnect or by the drains of connects,
  disconnect, sweep and shutdown: these leave the marker to the next pool of the key,
  although the comment at connection/mod.rs 449-455 says that the state dies with the
  pool; the sweep then spares a pool that holds no transaction.
* The attempt is checked before a pool is published, not with it: a disconnect between
  the two leaves the pool of a superseded attempt published.
* A keepalive task that is aborted while it waits for a lock in `finish_detach` drops
  the pool it has detached without closing it; OneOwner counts it as let go.
* A tool call that is cancelled while it waits for the cleanup of expired sessions, after
  `begin_close` or `reserve_opening`, leaves its session in "closing" or "opening" with
  no worker, and the slot is lost until the shutdown; NothingForgotten excepts exactly
  these (`dropped`).
* `cancel_opening` frees the slot before the pool of the session is closed, and a query
  that was resolved before its session was closed can connect that pool again; both are
  outside the model, which has no pinned pools.
* A disconnect that took a session while a request was ending it may replace the known
  outcome that the request recorded by an unknown one.

## 6. Proofs

TLAPS proves, for every value of the constants:

* **TypeExecutionProofs**: `TypeCorrect`, `AtMostOnce` (NeverReplayed),
  `ObserverIsRight` (ObservedTerminalIsTrue), `RepliesAreDurable`
  (KnownReplyIsDurable), `ReceiptsStay` (ReceiptIsForever: receipts are never removed,
  rebound or taken back) and the refinement `ReceiptsImplementExecuteOnce`
  (ImplementsExecuteOnce), from `BlankAssumption` (the blank context is not a context).
* **TwoPhaseCommitProofs**: `TypeCorrect`, `Unanimity` (CommitNeedsUnanimity),
  `OutcomesAreTrue` (OutcomeIsTrue), `NobodyHeld` (NobodyInDoubt), `FinalStays`
  (OutcomeIsFinal) and the refinement `CoordinatorImplementsAtomicCommit`
  (ImplementsAtomicCommit), from `BoundsAssumption` (the bounds are natural numbers; they may
  be as large as one likes).
* **RunningQueriesProofs**: `TerminalAnswersAreTrue` (TerminalMeansReleased),
  `ProvenAnswersAreTrue` (ProvenMeansEnded), `NothingOutOfReach`
  (StoredInterruptReachable), `CancelsTakeHold` (CancelReachesInterrupt),
  `EntriesLeaveByOwnHand` (EntryLeavesByOwnHand, an action property), from
  `MaxRegAssumption`, `NoIdAssumption` and `KindsAssumption`.
* **TransactionOwnerProofs**: `OutcomesAreTrue` (OutcomeIsTrue), `IdleIsTrue`
  (IdleMeansNoTransaction), `CommitsAreRequested` (CommittedOnRequestOnly), from
  `SettingsAssumption` and `NoneAssumption`.
* **ManualTransactionProofs**: `OutcomesAreTrue` (KnownIsTrue), `DisconnectIsFinal`
  (GoneAfterDisconnect), `StreamIsNeverReused` (NeverOnPoisoned, an action property),
  from `TasksAssumption`.
* **McpSessionsProofs**: `CapHolds` (SessionsBounded), `SessionsAreKept`
  (NothingForgotten), `ActiveSessionsAreServed` (ActiveIsServed), from
  `ConstantsAssumption`.
* **ScheduledBackupsProofs**: `SchedulesRunOnce` (OneActivePerSchedule),
  `LeaderExecutes` (ExecutedByLeader), `ResultsStay` (EndedStaysEnded, an action
  property), from `SchedulesAssumption`, `ActorsAssumption` and `BoundsAssumption`; and
  under conditions (section 5) `RetentionSpares` (RetentionSparesNewest, if no user
  deletes runs), `SuccessKeepsFile` (SuccessHasFile, if no call fails and either paths
  are unique or no user deletes runs) and `RemovedIsGone` (RemovedLeavesNoFile, of
  behaviours without a crash, if paths are unique and calls fail only where no process
  is stopped).  The runs bk_live and bk_delete meet these conditions.
* **ConnectionPoolsProofs**: `PoolsHaveOneOwner` (OneOwner), `ShutdownLeavesNoTask`
  (NoTaskOutlivesShutdown), `WaitersAreWoken` (WaitersHaveWakers), `PoolsInUseStay`
  (UsedPoolStays, an action property), from `ConstantsAssumption`.

The assumptions say that the bounds are natural numbers, that the flags are Booleans,
that a schedule is a number and their set finite, and that the names of tasks,
processes, users and "none" differ; TLC evaluates them in every run.  Each of the last
six modules has a theorem `Invariance` (Spec => []IndInv), of which the type invariant
is a part; every IndInv was an invariant of TLC runs before it was proved.

*Receipts.*  NeverReplayed is not inductive: it says nothing of a request that holds a
claim and has not sent its statement yet.  IndInv adds what the receipts table means. A
request that has not claimed has done nothing (FreshIsFresh); one that has owns a
receipt with its own binding (HolderHasReceipt); two of them hold different ids
(HoldersApart), which is where the primary key of the table does its work; a request
saves its receipt only after its statement has ended (SavesAfterTheEnd) and returns only
what it has saved (SavedIsTerminal), so a terminal receipt means that nothing of that id
runs or ever will (TerminalMeansOver); and what an observer was told is what the table
says (AnswersAreReceipts).  Each action preserves each conjunct; the observer's theorem
follows from the last two.

*The refinement.*  Initial states map to initial states, and under IndInv every action
maps to an abstract step or a stutter: StartStatement to `Start` (HolderHasReceipt and
HoldersApart say that nobody has started that id, and that it is not attested),
EndStatement to `End`, the end of `finish_conditional_update` to `Attest` (nothing of
the id runs, by SavesAfterTheEnd), the return of the result to `Tell` (the receipt is
terminal, by SavedIsTerminal), the reads of an observer to `Tell` as well, dropped answers
and the crash to `Forget`, everything else to a stutter.  Lemmas say how the mapped
variables change when one request, one receipt or one observer changes.

*Two-phase commit.*  IndInv relates the durable log to the coordinator's place
(LogAndPlace), the log to the votes (VotesCounted: "committing" is saved with all votes
only, which survives a crash because the log does), the loop's results to the truth
(AckedAreCommitted, and CrashFree: as long as nothing crashed nobody else has
committed but those whose reply was lost), and says what the rollback loop of recover has settled
(RecoverSettles).  With them unanimity and the truth of the outcomes are inductive.

The refinement maps the saves of the log to the steps of AtomicCommit: "committing" to
`Decide`, "rolling_back" to `GiveUp`, a final status to `Announce`; a call that takes
effect, answered or not, to `Prepare`, `Commit` or `RollBack`; loops, crashes and recover
to stutters.  It needs two facts more (RefInv): while votes are collected the prepared
participants are exactly those that were called, and results of commits exist only once
"committing" was saved, so that recover never commits what was given up.

*Registry.*  What the clients are told rests on what the maps mean (RegInv): numbers
are handed out in order, an entry is the last registration of its id and not released,
a registration that is not in the map was released, displaced or, untracked, cancelled,
and a remembered proof is about the last registration.  SlotInv follows an interrupt:
it is stored in the slot of the entry that holds its id, or taken by whoever will run
it, or run, or dropped with the release.  ClientInv relates subscriptions, completions
and answers to them.  All steps but a registration share one shape (the map shrinks for
a reason, closures leave their slots, tokens and completions have a cause), so most
actions are instances of three lemmas; Register and RegisterInterrupt are proved at
length.

*Transaction owner.*  OutcomeIsTrue speaks of a caller who may have been dropped while
the owner still worked for him.  IndInv says what the owner knows at each of its places
(CommandInv), what may be on the wire and which answers to it are possible (WireInv),
what the published status means (StatusInv), that a caller who waits waits for the
command in the owner's hands or channel (WaitInv), and that COMMIT was counted when it
was sent (AskedInv).

*Manual transactions.*  One task at a time is the user of the connection, and none is
while the entry is idle (Alone); whoever may write has a stream without an unread
answer, or will discard it (Unread); what is recorded, remembered or replied is the
server's outcome (Truth), and nothing follows a disconnect (Ended).  NeverOnPoisoned is
then a consequence of each step.

*MCP sessions.*  The cap is about a set that grows in `reserve_opening` and changes
members everywhere else (Bounded, with the theorems on finite sets).  For each session
its place, opener, cleaner and owner fit together (SessionInv), and a call that has
reserved a session or begun to close it and has not spawned a worker is the only one
that claims it (CallInv): without that, a cancelled call could take down the session of
another.

*Backups.*  OneActivePerSchedule needs that new runs get new rows: the runs are
numbered without gaps, and there is room for a run of each schedule that is due
(Numbered); enqueue_due queues several at once, and the lemmas on ranks show that it
gives the next numbers, one to each schedule.  ExecutedByLeader needs that a process
past the lock holds it (Leading), that the worker thread, the cleanup and the result in
memory exist only where the tick waits for them, and that the row of the claimed run
stays running whatever users and late deletions do (Working).  EndedStaysEnded needs
that a payload says how its run ended as soon as the row does (RowsOK), and that what
an actor took on its list had ended when it was read (Cleaning): deletion_failed writes
that status back.

The three conditional theorems share a second invariant (Telling).  A payload agrees with
its row's state, what the worker, its channel and the poll loop's clone hold is what the
worker did, listed runs have ended, and a file on disk is one that its run could have
made.  *Retention* (Sparing): every run that is being deleted or is selected has
`Retention` newer successes.  The code selects by payloads, which also count runs on
their way out; but such a run has newer successes of its own, and marking runs takes none
away, because the newest one marked has enough that are not marked.  *A success keeps its
file* (Safe): a successful row's path holds its own file; a run that is listed or being
deleted has its own file at its path or none, and is not made a success again; and where
paths repeat, without users only the leader deletes, one run after another, and only
successes.  *A removed run is gone* (Known): as long as a run has a file, its row, the
process that executes it (even after the worker panicked) or the one that deletes it
knows the path; a running row with a file is held by a process that will record it, or
nobody will ever interrupt it (Stuck: a call failed and the leader is never stopped).

*Pools.*  OneOwner is inductive once it is split into three parts that a step can be
checked against: an open pool is owned by a worker, a keepalive task, the registry or a
close task (OpenIsOwned), what they own is open (OwnedIsOpen), and no two own the same
(Apart).  Every step that moves a pool is an instance of one of eight lemmas: a worker
connects one, exchanges one with the registry or gives one up, a task takes or gives
one, and so on.  They need that a worker or a task has a pool exactly at the places where the code
holds one (WorkersOK, KeepaliveOK).  NoTaskOutlivesShutdown needs that a task that runs
is registered, aborted, or one that the shutdown took out and awaits or awaited when it
was cut off (LiveIsKnown), that there is one shutdown, and that a supervisor that refuses
tasks gets none (ShutdownOK).
UsedPoolStays needs, for the health check, that as long as nothing was published since
it began the routed pool is the one it has checked (ProbesOK), for the keepalive, that
it gives up only a pool that is dead and stays so (KeepaliveOK), and for the
reclamation, that a statement holds a handle (ExclusivelyIdle); that none of them relies
on RunningQueries is why the theorem covers statements it does not know.  A publisher is
excepted only where it does not keep the existing pool.  The proof of
WaitersHaveWakers is the reason why keepalive tasks are numbered in the model: a task
that is spawned for the same pool is not the one that a reclamation waits for.

*Only model-checked.*  All liveness properties (fairness and ENABLED are out of the
prover's reach), and RolledBackIsTrue, which is false in general (section 4).  Every other
property of a run is a theorem.

## 7. Not modelled

The models cover the concurrent control of the core, a few thousand of some 650,000
lines.  Nearly all of the rest is data: drivers and wire protocols, catalogue queries,
schema comparison, SQL analysis and generation for some forty dialects, transfer and
file formats, the user interface and its commands.  It is sequential, its properties
are about unbounded strings and values, and a model of it would be a transliteration
of code that tests reach better; a model of its control would have one state.
`PROJECT.json` gives the reason for each component.

Of the concurrent rest: the write unlock windows are a map of deadlines under one
lock, where `remaining_ms` drops the lock before it removes an expired window and may
so remove one that was opened in between, which locks a user out of a window and never
opens one; a tool approval is one waiter on one channel; the SQLite worker handles one
request at a time; agents and plugins are separate programs.
