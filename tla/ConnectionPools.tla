-------------------------- MODULE ConnectionPools --------------------------
(***************************************************************************)
(* One pool key of AppState (crates/dbx-core/src/connection/mod.rs): the   *)
(* routing registry, the record of last use, the marker of a preserved     *)
(* MySQL transaction, the drain guard of the idle reclamation, and the     *)
(* keepalive task and the close tasks of the TaskSupervisor.               *)
(*                                                                         *)
(* A worker is an asynchronous task that runs one operation at a time.     *)
(* Every region under a lock is one step.  A pool is the driver's handle:  *)
(* it is open from its connection until close_pool_with_timeout (closed)   *)
(* or until the last handle is let go without a close (dropped).           *)
(***************************************************************************)
EXTENDS Integers, FiniteSets

CONSTANTS
  Workers,    \* tasks that call AppState
  Configs,    \* connection configurations to look at, a subset of AllConfigs
  Ops,        \* operations the workers call, a subset of AllOps
  MaxPools,   \* bound: pools that are ever connected
  MaxPub,     \* bound: publications
  MaxTasks,   \* bound: keepalive tasks that are ever spawned
  MaxOps,     \* bound: operations that are ever begun
  None        \* no worker

\* "agent": probed by identity, reclaimed when slots run out, not validated
\* before reuse.  "sqlserver": probed by identity, validated before reuse.
\* "mysql": validated before reuse; its probe has no identity to compare.
\* "mongodb": like mysql, but a pool connected on demand is published its own way.
AllDrivers == {"agent", "sqlserver", "mysql", "mongodb"}

\* ConnectionConfig: the kind of pools, and save_password
AllConfigs == [driver : AllDrivers, saved : BOOLEAN]

\* "connect" is the web server's connect, "connectDb" the desktop's (and that of the web
\* server's plugin connections), which publishes the pool it connects itself.
AllOps == {"get", "connect", "connectDb", "reconnect", "close", "disconnect", "cleanup",
           "sweep", "reclaim", "shutdown"}

ASSUME ConstantsAssumption ==
  /\ Configs \subseteq AllConfigs
  /\ Ops \subseteq AllOps
  /\ MaxPools \in Nat
  /\ MaxPub \in Nat
  /\ MaxTasks \in Nat
  /\ MaxOps \in Nat
  /\ None \notin Workers

Pools == 1..MaxPools

\* Keepalive tasks, numbered as they are spawned: a task that replaces another one of the
\* same pool is not the task that somebody awaits
Tasks == 1..MaxTasks

VARIABLES
  config,      \* the connection's configuration, chosen once
  route,       \* ConnectionPoolRegistry: the published pool, 0 for none
  publication, \* the number of publications; the last one is the current one
  life,        \* pool -> "unborn", "open", "closed", "dropped"
  broken,      \* open pools whose server side is gone
  activity,    \* pool_activity: "none", "fresh", or "old" (idle for too long)
  preserved,   \* mysql_preserved_transactions holds the key
  draining,    \* draining_pools: the worker that reclaims, or None
  attempt,     \* the worker whose connection attempt is the current one
  task,        \* TaskSupervisor: the key's registered keepalive task, 0 for none
  target,      \* keepalive task -> the pool it probes
  ka,          \* keepalive task -> its place
  taken,       \* keepalive task -> the pool it has detached, 0 for none
  aborted,     \* keepalive tasks that have been aborted and have not ended
  bg,          \* pools that a "pool-close" task of the supervisor closes
  accepting,   \* TaskSupervisor::accepting
  me,          \* worker -> its place and its local variables
  begun        \* the number of operations begun

registry == <<route, publication>>
pools == <<life, broken>>
records == <<activity, preserved>>
attempts == <<attempt, begun>>
tasks == <<task, target, ka, taken, aborted, bg, accepting>>
vars == <<config, registry, pools, records, draining, attempts, tasks, me>>

Places ==
  {"idle", "wait1", "wait2", "look1", "look2", "validate", "probe", "removeStale",
   "connect", "recheck", "check", "pubwait", "publish", "touch", "ready", "running",
   "unlisted", "drop",
   "closing", "strip", "unroute", "detach", "finish", "clear", "sweepIdle",
   "sweepActive", "halted", "take", "restart", "forget", "disconnecting", "restore",
   "refuse", "takeTasks", "join", "joined", "down", "cutOff"}

\* op: the operation; mine: the pool it has connected or taken out, and must publish
\* or close; then: its place after the close, or after a health check that removes
\* nothing; handle: the pool it has cloned from the registry; checked: what it remembers
\* of an earlier look
Worker ==
  [pc : Places, op : AllOps, mine : 0..MaxPools, then : Places,
   handle : 0..MaxPools, checked : 0..(1 + MaxPub + MaxTasks)]

Idle == [pc |-> "idle", op |-> "get", mine |-> 0, then |-> "idle", handle |-> 0, checked |-> 0]

TypeOK ==
  /\ config \in Configs
  /\ route \in 0..MaxPools
  /\ publication \in 0..MaxPub
  /\ life \in [Pools -> {"unborn", "open", "closed", "dropped"}]
  /\ broken \subseteq Pools
  /\ activity \in {"none", "fresh", "old"}
  /\ preserved \in BOOLEAN
  /\ draining \in Workers \cup {None}
  /\ attempt \in Workers \cup {None}
  /\ task \in 0..MaxTasks
  /\ target \in [Tasks -> 0..MaxPools]
  /\ ka \in [Tasks -> {"none", "loop", "failed", "removed", "clearing", "ended"}]
  /\ taken \in [Tasks -> 0..MaxPools]
  /\ aborted \subseteq Tasks
  /\ bg \subseteq Pools
  /\ accepting \in BOOLEAN
  /\ me \in [Workers -> Worker]
  /\ begun \in 0..MaxOps

Init ==
  /\ config \in Configs
  /\ route = 0
  /\ publication = 0
  /\ life = [p \in Pools |-> "unborn"]
  /\ broken = {}
  /\ activity = "none"
  /\ preserved = FALSE
  /\ draining = None
  /\ attempt = None
  /\ task = 0
  /\ target = [t \in Tasks |-> 0]
  /\ ka = [t \in Tasks |-> "none"]
  /\ taken = [t \in Tasks |-> 0]
  /\ aborted = {}
  /\ bg = {}
  /\ accepting = TRUE
  /\ me = [w \in Workers |-> Idle]
  /\ begun = 0

-----------------------------------------------------------------------------
(* Shared pieces *)

At(w, place) == me[w].pc = place

\* Worker w goes on at place; what it remembered ends with its operation.
Goto(w, place) ==
  me' = [me EXCEPT ![w] = IF place = "idle" THEN Idle ELSE [@ EXCEPT !.pc = place]]

\* Worker w owns pool p (0 for none) and goes on at place.
Hold(w, p, place) == me' = [me EXCEPT ![w].mine = p, ![w].pc = place]

\* Worker w owns pool p, closes it and goes on at place.
CloseThen(w, p, place) ==
  me' = [me EXCEPT ![w].mine = p, ![w].then = place, ![w].checked = 0, ![w].pc = "closing"]

\* should_validate_existing_pool_before_reuse
Validates == config.driver # "agent"

\* KeepaliveTarget::matches_pool: identity where the handle has one
Matches(p) == IF config.driver \in {"mysql", "mongodb"} THEN route # 0 ELSE route = p

\* RunningQueries::is_pool_active: between set_pool_key and the release.  A statement
\* without an execution id ("unlisted") is not known there.
Active == \E w \in Workers : At(w, "running")

\* The two connects carry an attempt and run no statement
Connects(w) == me[w].op \in {"connect", "connectDb"}

\* ensure_current_connection_attempt
AttemptIsCurrent(w) == Connects(w) => attempt = w

\* JoinHandle::abort of the registered keepalive task
AbortKeepalive == aborted \cup {t \in {task} \ {0} : ka[t] # "ended"}

\* TaskSupervisor::stop
StopKeepalive ==
  /\ aborted' = AbortKeepalive
  /\ task' = 0

\* tokio::spawn: the next task, with target p
NewKeepalive(p) ==
  \E t \in Tasks :
    /\ ka[t] = "none"
    /\ \A u \in 1..(t - 1) : ka[u] # "none"
    /\ ka' = [ka EXCEPT ![t] = "loop"]
    /\ target' = [target EXCEPT ![t] = p]
    /\ task' = t

\* Mutant: accepting is not looked at.
SpawnKeepalive_Unchecked(p) == aborted' = AbortKeepalive /\ NewKeepalive(p)

\* stop_keepalive of the key, and TaskSupervisor::spawn_replace with target p
SpawnKeepalive(p) ==
  /\ aborted' = AbortKeepalive
  /\ IF accepting THEN NewKeepalive(p) ELSE task' = 0 /\ UNCHANGED <<target, ka>>

\* close_pool_with_timeout
Close(S) ==
  /\ life' = [p \in Pools |-> IF p \in S THEN "closed" ELSE life[p]]
  /\ broken' = broken \ S

\* The last handles of the pools S are let go
LetGo(S) ==
  /\ life' = [p \in Pools |-> IF p \in S THEN "dropped" ELSE life[p]]
  /\ broken' = broken \ S

\* close_removed_in_background: a supervised task closes the pools S, or, once the
\* supervisor refuses tasks, the handles are let go.
CloseInBackground(S) ==
  IF accepting
  THEN bg' = bg \cup S /\ UNCHANGED pools
  ELSE LetGo(S) /\ UNCHANGED bg

-----------------------------------------------------------------------------
(* The callers *)

\* Where an operation begins
Start(o) ==
  CASE o = "get" -> "wait1"
    [] o \in {"connect", "connectDb", "reconnect", "close", "disconnect", "shutdown"} -> "strip"
    [] o = "sweep" -> "sweepIdle"

CountBegun == begun < MaxOps /\ begun' = begun + 1

\* A worker begins an operation.  A connect begins an attempt of its own, disconnect
\* supersedes the current one.  The sweep reads the marker once, before everything
\* else.  The application is shut down once.
Begin(w, o) ==
  /\ At(w, "idle")
  /\ o \in AllOps \ {"cleanup", "reclaim"}
  /\ o = "shutdown" => accepting /\ \A v \in Workers : me[v].op # "shutdown"
  /\ me' = [me EXCEPT ![w].pc = Start(o), ![w].op = o,
                      ![w].checked = IF o = "sweep" /\ preserved THEN 1 ELSE 0]
  /\ attempt' = CASE o \in {"connect", "connectDb"} -> w
                  [] o = "disconnect" -> None
                  [] OTHER -> attempt
  /\ CountBegun
  /\ UNCHANGED <<config, registry, pools, records, draining, tasks>>

-----------------------------------------------------------------------------
(* get_or_create_pool_for_session_inner *)

\* wait_for_pool_drain
WaitForPoolDrain(w) ==
  /\ me[w].pc \in {"wait1", "wait2", "pubwait"}
  /\ draining = None
  /\ Goto(w, CASE At(w, "wait1") -> "look1"
               [] At(w, "wait2") -> "look2"
               [] At(w, "pubwait") -> "publish")
  /\ UNCHANGED <<config, registry, pools, records, draining, attempts, tasks>>

\* The pool is validated; if it is not removed, worker w goes on at place.
Validate(w, place) == me' = [me EXCEPT ![w].pc = "validate", ![w].then = place]

\* Worker w goes on where it wanted to after its health check.
GoOn(w) ==
  me' = [me EXCEPT ![w].pc = me[w].then, ![w].then = "idle", ![w].handle = 0, ![w].checked = 0]

\* The two looks at the registry before a pool is connected.  With a password that is
\* not saved the pool may be of another session (pool_credential_owner_mismatch): then
\* a new one is connected, whether or not the old one turns out to be stale.
LookUp(w) ==
  /\ \/ At(w, "look1") /\ route = 0 /\ Goto(w, "wait2")
     \/ At(w, "look1") /\ route # 0 /\ ~config.saved /\ Validate(w, "connect")
     \/ At(w, "look1") /\ route # 0 /\ Validates /\ Validate(w, "touch")
     \/ At(w, "look1") /\ route # 0 /\ ~Validates /\ Goto(w, "touch")
     \/ At(w, "look2") /\ route = 0 /\ Goto(w, "connect")
     \/ At(w, "look2") /\ route # 0 /\ Goto(w, "wait1")
  /\ UNCHANGED <<config, registry, pools, records, draining, attempts, tasks>>

\* remove_stale_connection_pool: a busy pool is not checked, nor one that has gone
StaleCheck(w) ==
  /\ At(w, "validate")
  /\ IF Active \/ route = 0
     THEN GoOn(w)
     ELSE me' = [me EXCEPT ![w].handle = route, ![w].checked = publication, ![w].pc = "probe"]
  /\ UNCHANGED <<config, registry, pools, records, draining, attempts, tasks>>

\* The health check of the pool that was current then
HealthCheck(w) ==
  /\ At(w, "probe")
  /\ IF me[w].handle \in broken \/ life[me[w].handle] # "open"
     THEN me' = [me EXCEPT ![w].handle = 0, ![w].pc = "removeStale"]
     ELSE GoOn(w)
  /\ UNCHANGED <<config, registry, pools, records, draining, attempts, tasks>>

\* remove_stale_pool_if_current_inner: under the routing and the activity lock
RemoveStale(w) ==
  /\ At(w, "removeStale")
  /\ IF route # 0 /\ me[w].checked = publication
     THEN /\ route' = 0
          /\ StopKeepalive
          /\ activity' = "none"
          /\ CloseThen(w, route, "connect")
     ELSE GoOn(w) /\ UNCHANGED <<route, task, aborted, activity>>
  /\ UNCHANGED <<config, publication, pools, preserved, draining, attempts, target, ka, taken, bg, accepting>>

\* The driver connects a pool, unless it fails or the attempt is superseded by then
Connect(w) ==
  /\ At(w, "connect")
  /\ \/ /\ AttemptIsCurrent(w)
        /\ \E p \in Pools :
             /\ life[p] = "unborn"
             /\ \A q \in 1..(p - 1) : life[q] # "unborn"
             /\ life' = [life EXCEPT ![p] = "open"]
             /\ Hold(w, p, IF config.driver = "mongodb" /\ me[w].op # "connectDb"
                           THEN "recheck" ELSE "check")
     \/ Goto(w, "idle") /\ UNCHANGED life
  /\ UNCHANGED <<config, registry, broken, records, draining, attempts, tasks>>

\* MongoDB looks once more whether another task has published a pool meanwhile
MongoRecheck(w) ==
  /\ At(w, "recheck")
  /\ IF route # 0 THEN CloseThen(w, me[w].mine, "ready") ELSE Goto(w, "check")
  /\ UNCHANGED <<config, registry, pools, records, draining, attempts, tasks>>

\* The check after it, with discard_stale_connection_attempt_pool
CheckAttempt(w) ==
  /\ At(w, "check")
  /\ IF AttemptIsCurrent(w)
     THEN Goto(w, IF draining = None THEN "publish" ELSE "pubwait")
     ELSE CloseThen(w, me[w].mine, "idle")
  /\ UNCHANGED <<config, registry, pools, records, draining, attempts, tasks>>

\* insert_connection_pool_inner, in the registry's write lock
Insert(p) ==
  /\ publication < MaxPub
  /\ SpawnKeepalive(p)
  /\ activity' = "fresh"
  /\ route' = p
  /\ publication' = publication + 1

\* keep_existing: on demand and with a saved password, not for MongoDB
KeepsExisting(w) ==
  config.saved /\ me[w].op # "connectDb" /\ config.driver # "mongodb"

\* Mutant: the candidate that lost the race is not closed.
PublishCreatedPool_ForgetsCandidate(w) ==
  /\ At(w, "publish")
  /\ \/ /\ route # 0 /\ KeepsExisting(w)
        /\ Hold(w, 0, "touch")
        /\ UNCHANGED <<registry, activity, task, target, ka, aborted>>
     \/ /\ route = 0 \/ ~KeepsExisting(w)
        /\ Insert(me[w].mine)
        /\ IF route = 0 THEN Hold(w, 0, "ready") ELSE CloseThen(w, route, "ready")
  /\ UNCHANGED <<config, pools, preserved, draining, attempts, taken, bg, accepting>>

\* Mutant: a pool that a concurrent request has published is always displaced.
PublishCreatedPool_Displaces(w) ==
  /\ At(w, "publish")
  /\ Insert(me[w].mine)
  /\ IF route = 0 THEN Hold(w, 0, "ready") ELSE CloseThen(w, route, "ready")
  /\ UNCHANGED <<config, pools, preserved, draining, attempts, taken, bg, accepting>>

\* insert_connection_pool_inner: a pool that a concurrent request has published is kept
\* and the candidate closed, or it is displaced and closed, whoever uses it
PublishCreatedPool(w) ==
  /\ At(w, "publish")
  /\ \/ /\ route # 0 /\ KeepsExisting(w)
        /\ CloseThen(w, me[w].mine, "touch")
        /\ UNCHANGED <<registry, activity, task, target, ka, aborted>>
     \/ /\ route = 0 \/ ~KeepsExisting(w)
        /\ Insert(me[w].mine)
        /\ IF route = 0 THEN Hold(w, 0, "ready") ELSE CloseThen(w, route, "ready")
  /\ UNCHANGED <<config, pools, preserved, draining, attempts, taken, bg, accepting>>

\* close_pool_with_timeout of the worker's pool.  A reclamation that restored its pool
\* ends here, and its PoolDrainGuard with it.
ClosePool(w) ==
  /\ At(w, "closing")
  /\ Close({me[w].mine})
  /\ me' = [me EXCEPT ![w] = IF me[w].then = "idle" THEN Idle
                             ELSE [@ EXCEPT !.mine = 0, !.then = "idle", !.pc = me[w].then]]
  /\ draining' = IF me[w].op = "reclaim" THEN None ELSE draining
  /\ UNCHANGED <<config, registry, records, attempts, tasks>>

-----------------------------------------------------------------------------
(* A statement on the pool *)

\* touch_pool_activity of the pool that was found, and, in do_execute, set_pool_key (for
\* a statement with an execution id), touch_pool_activity and pool_handle.
EnterStatement(w) ==
  /\ me[w].pc \in {"touch", "ready"}
  /\ activity' = IF At(w, "ready") /\ Connects(w) THEN activity ELSE "fresh"
  /\ IF Connects(w)
     THEN Goto(w, "idle")
     ELSE \E place \in IF route = 0 THEN {"drop"} ELSE {"running", "unlisted"} :
            me' = [me EXCEPT ![w].handle = route, ![w].pc = place]
  /\ UNCHANGED <<config, registry, pools, preserved, draining, attempts, tasks>>

\* settle_mysql_auto_commit_transaction with preserve_explicit_transaction: the user's
\* transaction is kept, or there is none, or the statement failed and nothing is settled
EndStatement(w) ==
  /\ me[w].pc \in {"running", "unlisted"}
  /\ \/ /\ config.driver = "mysql" /\ life[me[w].handle] = "open"
        /\ preserved' \in BOOLEAN
     \/ UNCHANGED preserved
  /\ me' = [me EXCEPT ![w].handle = 0, ![w].pc = "drop"]
  /\ UNCHANGED <<config, registry, pools, activity, draining, attempts, tasks>>

\* PoolActivityTouch::drop: a supervised task touches a pool that is still routed
DropActivityTouch(w) ==
  /\ At(w, "drop")
  /\ activity' = IF accepting /\ route # 0 THEN "fresh" ELSE activity
  /\ Goto(w, "idle")
  /\ UNCHANGED <<config, registry, pools, preserved, draining, attempts, tasks>>

-----------------------------------------------------------------------------
(* Taking the pool away *)

\* The operations that call remove_connection_pools_detached, and where they go on
Drains(w) == me[w].op \in {"connect", "connectDb", "disconnect", "sweep"}

AfterDrain(w) ==
  CASE me[w].op = "connect" -> "wait1"
    [] me[w].op = "connectDb" -> "connect"
    [] OTHER -> "idle"

\* reconnect, remove_pool_by_key, drain_connection_pools, drain_all_connection_pools:
\* the records go first.  Only remove_pool_by_key clears the marker.  The drains do
\* nothing for a key that is not routed, but shutdown clears every record.
Strip(w) ==
  /\ At(w, "strip")
  /\ IF route = 0 /\ Drains(w)
     THEN Goto(w, AfterDrain(w)) /\ UNCHANGED <<task, aborted, records, draining>>
     ELSE /\ IF route = 0 /\ me[w].op = "shutdown" THEN UNCHANGED <<task, aborted>>
             ELSE StopKeepalive
          /\ activity' = "none"
          /\ preserved' = (preserved /\ me[w].op # "close")
          /\ draining' = IF me[w].op = "shutdown" THEN None ELSE draining
          /\ Goto(w, "unroute")
  /\ UNCHANGED <<config, registry, pools, attempts, target, ka, taken, bg, accepting>>

\* ... and then the pool.  shutdown closes what it has removed later.
Unroute(w) ==
  /\ At(w, "unroute")
  /\ route' = 0
  /\ \/ /\ me[w].op \in {"reconnect", "close"}
        /\ CloseThen(w, route, IF me[w].op = "close" THEN "idle" ELSE "wait1")
        /\ UNCHANGED <<pools, bg>>
     \/ /\ Drains(w)
        /\ CloseInBackground({route} \ {0})
        /\ Goto(w, AfterDrain(w))
     \/ /\ me[w].op = "shutdown"
        /\ Hold(w, route, "refuse")
        /\ UNCHANGED <<pools, bg>>
  /\ UNCHANGED <<config, publication, records, draining, attempts, task, target, ka, taken, aborted, accepting>>

\* ClientSessionPoolCleanupGuard::drop stops the keepalive and spawns the rest
CleanupGuard(w) ==
  /\ At(w, "idle")
  /\ "cleanup" \in Ops
  /\ accepting
  /\ StopKeepalive
  /\ me' = [me EXCEPT ![w].pc = "detach", ![w].op = "cleanup"]
  /\ CountBegun
  /\ UNCHANGED <<config, registry, pools, records, draining, attempt, target, ka, taken, bg, accepting>>

\* detach_pool_by_key: the pool goes first, ...
DetachPoolByKey(w) ==
  /\ At(w, "detach")
  /\ route' = 0
  /\ IF route = 0 THEN Goto(w, "idle") ELSE Hold(w, route, "finish")
  /\ UNCHANGED <<config, publication, pools, records, draining, attempts, tasks>>

\* ... then, in finish_detach, whatever keepalive the key has by now, ...
FinishDetach(w) ==
  /\ At(w, "finish")
  /\ StopKeepalive
  /\ Goto(w, "clear")
  /\ UNCHANGED <<config, registry, pools, records, draining, attempts, target, ka, taken, bg, accepting>>

\* ... and whatever records it has by now
FinishDetachClear(w) ==
  /\ At(w, "clear")
  /\ activity' = "none"
  /\ preserved' = FALSE
  /\ CloseInBackground({me[w].mine})
  /\ Goto(w, "idle")
  /\ UNCHANGED <<config, registry, draining, attempts, task, target, ka, taken, aborted, accepting>>

\* A close task of the supervisor
CloseTask(p) ==
  /\ p \in bg
  /\ bg' = bg \ {p}
  /\ Close({p})
  /\ UNCHANGED <<config, registry, records, draining, attempts, task, target, ka, taken, aborted, accepting, me>>

-----------------------------------------------------------------------------
(* sweep_idle_connections *)

\* A pool with no record of use is left alone
SweepIdle(w) ==
  /\ At(w, "sweepIdle")
  /\ Goto(w, IF route # 0 /\ activity = "old" THEN "sweepActive" ELSE "idle")
  /\ UNCHANGED <<config, registry, pools, records, draining, attempts, tasks>>

\* A busy pool is left alone, and one that held a preserved transaction at the start
SweepActive(w) ==
  /\ At(w, "sweepActive")
  /\ Goto(w, IF Active \/ me[w].checked = 1 THEN "idle" ELSE "strip")
  /\ UNCHANGED <<config, registry, pools, records, draining, attempts, tasks>>

-----------------------------------------------------------------------------
(* reclaim_idle_base_pool_for_session *)

\* Mutant: the keepalive task is taken out and not aborted.
BeginPoolDrain_NoAbort(w) ==
  /\ At(w, "idle")
  /\ "reclaim" \in Ops
  /\ config.driver = "agent"
  /\ route # 0
  /\ ~Active
  /\ draining = None
  /\ draining' = w
  /\ task' = 0
  /\ me' = [me EXCEPT ![w].pc = "halted", ![w].op = "reclaim", ![w].checked = task]
  /\ CountBegun
  /\ UNCHANGED <<config, registry, pools, records, attempt, target, ka, taken, aborted, bg, accepting>>

\* An idle candidate that nobody drains yet: begin_pool_drain, and the first half of
\* stop_keepalive_task_and_wait
BeginPoolDrain(w) ==
  /\ At(w, "idle")
  /\ "reclaim" \in Ops
  /\ config.driver = "agent"
  /\ route # 0
  /\ ~Active
  /\ draining = None
  /\ draining' = w
  /\ StopKeepalive
  /\ me' = [me EXCEPT ![w].pc = "halted", ![w].op = "reclaim", ![w].checked = task]
  /\ CountBegun
  /\ UNCHANGED <<config, registry, pools, records, attempt, target, ka, taken, bg, accepting>>

\* The task has ended: is the pool still idle?
ReclaimCheck(w) ==
  /\ At(w, "halted")
  /\ me[w].checked # 0 => ka[me[w].checked] = "ended"
  /\ Goto(w, IF Active THEN "restart" ELSE "take")
  /\ UNCHANGED <<config, registry, pools, records, draining, attempts, tasks>>

\* Arc::strong_count(client) == 1 in the registry's write lock
ExclusivelyIdle ==
  /\ route # 0
  /\ \A w \in Workers : me[w].handle # route
  /\ \A t \in Tasks : target[t] = route => ka[t] = "ended"

\* try_reclaim_idle_agent_pool
TakeIdle(w) ==
  /\ At(w, "take")
  /\ IF ExclusivelyIdle
     THEN route' = 0 /\ Hold(w, route, "forget")
     ELSE Goto(w, "restart") /\ UNCHANGED route
  /\ UNCHANGED <<config, publication, pools, records, draining, attempts, tasks>>

\* restart_agent_keepalive, and the end of the PoolDrainGuard.  spawn_replace leaves the
\* old task alone when it takes no new one.
RestartKeepalive(w) ==
  /\ At(w, "restart")
  /\ IF route # 0 /\ accepting THEN SpawnKeepalive(route) ELSE UNCHANGED <<task, target, ka, aborted>>
  /\ draining' = None
  /\ Goto(w, "idle")
  /\ UNCHANGED <<config, registry, pools, records, attempts, taken, bg, accepting>>

\* ... and its record of use
ForgetReclaimed(w) ==
  /\ At(w, "forget")
  /\ activity' = "none"
  /\ Goto(w, "disconnecting")
  /\ UNCHANGED <<config, registry, pools, preserved, draining, attempts, tasks>>

\* close_reclaimed_agent_pool: closed (or its runtime replaced), or refused
CloseReclaimed(w) ==
  /\ At(w, "disconnecting")
  /\ \/ /\ Close({me[w].mine})
        /\ draining' = None
        /\ Goto(w, "idle")
     \/ Goto(w, "restore") /\ UNCHANGED <<pools, draining>>
  /\ UNCHANGED <<config, registry, records, attempts, tasks>>

\* restore_reclaimed_agent_pool: neither waits for the drain nor keeps another pool
RestoreReclaimed(w) ==
  /\ At(w, "restore")
  /\ Insert(me[w].mine)
  /\ IF route = 0 THEN Goto(w, "idle") ELSE CloseThen(w, route, "idle")
  /\ draining' = IF route = 0 THEN None ELSE draining
  /\ UNCHANGED <<config, pools, preserved, attempts, taken, bg, accepting>>

-----------------------------------------------------------------------------
(* A keepalive task *)

KeepaliveGoes(t, place) ==
  /\ ka' = [ka EXCEPT ![t] = place]
  /\ aborted' = IF place = "ended" THEN aborted \ {t} ELSE aborted

\* The loop ends when it is aborted or the supervisor is shut down
KeepaliveEnds(t) ==
  /\ ka[t] = "loop"
  /\ t \in aborted \/ ~accepting
  /\ KeepaliveGoes(t, "ended")
  /\ UNCHANGED <<config, registry, pools, records, draining, attempts, task, target, taken, bg, accepting, me>>

\* A probe that proves the pool dead; a busy pool is not probed
KeepaliveFails(t) ==
  /\ ka[t] = "loop"
  /\ t \notin aborted
  /\ ~Active
  /\ target[t] \in broken \/ life[target[t]] # "open"
  /\ KeepaliveGoes(t, "failed")
  /\ UNCHANGED <<config, registry, pools, records, draining, attempts, task, target, taken, bg, accepting, me>>

\* detach_keepalive_target_if_current
KeepaliveDetach(t) ==
  /\ ka[t] = "failed"
  /\ IF Matches(target[t])
     THEN /\ taken' = [taken EXCEPT ![t] = route]
          /\ route' = 0
          /\ KeepaliveGoes(t, "removed")
     ELSE KeepaliveGoes(t, "ended") /\ UNCHANGED <<route, taken>>
  /\ UNCHANGED <<config, publication, pools, records, draining, attempts, task, target, bg, accepting, me>>

\* finish_detach: the task stops the key's keepalive, which is itself or a newer one
KeepaliveStopsKey(t) ==
  /\ ka[t] = "removed"
  /\ task' = 0
  /\ aborted' = AbortKeepalive
  /\ ka' = [ka EXCEPT ![t] = "clearing"]
  /\ UNCHANGED <<config, registry, pools, records, draining, attempts, target, taken, bg, accepting, me>>

\* ... and clears the key's records and closes what it has taken
KeepaliveClear(t) ==
  /\ ka[t] = "clearing"
  /\ activity' = "none"
  /\ preserved' = FALSE
  /\ CloseInBackground({taken[t]})
  /\ taken' = [taken EXCEPT ![t] = 0]
  /\ KeepaliveGoes(t, "ended")
  /\ UNCHANGED <<config, registry, draining, attempts, task, target, accepting, me>>

\* An aborted task that has to wait for a lock ends there and lets its pool go
KeepaliveCancelled(t) ==
  /\ t \in aborted
  /\ ka[t] \in {"failed", "clearing"}
  /\ LetGo({taken[t]} \ {0})
  /\ taken' = [taken EXCEPT ![t] = 0]
  /\ KeepaliveGoes(t, "ended")
  /\ UNCHANGED <<config, registry, records, draining, attempts, task, target, bg, accepting, me>>

-----------------------------------------------------------------------------
(* AppState::shutdown, after its drain: TaskSupervisor::shutdown and close_removed *)

\* The supervisor stops accepting tasks and cancels its token ...
RefuseTasks(w) ==
  /\ At(w, "refuse")
  /\ accepting' = FALSE
  /\ Goto(w, "takeTasks")
  /\ UNCHANGED <<config, registry, pools, records, draining, attempts, task, target, ka, taken, aborted, bg>>

\* ... the registered tasks are taken out ...
TakeTasks(w) ==
  /\ At(w, "takeTasks")
  /\ me' = [me EXCEPT ![w].checked = task, ![w].pc = "join"]
  /\ task' = 0
  /\ UNCHANGED <<config, registry, pools, records, draining, attempts, target, ka, taken, aborted, bg, accepting>>

\* ... and they have ended, or the supervisor's deadline has passed and they are aborted
JoinTasks(w) ==
  /\ At(w, "join")
  /\ LET left == {t \in {me[w].checked} \ {0} : ka[t] # "ended"} IN
     \/ left = {} /\ bg = {} /\ UNCHANGED <<pools, bg, aborted>>
     \/ /\ aborted' = aborted \cup left
        /\ LetGo(bg)
        /\ bg' = {}
  /\ Goto(w, "joined")
  /\ UNCHANGED <<config, registry, records, draining, attempts, task, target, ka, taken, accepting>>

\* Meanwhile close_removed closes the pool that the drain has removed
CloseRemoved(w) ==
  /\ me[w].pc \in {"join", "joined"}
  /\ me[w].mine # 0
  /\ Close({me[w].mine})
  /\ Hold(w, 0, me[w].pc)
  /\ UNCHANGED <<config, registry, records, draining, attempts, tasks>>

\* Both have ended, or the outer timeout, of the same length but armed before, drops
\* what is left of them: the removed pool is let go, and a supervisor that still waits
\* lets the handles of its tasks go without aborting them.
ShutdownEnds(w) ==
  /\ me[w].pc \in {"join", "joined"}
  /\ LetGo({me[w].mine} \ {0})
  /\ Hold(w, 0, IF At(w, "joined") THEN "down" ELSE "cutOff")
  /\ UNCHANGED <<config, registry, records, draining, attempts, tasks>>

-----------------------------------------------------------------------------
(* The environment *)

\* The server, the network or the agent fails
Break(p) ==
  /\ life[p] = "open"
  /\ p \notin broken
  /\ broken' = broken \cup {p}
  /\ UNCHANGED <<config, registry, life, records, draining, attempts, tasks, me>>

\* idle_disconnect_secs pass without a use
TimePasses ==
  /\ "sweep" \in Ops
  /\ activity = "fresh"
  /\ activity' = "old"
  /\ UNCHANGED <<config, registry, pools, preserved, draining, attempts, tasks, me>>

-----------------------------------------------------------------------------
GetStep(w) ==
  \/ WaitForPoolDrain(w) \/ LookUp(w) \/ StaleCheck(w) \/ HealthCheck(w)
  \/ RemoveStale(w) \/ Connect(w) \/ MongoRecheck(w) \/ CheckAttempt(w)
  \/ PublishCreatedPool(w) \/ ClosePool(w)

StatementStep(w) == EnterStatement(w) \/ EndStatement(w) \/ DropActivityTouch(w)

TakeAwayStep(w) ==
  \/ Strip(w) \/ Unroute(w) \/ DetachPoolByKey(w) \/ FinishDetach(w)
  \/ FinishDetachClear(w) \/ SweepIdle(w) \/ SweepActive(w)

ReclaimStep(w) ==
  \/ ReclaimCheck(w) \/ TakeIdle(w) \/ RestartKeepalive(w) \/ ForgetReclaimed(w)
  \/ CloseReclaimed(w) \/ RestoreReclaimed(w)

ShutdownStep(w) ==
  RefuseTasks(w) \/ TakeTasks(w) \/ JoinTasks(w) \/ CloseRemoved(w) \/ ShutdownEnds(w)

WorkerStep(w) ==
  GetStep(w) \/ StatementStep(w) \/ TakeAwayStep(w) \/ ReclaimStep(w) \/ ShutdownStep(w)

BeginStep(w) == CleanupGuard(w) \/ BeginPoolDrain(w) \/ \E o \in Ops : Begin(w, o)

KeepaliveStep(t) ==
  \/ KeepaliveEnds(t) \/ KeepaliveFails(t) \/ KeepaliveDetach(t)
  \/ KeepaliveStopsKey(t) \/ KeepaliveClear(t) \/ KeepaliveCancelled(t)

Next ==
  \/ \E w \in Workers : WorkerStep(w) \/ BeginStep(w)
  \/ \E t \in Tasks : KeepaliveStep(t)
  \/ \E p \in Pools : CloseTask(p) \/ Break(p)
  \/ TimePasses

Spec == Init /\ [][Next]_vars

-----------------------------------------------------------------------------
(* Properties *)

\* The places that hold pool p and have to route it or close it
Owners(p) ==
  {<<"worker", w>> : w \in {v \in Workers : me[v].mine = p}}
    \cup {<<"keepalive", t>> : t \in {u \in Tasks : taken[u] = p}}
    \cup (IF route = p THEN {<<"registry", p>>} ELSE {})
    \cup (IF p \in bg THEN {<<"close", p>>} ELSE {})

\* Every connected pool has exactly one owner and every other pool has none, in every
\* interleaving of creators, removals, keepalive tasks and shutdown: the routing
\* registry, the task that connected it or took it out of the registry, or a close task.
\* A pool with no owner is a leaked connection (a creator that loses the race in
\* publish_created_pool must close its candidate); a closed pool with an owner would be
\* handed out or closed again.
OneOwner ==
  /\ TypeOK
  /\ \A p \in Pools :
       IF life[p] = "open" THEN \E o \in Owners(p) : Owners(p) = {o} ELSE Owners(p) = {}

\* Worker w runs a statement on pool p, registered with RunningQueries or not.
Uses(w, p) == me[w].pc \in {"running", "unlisted"} /\ me[w].handle = p

\* A sound pool with a statement on it stays routed, unless somebody
\*  - takes the key away on purpose: reconnect, close, the drain of either connect, of
\*    disconnect and of shutdown, the sweep, or the cleanup of a session;
\*  - publishes without keep_existing: the desktop's connect (and that of web plugin
\*    connections), a connection whose password is not saved, or MongoDB;
\*  - puts a pool back after a refused reclamation, or detaches the key after a failed
\*    probe that has no identity to compare (mysql, mongodb).
\* In particular a pool created on demand with a saved password never displaces one that
\* a concurrent request has published and uses, no health check removes a pool that was
\* published since it began (remove_stale_pool_if_current_inner), not even under a
\* statement RunningQueries does not know, and a reclamation does not take a pool that is
\* in use (try_reclaim_idle_agent_pool).
UsedPoolStays ==
  [][ (/\ route # 0
       /\ route' # route
       /\ route \notin broken
       /\ \E w \in Workers : Uses(w, route))
      => \/ \E w \in Workers :
              /\ \/ me[w].pc \in {"unroute", "detach", "restore"}
                 \/ At(w, "publish") /\ ~KeepsExisting(w)
              /\ me'[w] # me[w]
         \/ /\ config.driver \in {"mysql", "mongodb"}
            /\ \E t \in Tasks : ka[t] = "failed" /\ ka'[t] = "removed" ]_vars

\* Keepalive task t is over, or will be at its next await.
Stopped(t) == ka[t] \in {"none", "ended"} \/ t \in aborted

\* When TaskSupervisor::shutdown has returned, no task is left that nobody has aborted:
\* none is registered, no close task is pending, and a keepalive task that has not ended
\* is aborted, although creators publish pools while the shutdown runs (the supervisor
\* reads accepting in the lock of its tasks).  When AppState::shutdown is cut off by its
\* own timeout before that, the tasks it awaited go on unaborted, but still none is
\* registered and no other one runs: nobody slips in a task after they were taken out.
NoTaskOutlivesShutdown ==
  \A w \in Workers :
    /\ me[w].pc \in {"joined", "down"} => task = 0 /\ bg = {} /\ \A t \in Tasks : Stopped(t)
    /\ At(w, "cutOff") => task = 0 /\ \A t \in Tasks : Stopped(t) \/ t = me[w].checked

\* Who waits is woken: a request in wait_for_pool_drain waits for a reclamation that
\* is still running and lifts the drain when it ends, and a reclamation in
\* stop_keepalive_task_and_wait waits for a task that has ended or is aborted.
WaitersHaveWakers ==
  /\ draining # None => me[draining].op = "reclaim"
  /\ \A w \in Workers :
       At(w, "halted") /\ me[w].checked # 0 =>
         ka[me[w].checked] = "ended" \/ me[w].checked \in aborted
=============================================================================
