------------------------- MODULE ManualTransaction -------------------------
(***************************************************************************)
(* One interactive SQL Server transaction, from begin to the record of its *)
(* outcome (crates/dbx-core/src/query/sqlserver_manual_transaction.rs):    *)
(* the entry in transaction_sessions, the mutex around its dedicated       *)
(* connection, the record in EndedSessions, and everyone who touches them: *)
(* requests that may be dropped where they wait, the task of a dropped     *)
(* request's ExecutionGuard, the idle watcher and a disconnect.            *)
(*                                                                         *)
(* The connection carries one command at a time.  The server answers it    *)
(* or not; a command whose answer nobody has read stays outstanding, and   *)
(* the server may still carry it out.                                      *)
(***************************************************************************)
EXTENDS Integers

CONSTANTS
  Calls,    \* requests in flight at a time
  Watch,    \* the idle watcher
  Disc,     \* the disconnect
  Guard,    \* the task that a dropped ExecutionGuard spawns
  None

Tasks == Calls \cup {Watch, Disc, Guard}

ASSUME TasksAssumption ==
  /\ None \notin Tasks
  /\ Watch \notin Calls \cup {Disc, Guard}
  /\ Disc \notin Calls \cup {Guard}
  /\ Guard \notin Calls

VARIABLES
  begun,      \* begin was called
  entry,      \* transaction_sessions: "absent", "idle", "busy"
  stale,      \* last_activity is older than idle_timeout
  cancelled,  \* the lifecycle of the session's connection is cancelled
  record,     \* EndedSessions: "none", "unknown", "committed", "rolledBack"
  lock,       \* the task that holds the connection mutex
  released,   \* release_manual_txn_session_pool has detached the connection
  server,     \* what became of the transaction at the server
  sent,       \* the command whose answer has not been read
  answer,     \* the server's answer to it
  task,       \* task -> place and local variables
  reply       \* call -> what its last request was told of the outcome

session == <<begun, entry, stale, cancelled>>
wire == <<server, sent, answer>>
vars == <<session, record, lock, released, wire, task, reply>>

Known == {"committed", "rolledBack"}

\* ends: an execute finds the session expired or its context changed; discard: the
\* cleanup sends no ROLLBACK; finish: the command of a finish, "none" otherwise;
\* result: the outcome to record
Idle == [pc |-> "idle", ends |-> FALSE, discard |-> FALSE, finish |-> "none", result |-> "unknown"]

TypeOK ==
  /\ begun \in BOOLEAN
  /\ entry \in {"absent", "idle", "busy"}
  /\ stale \in BOOLEAN
  /\ cancelled \in BOOLEAN
  /\ record \in {"none", "unknown"} \cup Known
  /\ lock \in Tasks \cup {None}
  /\ released \in BOOLEAN
  /\ server \in {"none", "open"} \cup Known
  /\ sent \in {"none", "begin", "batch", "commit", "rollback"}
  /\ answer \in {"none", "ok", "error"}
  /\ task \in [Tasks -> [pc : {"idle", "opening", "insert", "lock", "run", "ran", "failed", "cleanup",
                               "rollback", "settle", "send", "take", "interrupt", "gone"},
                         ends : BOOLEAN, discard : BOOLEAN, finish : {"none", "commit", "rollback"},
                         result : {"unknown"} \cup Known]]
  /\ reply \in [Calls -> {"unknown"} \cup Known]

Init ==
  /\ begun = FALSE
  /\ entry = "absent"
  /\ stale = FALSE
  /\ cancelled = FALSE
  /\ record = "none"
  /\ lock = None
  /\ released = FALSE
  /\ server = "none"
  /\ sent = "none"
  /\ answer = "none"
  /\ task = [t \in Tasks |-> Idle]
  /\ reply = [c \in Calls |-> "unknown"]

-----------------------------------------------------------------------------
\* Task t is at place, and goes there
At(t, place) == task[t].pc = place

Goto(t, place) == task' = [task EXCEPT ![t].pc = place]

\* The cleanup of the session by task t, with ROLLBACK or without
Cleanup(t, discard) == task' = [task EXCEPT ![t].pc = "cleanup", ![t].discard = discard]

\* Task t is over; a call is told outcome
Over(t, outcome) ==
  /\ task' = [task EXCEPT ![t] = IF t \in Calls THEN Idle ELSE [Idle EXCEPT !.pc = "gone"]]
  /\ reply' = IF t \in Calls THEN [reply EXCEPT ![t] = outcome] ELSE reply

\* Task t lets the connection mutex go, if it holds it
Unlock(t) == lock' = IF lock = t THEN None ELSE lock

\* The connection lives while it is routed or somebody holds the session
Connected ==
  /\ begun
  /\ ~released
  /\ entry # "absent" \/ \E t \in Tasks : task[t].pc \notin {"idle", "take", "gone"}

\* EndedSessions::missing: no record means an unknown outcome
Missing == IF record = "none" THEN "unknown" ELSE record

\* A command on the connection
Send(command) == sent' = command /\ answer' = "none"

\* The server has answered it
Answered == answer # "none"

\* The answer has been read, the connection is free again
Read == sent' = "none" /\ answer' = "none"

-----------------------------------------------------------------------------
(* begin *)

\* The lifecycle, the dedicated connection and BEGIN TRANSACTION
BeginCall(c) ==
  /\ ~begun
  /\ At(c, "idle")
  /\ begun' = TRUE
  /\ Send("begin")
  /\ Goto(c, "opening")
  /\ UNCHANGED <<entry, stale, cancelled, record, lock, released, server, reply>>

\* BEGIN is acknowledged; or it fails, times out or meets the end of the lifecycle,
\* and the connection is dropped whatever the server has done
BeginResult(c) ==
  /\ At(c, "opening")
  /\ \/ /\ Answered /\ answer = "ok" /\ ~cancelled
        /\ Read
        /\ Goto(c, "insert")
        /\ UNCHANGED <<released, reply>>
     \/ /\ released' = TRUE
        /\ Over(c, "unknown")
        /\ UNCHANGED <<sent, answer>>
  /\ UNCHANGED <<session, record, lock, server>>

\* Mutant: the lifecycle is not checked when the session is inserted.
BeginInsert_AnyLifecycle(c) ==
  /\ At(c, "insert")
  /\ entry' = "idle"
  /\ Over(c, "unknown")
  /\ UNCHANGED <<begun, stale, cancelled, record, lock, released, wire>>

\* The write lock of transaction_sessions: only while the lifecycle is current
BeginInsert(c) ==
  /\ At(c, "insert")
  /\ entry' = IF cancelled THEN "absent" ELSE "idle"
  /\ Over(c, "unknown")
  /\ UNCHANGED <<begun, stale, cancelled, record, lock, released, wire>>

-----------------------------------------------------------------------------
(* execute *)

\* The session is looked up and marked busy; expired or with a changed context it is
\* only there to be ended
ExecuteCall(c) ==
  /\ begun
  /\ At(c, "idle")
  /\ \/ /\ entry # "idle"
        /\ reply' = [reply EXCEPT ![c] = IF entry = "absent" THEN Missing ELSE "unknown"]
        /\ UNCHANGED <<entry, task>>
     \/ /\ entry = "idle"
        /\ entry' = "busy"
        /\ \E contextChanged \in BOOLEAN :
             task' = [task EXCEPT ![c].pc = "lock", ![c].ends = contextChanged \/ stale]
        /\ UNCHANGED reply
  /\ UNCHANGED <<begun, stale, cancelled, record, lock, released, wire>>

\* The connection mutex: the session is ended, refused by the read-only check, or the
\* batch is sent
ExecuteLock(c) ==
  /\ At(c, "lock")
  /\ task[c].finish = "none"
  /\ lock = None
  /\ \/ /\ task[c].ends \/ cancelled
        /\ entry' = "absent"
        /\ lock' = c
        /\ Cleanup(c, FALSE)
        /\ UNCHANGED <<sent, answer, reply>>
     \/ /\ ~task[c].ends /\ ~cancelled
        /\ entry' = IF entry = "busy" THEN "idle" ELSE entry
        /\ Over(c, "unknown")
        /\ UNCHANGED <<lock, sent, answer>>
     \/ /\ ~task[c].ends /\ ~cancelled
        /\ lock' = c
        /\ Send("batch")
        /\ Goto(c, "run")
        /\ UNCHANGED <<entry, reply>>
  /\ UNCHANGED <<begun, stale, cancelled, record, released, server>>

\* The answer.  A batch that has ended the transaction is an interruption, as a lost
\* connection is (require_native_transaction).
ExecuteResult(c) ==
  /\ At(c, "run")
  /\ ~cancelled
  /\ Answered
  /\ Read
  /\ task' = [task EXCEPT ![c].pc = IF answer = "ok" /\ server = "open" THEN "ran" ELSE "failed",
                          ![c].discard = answer = "ok"]
  /\ UNCHANGED <<session, record, lock, released, server, reply>>

\* The lifecycle ends under the batch
ExecuteDisconnected(c) ==
  /\ At(c, "run")
  /\ cancelled
  /\ task' = [task EXCEPT ![c].pc = "failed", ![c].discard = TRUE]
  /\ UNCHANGED <<session, record, lock, released, wire, reply>>

\* The query times out, is cancelled by the user, or loses its connection
ExecuteInterrupted(c) ==
  /\ At(c, "run")
  /\ task' = [task EXCEPT ![c].pc = "failed", ![c].discard = TRUE]
  /\ UNCHANGED <<session, record, lock, released, wire, reply>>

\* The results, unless the session has been taken away meanwhile
ExecuteOk(c) ==
  /\ At(c, "ran")
  /\ entry' = IF entry = "busy" THEN "idle" ELSE entry
  /\ stale' = FALSE
  /\ Over(c, "unknown")
  /\ Unlock(c)
  /\ UNCHANGED <<begun, cancelled, record, released, wire>>

\* An error ends the session
ExecuteFailed(c) ==
  /\ At(c, "failed")
  /\ entry' = "absent"
  /\ Goto(c, "cleanup")
  /\ UNCHANGED <<begun, stale, cancelled, record, lock, released, wire, reply>>

-----------------------------------------------------------------------------
(* cleanup_failure, and the same steps of the idle watcher *)

\* ROLLBACK, unless the connection is to be discarded
CleanupStart(t) ==
  /\ At(t, "cleanup")
  /\ IF task[t].discard
     THEN Goto(t, "settle") /\ UNCHANGED <<sent, answer>>
     ELSE Goto(t, "rollback") /\ Send("rollback")
  /\ UNCHANGED <<session, record, lock, released, server, reply>>

\* ROLLBACK is acknowledged, or it fails or times out
CleanupResult(t) ==
  /\ At(t, "rollback")
  /\ \/ /\ Answered
        /\ Read
        /\ task' = [task EXCEPT ![t].pc = "settle",
                                ![t].result = IF answer = "ok" THEN "rolledBack" ELSE "unknown"]
     \/ Goto(t, "settle") /\ UNCHANGED <<sent, answer>>
  /\ UNCHANGED <<session, record, lock, released, server, reply>>

\* The connection is released and the outcome recorded
CleanupRecord(t) ==
  /\ At(t, "settle")
  /\ released' = TRUE
  /\ record' = task[t].result
  /\ Over(t, task[t].result)
  /\ Unlock(t)
  /\ UNCHANGED <<session, wire>>

-----------------------------------------------------------------------------
(* finish *)

\* The session is taken out of the map
FinishCall(c, command) ==
  /\ begun
  /\ At(c, "idle")
  /\ \/ /\ entry # "idle"
        /\ reply' = [reply EXCEPT ![c] = IF entry = "absent" THEN Missing ELSE "unknown"]
        /\ UNCHANGED <<entry, task>>
     \/ /\ entry = "idle"
        /\ entry' = "absent"
        /\ task' = [task EXCEPT ![c].pc = "lock", ![c].finish = command]
        /\ UNCHANGED reply
  /\ UNCHANGED <<begun, stale, cancelled, record, lock, released, wire>>

\* Mutant: the outcome is recorded before the server has answered.
FinishLock_RecordsFirst(c) ==
  /\ At(c, "lock")
  /\ task[c].finish # "none"
  /\ lock = None
  /\ lock' = c
  /\ \/ /\ cancelled \/ stale
        /\ Cleanup(c, FALSE)
        /\ UNCHANGED <<record, sent, answer>>
     \/ /\ ~cancelled /\ ~stale
        /\ record' = IF task[c].finish = "commit" THEN "committed" ELSE "rolledBack"
        /\ Send(task[c].finish)
        /\ Goto(c, "send")
  /\ UNCHANGED <<session, released, server, reply>>

\* It is too late, or the outcome is unknown from here and the command is sent
FinishLock(c) ==
  /\ At(c, "lock")
  /\ task[c].finish # "none"
  /\ lock = None
  /\ lock' = c
  /\ \/ /\ cancelled \/ stale
        /\ Cleanup(c, FALSE)
        /\ UNCHANGED <<record, sent, answer>>
     \/ /\ ~cancelled /\ ~stale
        /\ record' = "unknown"
        /\ Send(task[c].finish)
        /\ Goto(c, "send")
  /\ UNCHANGED <<session, released, server, reply>>

\* Only an acknowledgement is recorded as a known outcome
FinishResult(c) ==
  /\ At(c, "send")
  /\ \/ /\ Answered
        /\ Read
        /\ LET outcome == IF answer = "error" THEN "unknown"
                          ELSE IF task[c].finish = "commit" THEN "committed" ELSE "rolledBack" IN
           /\ record' = IF outcome = "unknown" THEN record ELSE outcome
           /\ task' = [task EXCEPT ![c].pc = "settle", ![c].result = outcome]
     \/ Goto(c, "settle") /\ UNCHANGED <<record, sent, answer>>
  /\ UNCHANGED <<session, lock, released, server, reply>>

-----------------------------------------------------------------------------
(* A request that is dropped where it waits, and its ExecutionGuard *)

\* The future is dropped; an execute leaves the rest to the task of its guard
DropCall(c) ==
  /\ ~At(c, "idle")
  /\ task' = [task EXCEPT ![c] = Idle,
                          ![Guard].pc = IF task[c].finish = "none" /\ task[c].pc \notin {"opening", "insert"}
                                        THEN "take" ELSE @]
  /\ Unlock(c)
  /\ UNCHANGED <<session, record, released, wire, reply>>

\* Mutant: the interrupted session is made available again.
GuardTakes_Resets ==
  /\ At(Guard, "take")
  /\ entry' = IF entry = "busy" THEN "idle" ELSE entry
  /\ task' = [task EXCEPT ![Guard] = Idle]
  /\ UNCHANGED <<begun, stale, cancelled, record, lock, released, wire, reply>>

\* Whoever finds the session in the map has to end it
GuardTakes ==
  /\ At(Guard, "take")
  /\ entry' = "absent"
  /\ IF entry = "absent"
     THEN task' = [task EXCEPT ![Guard] = Idle] /\ UNCHANGED record
     ELSE Goto(Guard, "interrupt") /\ record' = "unknown"
  /\ UNCHANGED <<begun, stale, cancelled, lock, released, wire, reply>>

\* interrupt_fixed_connection in the mutex, and the connection is dropped
GuardInterrupts ==
  /\ At(Guard, "interrupt")
  /\ lock = None
  /\ task' = [task EXCEPT ![Guard] = Idle]
  /\ UNCHANGED <<session, record, lock, released, wire, reply>>

-----------------------------------------------------------------------------
(* invalidate_connection_lifecycle and rollback_manual_transaction_sessions *)

\* Mutant: the lifecycle is not cancelled.
DiscInvalidates_NoCancel ==
  /\ begun
  /\ At(Disc, "idle")
  /\ Goto(Disc, "take")
  /\ UNCHANGED <<session, record, lock, released, wire, reply>>

\* The lifecycle is cancelled first ...
DiscInvalidates ==
  /\ begun
  /\ At(Disc, "idle")
  /\ cancelled' = TRUE
  /\ Goto(Disc, "take")
  /\ UNCHANGED <<begun, entry, stale, record, lock, released, wire, reply>>

\* ... then the sessions are taken out of the map ...
DiscTakes ==
  /\ At(Disc, "take")
  /\ entry' = "absent"
  /\ IF entry = "absent"
     THEN Goto(Disc, "gone") /\ UNCHANGED record
     ELSE /\ task' = [task EXCEPT ![Disc].pc = "lock", ![Disc].discard = entry = "busy"]
          /\ record' = "unknown"
  /\ UNCHANGED <<begun, stale, cancelled, lock, released, wire, reply>>

\* ... and the mutex is taken, once an executing request has let it go
DiscLock ==
  /\ At(Disc, "lock")
  /\ lock = None
  /\ lock' = Disc
  /\ Goto(Disc, "cleanup")
  /\ UNCHANGED <<session, record, released, wire, reply>>

-----------------------------------------------------------------------------
(* The idle watcher *)

\* A session that is idle for too long is taken out of the map ...
WatchTakes ==
  /\ At(Watch, "idle")
  /\ entry = "idle"
  /\ stale
  /\ entry' = "absent"
  /\ record' = "unknown"
  /\ Goto(Watch, "lock")
  /\ UNCHANGED <<begun, stale, cancelled, lock, released, wire, reply>>

\* ... and rolled back
WatchLock ==
  /\ At(Watch, "lock")
  /\ lock = None
  /\ lock' = Watch
  /\ Cleanup(Watch, FALSE)
  /\ UNCHANGED <<session, record, released, wire, reply>>

-----------------------------------------------------------------------------
(* The server *)

\* The server carries out the outstanding command and answers.  A batch may end the
\* transaction by itself; COMMIT and ROLLBACK fail where there is none.
Serve ==
  /\ sent # "none"
  /\ ~Answered
  /\ \/ sent = "begin" /\ server' = "open" /\ answer' = "ok"
     \/ sent = "batch" /\ server = "open" /\ answer' = "ok" /\ server' \in {"open"} \cup Known
     \/ sent = "batch" /\ server = "open" /\ answer' = "error" /\ server' \in {"open", "rolledBack"}
     \/ sent = "commit" /\ server = "open" /\ answer' = "ok" /\ server' = "committed"
     \/ sent = "rollback" /\ server = "open" /\ answer' = "ok" /\ server' = "rolledBack"
     \/ answer' = "error" /\ UNCHANGED server
  /\ UNCHANGED <<session, record, lock, released, sent, task, reply>>

\* A transaction ends with its connection, ...
ServerDrops ==
  /\ server = "open"
  /\ ~Connected
  /\ server' = "rolledBack"
  /\ UNCHANGED <<session, record, lock, released, sent, answer, task, reply>>

\* ... it is killed, or the server stops
ServerAborts ==
  /\ server = "open"
  /\ Connected
  /\ server' = "rolledBack"
  /\ UNCHANGED <<session, record, lock, released, sent, answer, task, reply>>

\* idle_timeout passes without a use
Ages ==
  /\ entry # "absent"
  /\ ~stale
  /\ stale' = TRUE
  /\ UNCHANGED <<begun, entry, cancelled, record, lock, released, wire, task, reply>>

\* EndedSessions::prune, after ENDED_SESSION_RETENTION or at MAX_ENDED_SESSIONS
Prune ==
  /\ record # "none"
  /\ record' = "none"
  /\ UNCHANGED <<session, lock, released, wire, task, reply>>

-----------------------------------------------------------------------------
Call(c) ==
  \/ BeginCall(c) \/ ExecuteCall(c)
  \/ \E command \in {"commit", "rollback"} : FinishCall(c, command)

CleanupStep(t) == CleanupStart(t) \/ CleanupResult(t) \/ CleanupRecord(t)

CallStep(c) ==
  \/ BeginResult(c) \/ BeginInsert(c)
  \/ ExecuteLock(c) \/ ExecuteResult(c) \/ ExecuteDisconnected(c) \/ ExecuteOk(c) \/ ExecuteFailed(c)
  \/ FinishLock(c) \/ FinishResult(c)
  \/ CleanupStep(c)

DiscStep == DiscTakes \/ DiscLock \/ CleanupStep(Disc)

WatchStep == WatchTakes \/ WatchLock \/ CleanupStep(Watch)

GuardStep == GuardTakes \/ GuardInterrupts

Next ==
  \/ \E c \in Calls : Call(c) \/ CallStep(c) \/ ExecuteInterrupted(c) \/ DropCall(c)
  \/ DiscInvalidates \/ DiscStep \/ WatchStep \/ GuardStep
  \/ Serve \/ ServerDrops \/ ServerAborts \/ Ages \/ Prune

Spec == Init /\ [][Next]_vars

\* Tasks that can go on do so, and every wait but that for a batch has a timeout.  A
\* server that does not answer a batch, users and time owe nothing.
Fairness ==
  /\ \A c \in Calls : WF_vars(CallStep(c))
  /\ WF_vars(DiscStep) /\ WF_vars(WatchStep) /\ WF_vars(GuardStep)
  /\ WF_vars(ServerDrops)

FairSpec == Spec /\ Fairness

-----------------------------------------------------------------------------
(* Properties *)

\* A known outcome is true, in the record for late callers and in what any request was
\* told: "Only acknowledged COMMIT/ROLLBACK responses establish a known database
\* outcome" (the module's header), whatever timed out, was dropped or was taken away
\* on the way, and although batches may end the transaction themselves.
KnownIsTrue ==
  /\ TypeOK
  /\ record \in Known => record = server
  /\ \A c \in Calls : reply[c] \in Known => reply[c] = server

\* A task that has sent a command and waits for its answer
Waits(local) == local.pc \in {"opening", "run", "rollback", "send"}

\* No command is sent on a connection whose last answer was not read ("never issue
\* another command on an interrupted response stream"): a request that was dropped or
\* timed out leaves the session to those who discard it.
NeverOnPoisoned ==
  [][ \A t \in Tasks :
        ~Waits(task[t]) /\ Waits(task'[t]) => sent = "none" ]_vars

\* When a disconnect has gone through the sessions, this one is not there and does not
\* come back, not even from a begin that was under way (the lifecycle is checked in
\* the write lock that inserts it).
GoneAfterDisconnect == task[Disc].pc \notin {"idle", "take"} => entry = "absent"

\* A session that has left the map lets its connection go, so that its transaction
\* does not stay open, even when the server never answers the batch: a disconnect
\* cancels the request whose mutex it waits for.
EndedIsReleased ==
  (begun /\ entry = "absent" /\ \A c \in Calls : task[c].pc \notin {"opening", "insert"}) ~> ~Connected
=============================================================================
