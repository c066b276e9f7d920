---------------------------- MODULE McpSessions ----------------------------
(***************************************************************************)
(* The stateful sessions of the MCP server: McpSessionStore                *)
(* (crates/dbx-mcp/src/session.rs) and the tool calls, cleanup workers and *)
(* opening workers of DbxMcpServer (server.rs) that use it, with the drain *)
(* of the HTTP endpoint at shutdown (http.rs).                             *)
(*                                                                         *)
(* A tool call may be cancelled wherever it waits; the workers it has      *)
(* spawned go on.  Every call of the store is one step, because the store  *)
(* has one mutex, and what a task does after it without waiting belongs to *)
(* that step.  A transaction owner is seen from outside: it is open, ends  *)
(* once it is cancelled or on its own, and is closed after that (module    *)
(* TransactionOwner).  The pools the sessions pin are those of module      *)
(* ConnectionPools; here closing one succeeds or fails.                    *)
(***************************************************************************)
EXTENDS Integers, FiniteSets

CONSTANTS
  Requests,     \* tool calls in flight at a time
  MaxIds,       \* bound: sessions ever created
  MaxSessions,  \* MAX_SESSIONS
  MaxOwners     \* permits of "dbx-mcp-transaction-owners"

ASSUME ConstantsAssumption ==
  /\ MaxIds \in Nat
  /\ MaxSessions \in Nat \ {0}
  /\ MaxOwners \in Nat \ {0}

Sessions == 1..MaxIds

VARIABLES
  place,    \* session -> the map of McpSessionState that holds it
  tx,       \* sessions opened with enable_transactions
  stale,    \* active sessions that have been idle for idle_ttl
  owner,    \* session -> its transaction owner
  opener,   \* session -> place of its spawn_transaction_session_open worker
  cleaner,  \* session -> place of its spawn_session_cleanup worker
  drainer,  \* session -> place of the cleanup worker the shutdown has spawned
  req,      \* request -> its place, its session and the workers it waits for
  phase,    \* "serving" or "draining" (close_http_sessions_bounded)
  dropped   \* sessions whose call was cancelled before it spawned their worker

store == <<place, stale>>
workers == <<opener, cleaner, drainer>>
vars == <<store, tx, owner, workers, req, phase, dropped>>

Maps == {"opening", "active", "closing"}
Idle == [pc |-> "idle", s |-> 0, waits |-> {}]

TypeOK ==
  /\ place \in [Sessions -> Maps \cup {"new", "gone"}]
  /\ tx \subseteq Sessions
  /\ stale \subseteq Sessions
  /\ owner \in [Sessions -> {"none", "open", "ending", "closed"}]
  /\ opener \in [Sessions -> {"none", "connect", "refused", "tell", "prepared", "close", "wait"}]
  /\ cleaner \in [Sessions -> {"none", "owner", "wait", "pool"}]
  /\ drainer \in [Sessions -> {"none", "owner", "wait"}]
  /\ req \in [Requests -> [pc : {"idle", "reserved", "opening", "resolved", "running", "toClose", "returning"},
                           s : 0..MaxIds, waits : SUBSET Sessions]]
  /\ phase \in {"serving", "draining"}
  /\ dropped \subseteq Sessions

Init ==
  /\ place = [s \in Sessions |-> "new"]
  /\ tx = {}
  /\ stale = {}
  /\ owner = [s \in Sessions |-> "none"]
  /\ opener = [s \in Sessions |-> "none"]
  /\ cleaner = [s \in Sessions |-> "none"]
  /\ drainer = [s \in Sessions |-> "none"]
  /\ req = [r \in Requests |-> Idle]
  /\ phase = "serving"
  /\ dropped = {}

-----------------------------------------------------------------------------
(* The store *)

\* Mutant: sessions that are being closed are not counted.
Count_OpenOnly == Cardinality({s \in Sessions : place[s] \in {"opening", "active"}})

\* session_count
Count == Cardinality({s \in Sessions : place[s] \in Maps})

\* What sweep_expired moves from active to closing
Expired == {s \in stale : place[s] = "active"}

\* The maps after sweep_expired
Swept == [s \in Sessions |-> IF s \in Expired THEN "closing" ELSE place[s]]

\* spawn_session_cleanup for the sessions S
Spawned(S) == [s \in Sessions |-> IF s \in S THEN "owner" ELSE cleaner[s]]

\* new_session takes an id that was never used
Fresh == {s \in Sessions : place[s] = "new" /\ \A q \in 1..(s - 1) : place[q] # "new"}

\* Call r goes on at pc with session s and waits for the workers of the sessions waits
Goes(r, pc, s, waits) == req' = [req EXCEPT ![r] = [pc |-> pc, s |-> s, waits |-> waits]]

\* A call that has nothing left but to wait and return
Returns(r, waits) == IF waits = {} THEN req' = [req EXCEPT ![r] = Idle] ELSE Goes(r, "returning", 0, waits)

-----------------------------------------------------------------------------
(* The tool calls: the store's step, and the cleanup of what it has swept *)

\* A client may call
Calls(r) == phase = "serving" /\ req[r].pc = "idle"

\* dbx_open_session at the cap: SESSION_LIMIT
OpenRefused(r) ==
  /\ Calls(r)
  /\ Count >= MaxSessions
  /\ place' = Swept
  /\ stale' = stale \ Expired
  /\ cleaner' = Spawned(Expired)
  /\ Returns(r, Expired)
  /\ UNCHANGED <<tx, owner, opener, drainer, phase, dropped>>

\* dbx_open_session without transactions: the session is active at once
OpenPlain(r) ==
  /\ Calls(r)
  /\ Count < MaxSessions
  /\ \E s \in Fresh : place' = [Swept EXCEPT ![s] = "active"]
  /\ stale' = stale \ Expired
  /\ cleaner' = Spawned(Expired)
  /\ Returns(r, Expired)
  /\ UNCHANGED <<tx, owner, opener, drainer, phase, dropped>>

\* dbx_open_session with enable_transactions: reserve_opening, and the opening worker
\* unless the call has to wait for expired sessions first
OpenTx(r) ==
  /\ Calls(r)
  /\ Count < MaxSessions
  /\ \E s \in Fresh :
       /\ place' = [Swept EXCEPT ![s] = "opening"]
       /\ tx' = tx \cup {s}
       /\ IF Expired = {}
          THEN opener' = [opener EXCEPT ![s] = "connect"] /\ Goes(r, "opening", s, {})
          ELSE UNCHANGED opener /\ Goes(r, "reserved", s, Expired)
  /\ stale' = stale \ Expired
  /\ cleaner' = Spawned(Expired)
  /\ UNCHANGED <<owner, drainer, phase, dropped>>

\* ... and then the opening worker
SpawnOpener(r) ==
  /\ req[r].pc = "reserved"
  /\ req[r].waits = {}
  /\ opener' = [opener EXCEPT ![req[r].s] = "connect"]
  /\ Goes(r, "opening", req[r].s, {})
  /\ UNCHANGED <<store, tx, owner, cleaner, drainer, phase, dropped>>

\* Mutant: the owner that was taken is not acknowledged.
Promote_NoAck(r) ==
  /\ req[r].pc = "opening"
  /\ opener[req[r].s] = "prepared"
  /\ place' = [place EXCEPT ![req[r].s] = "active"]
  /\ req' = [req EXCEPT ![r] = Idle]
  /\ UNCHANGED <<stale, tx, owner, workers, phase, dropped>>

\* The owner is prepared: promote_opening, the acknowledgement and the answer.  Only
\* the opening worker cancels the opening, so there is one to promote.
Promote(r) ==
  /\ req[r].pc = "opening"
  /\ opener[req[r].s] = "prepared"
  /\ place' = [place EXCEPT ![req[r].s] = "active"]
  /\ opener' = [opener EXCEPT ![req[r].s] = "none"]
  /\ req' = [req EXCEPT ![r] = Idle]
  /\ UNCHANGED <<stale, tx, owner, cleaner, drainer, phase, dropped>>

\* A query or a transaction command on session s: resolve refreshes its timer
Resolve(r, s) ==
  /\ Calls(r)
  /\ place[s] # "new"
  /\ place' = Swept
  /\ stale' = stale \ Expired
  /\ cleaner' = Spawned(Expired)
  /\ IF Swept[s] = "active" THEN Goes(r, "resolved", s, Expired) ELSE Returns(r, Expired)
  /\ UNCHANGED <<tx, owner, opener, drainer, phase, dropped>>

\* After the checks of policy and approval: a lease of the owner, refused when it is
\* closed or cancelled, or the pool of the session
Run(r) ==
  /\ req[r].pc = "resolved"
  /\ req[r].waits = {}
  /\ IF req[r].s \in tx => owner[req[r].s] = "open"
     THEN Goes(r, "running", req[r].s, {})
     ELSE req' = [req EXCEPT ![r] = Idle]
  /\ UNCHANGED <<store, tx, owner, workers, phase, dropped>>

\* The result, or the failure
RunEnds(r) ==
  /\ req[r].pc = "running"
  /\ req' = [req EXCEPT ![r] = Idle]
  /\ UNCHANGED <<store, tx, owner, workers, phase, dropped>>

\* dbx_close_session: begin_close sweeps first, so an expired session is not found
CloseCall(r, s) ==
  /\ Calls(r)
  /\ place[s] # "new"
  /\ stale' = stale \ (Expired \cup {s})
  /\ IF Swept[s] = "active"
     THEN /\ place' = [Swept EXCEPT ![s] = "closing"]
          /\ IF Expired = {}
             THEN cleaner' = Spawned({s}) /\ Goes(r, "returning", 0, {s})
             ELSE cleaner' = Spawned(Expired) /\ Goes(r, "toClose", s, Expired)
     ELSE place' = Swept /\ cleaner' = Spawned(Expired) /\ Returns(r, Expired)
  /\ UNCHANGED <<tx, owner, opener, drainer, phase, dropped>>

\* ... and then its cleanup worker
SpawnCleaner(r) ==
  /\ req[r].pc = "toClose"
  /\ req[r].waits = {}
  /\ cleaner' = Spawned({req[r].s})
  /\ Goes(r, "returning", 0, {req[r].s})
  /\ UNCHANGED <<store, tx, owner, opener, drainer, phase, dropped>>

\* Everything awaited has ended
Return(r) ==
  /\ req[r].pc = "returning"
  /\ req[r].waits = {}
  /\ req' = [req EXCEPT ![r] = Idle]
  /\ UNCHANGED <<store, tx, owner, workers, phase, dropped>>

\* cancellable_tool_call: the call ends where it waits.  A command that is dropped on
\* its way ends its owner (RequestDropGuard).
Cancel(r) ==
  /\ req[r].pc # "idle"
  /\ req' = [req EXCEPT ![r] = Idle]
  /\ owner' = IF req[r].pc = "running" /\ req[r].s \in tx /\ owner[req[r].s] = "open"
              THEN [owner EXCEPT ![req[r].s] = "ending"] ELSE owner
  /\ dropped' = IF req[r].pc \in {"reserved", "toClose"} THEN dropped \cup {req[r].s} ELSE dropped
  /\ UNCHANGED <<store, tx, workers, phase>>

-----------------------------------------------------------------------------
(* spawn_transaction_session_open *)

\* What is left of the budget of owners; an owner keeps its permit until it is closed
Permits == MaxOwners - Cardinality({s \in Sessions : owner[s] \in {"open", "ending"}})

\* open_transaction_owner: a permit, the pool, its connection and the owner.  It fails
\* for want of a permit or a connection, or because the connection was removed
\* meanwhile, when the owner has already been told to end.
OpenOwner(s) ==
  /\ opener[s] = "connect"
  /\ \/ /\ Permits > 0
        /\ owner' = [owner EXCEPT ![s] = "open"]
        /\ opener' = [opener EXCEPT ![s] = "prepared"]
     \/ /\ Permits > 0
        /\ owner' = [owner EXCEPT ![s] = "ending"]
        /\ opener' = [opener EXCEPT ![s] = "refused"]
     \/ /\ opener' = [opener EXCEPT ![s] = "refused"]
        /\ UNCHANGED owner
  /\ UNCHANGED <<store, tx, cleaner, drainer, req, phase, dropped>>

\* The failed worker: cancel_opening, ...
OpenerCancels(s) ==
  /\ opener[s] = "refused"
  /\ place' = [place EXCEPT ![s] = "gone"]
  /\ opener' = [opener EXCEPT ![s] = "tell"]
  /\ UNCHANGED <<stale, tx, owner, cleaner, drainer, req, phase, dropped>>

\* ... close_client_session and the answer
OpenerTells(s) ==
  /\ opener[s] = "tell"
  /\ opener' = [opener EXCEPT ![s] = "none"]
  /\ req' = [r \in Requests |-> IF req[r].pc = "opening" /\ req[r].s = s THEN Idle ELSE req[r]]
  /\ UNCHANGED <<store, tx, owner, cleaner, drainer, phase, dropped>>

\* Mutant: nobody closes the owner that no caller took.
OpenerAbandoned_ForgetsOwner(s) ==
  /\ opener[s] = "prepared"
  /\ \A r \in Requests : ~(req[r].pc = "opening" /\ req[r].s = s)
  /\ place' = [place EXCEPT ![s] = IF @ = "opening" THEN "gone" ELSE @]
  /\ opener' = [opener EXCEPT ![s] = "none"]
  /\ UNCHANGED <<stale, tx, owner, cleaner, drainer, req, phase, dropped>>

\* Nobody takes the prepared owner: cancel_opening, ...
OpenerAbandoned(s) ==
  /\ opener[s] = "prepared"
  /\ \A r \in Requests : ~(req[r].pc = "opening" /\ req[r].s = s)
  /\ place' = [place EXCEPT ![s] = IF @ = "opening" THEN "gone" ELSE @]
  /\ opener' = [opener EXCEPT ![s] = "close"]
  /\ UNCHANGED <<stale, tx, owner, cleaner, drainer, req, phase, dropped>>

\* The owner is cancelled
Ends(s) == [owner EXCEPT ![s] = IF @ = "open" THEN "ending" ELSE @]

\* ... owner.close, ...
OpenerClosesOwner(s) ==
  /\ opener[s] = "close"
  /\ owner' = Ends(s)
  /\ opener' = [opener EXCEPT ![s] = "wait"]
  /\ UNCHANGED <<store, tx, cleaner, drainer, req, phase, dropped>>

\* ... wait_closed and close_client_session
OpenerDone(s) ==
  /\ opener[s] = "wait"
  /\ owner[s] = "closed"
  /\ opener' = [opener EXCEPT ![s] = "none"]
  /\ UNCHANGED <<store, tx, owner, cleaner, drainer, req, phase, dropped>>

-----------------------------------------------------------------------------
(* spawn_session_cleanup *)

\* Mutant: the cleanup waits for an owner it has not cancelled.
CleanOwner_NoCancel(s) ==
  /\ cleaner[s] = "owner"
  /\ cleaner' = [cleaner EXCEPT ![s] = IF s \in tx THEN "wait" ELSE "pool"]
  /\ UNCHANGED <<store, tx, owner, opener, drainer, req, phase, dropped>>

\* owner.close, where there is one
CleanOwner(s) ==
  /\ cleaner[s] = "owner"
  /\ owner' = Ends(s)
  /\ cleaner' = [cleaner EXCEPT ![s] = IF s \in tx THEN "wait" ELSE "pool"]
  /\ UNCHANGED <<store, tx, opener, drainer, req, phase, dropped>>

\* wait_closed
CleanWait(s) ==
  /\ cleaner[s] = "wait"
  /\ owner[s] = "closed"
  /\ cleaner' = [cleaner EXCEPT ![s] = "pool"]
  /\ UNCHANGED <<store, tx, owner, opener, drainer, req, phase, dropped>>

\* close_client_session, then finish_close and the result.  A session without an owner
\* whose pool cannot be closed is restored: restore_after_failed_close.
CleanStore(s) ==
  /\ cleaner[s] = "pool"
  /\ \/ place' = [place EXCEPT ![s] = IF @ = "closing" THEN "gone" ELSE @]
     \/ s \notin tx /\ place' = [place EXCEPT ![s] = IF @ = "closing" THEN "active" ELSE @]
  /\ cleaner' = [cleaner EXCEPT ![s] = "none"]
  /\ req' = [r \in Requests |-> [req[r] EXCEPT !.waits = @ \ {s}]]
  /\ UNCHANGED <<stale, tx, owner, opener, drainer, phase, dropped>>

-----------------------------------------------------------------------------
(* close_http_sessions_bounded, after the server has drained its requests *)

\* take_all_active: the active sessions leave the store, those that are closing stay;
\* all of them get a worker, with a store of its own
Shutdown ==
  /\ phase = "serving"
  /\ \A r \in Requests : req[r].pc = "idle"
  /\ phase' = "draining"
  /\ drainer' = [s \in Sessions |-> IF place[s] \in {"active", "closing"} THEN "owner" ELSE "none"]
  /\ place' = [s \in Sessions |-> IF place[s] = "active" THEN "gone" ELSE place[s]]
  /\ stale' = {}
  /\ UNCHANGED <<tx, owner, opener, cleaner, req, dropped>>

\* The steps of CleanOwner, CleanWait and CleanStore; the store they end in is empty
DrainStep(s) ==
  /\ \/ /\ drainer[s] = "owner"
        /\ owner' = Ends(s)
        /\ drainer' = [drainer EXCEPT ![s] = IF s \in tx THEN "wait" ELSE "none"]
     \/ /\ drainer[s] = "wait" /\ owner[s] = "closed"
        /\ drainer' = [drainer EXCEPT ![s] = "none"]
        /\ UNCHANGED owner
  /\ UNCHANGED <<store, tx, opener, cleaner, req, phase, dropped>>

-----------------------------------------------------------------------------
(* The environment *)

\* idle_ttl passes without a use
Age(s) ==
  /\ place[s] = "active"
  /\ s \notin stale
  /\ stale' = stale \cup {s}
  /\ UNCHANGED <<place, tx, owner, workers, req, phase, dropped>>

\* The owner ends on its own: it was idle for too long, it lost its connection, or the
\* connection was removed
OwnerEnds(s) ==
  /\ owner[s] = "open"
  /\ owner' = Ends(s)
  /\ UNCHANGED <<store, tx, workers, req, phase, dropped>>

\* The owner's bounded cleanup
OwnerCloses(s) ==
  /\ owner[s] = "ending"
  /\ owner' = [owner EXCEPT ![s] = "closed"]
  /\ UNCHANGED <<store, tx, workers, req, phase, dropped>>

-----------------------------------------------------------------------------
Call(r) ==
  \/ OpenRefused(r) \/ OpenPlain(r) \/ OpenTx(r)
  \/ \E s \in Sessions : Resolve(r, s) \/ CloseCall(r, s)

Continue(r) ==
  \/ SpawnOpener(r) \/ Promote(r) \/ Run(r) \/ RunEnds(r) \/ SpawnCleaner(r) \/ Return(r)

WorkerStep(s) ==
  \/ OpenOwner(s) \/ OpenerCancels(s) \/ OpenerTells(s) \/ OpenerAbandoned(s)
  \/ OpenerClosesOwner(s) \/ OpenerDone(s)
  \/ CleanOwner(s) \/ CleanWait(s) \/ CleanStore(s)
  \/ DrainStep(s)

Next ==
  \/ \E r \in Requests : Call(r) \/ Continue(r) \/ Cancel(r)
  \/ \E s \in Sessions : WorkerStep(s) \/ Age(s) \/ OwnerEnds(s) \/ OwnerCloses(s)
  \/ Shutdown

Spec == Init /\ [][Next]_vars

\* The runtime polls what is ready, the backend answers within its timeouts, and the
\* cleanup of a cancelled owner is bounded.  Nobody has to call, cancel or shut down.
Fairness ==
  /\ \A r \in Requests : WF_vars(Continue(r))
  /\ \A s \in Sessions : WF_vars(WorkerStep(s) \/ OwnerCloses(s))

FairSpec == Spec /\ Fairness

-----------------------------------------------------------------------------
(* Properties *)

\* opening, active and closing sessions together never exceed MAX_SESSIONS, although
\* sessions expire, fail to close and come back while others are opened: a session
\* that is being closed keeps its slot (session_count), for it may have to be restored.
SessionsBounded ==
  /\ TypeOK
  /\ Cardinality({s \in Sessions : place[s] \in Maps}) <= MaxSessions

\* Nobody forgets a session.  A live transaction owner, which may hold an open
\* transaction, is in the store (active or closing), or with a worker that closes it
\* or hands it over; a reserved slot (opening or closing) is with a worker or a call.
\* The one exception is a call that is cancelled while it waits for the cleanup of
\* expired sessions and has not spawned its own worker yet (dropped): its slot is lost.
\* It holds through cancellation, failed openings and the drain at shutdown.
NothingForgotten ==
  \A s \in Sessions :
    /\ owner[s] = "open" =>
         \/ phase = "serving" /\ place[s] \in {"active", "closing"}
         \/ opener[s] # "none" \/ cleaner[s] # "none" \/ drainer[s] # "none"
    /\ place[s] \in {"opening", "closing"} /\ s \notin dropped =>
         \/ opener[s] # "none" \/ cleaner[s] # "none"
         \/ \E r \in Requests : req[r].s = s /\ req[r].pc \in {"reserved", "toClose"}

\* A session in the active map is nobody's to dispose: its opening worker has been
\* acknowledged and no cleanup worker runs on it, so that a transaction session the
\* client was told of ends only by expiry, close, shutdown or its owner's own end,
\* however the cancellation of calls meets the handover in promote_opening.
ActiveIsServed ==
  \A s \in Sessions :
    place[s] = "active" =>
      /\ opener[s] = "none"
      /\ cleaner[s] = "none"
      /\ s \in tx => owner[s] # "none"

\* Every tool call returns, although it may have to wait for an opening worker, for
\* its own cleanup and for the cleanup of every session that expired meanwhile.
CallsReturn == \A r \in Requests : []<>(req[r].pc = "idle")
=============================================================================
