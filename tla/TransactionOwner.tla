-------------------------- MODULE TransactionOwner --------------------------
(***************************************************************************)
(* The fixed-session transactions of the MCP server                        *)
(* (crates/dbx-mcp/src/transaction.rs): a task owns one MySQL connection,  *)
(* serves the calls of one session one at a time, keeps the transaction    *)
(* status the agent is shown, and cleans up when it is cancelled, idle for *)
(* too long, or no longer sure of the outcome.                             *)
(*                                                                         *)
(* The MySQL server is external: it runs the statement on the wire even    *)
(* when nobody waits for the answer any more, may refuse it, may roll the  *)
(* transaction back (deadlock), and rolls back when the connection ends.   *)
(* Transactions are numbered by their position in `fate`.                  *)
(***************************************************************************)
EXTENDS Naturals, Sequences

CONSTANTS
  Calls,       \* calls of begin, query, commit, rollback; each is made once
  Closers,     \* tasks that close the owner and wait until it is closed
  Autocommit,  \* server setting: FALSE lets a query open a transaction
  Chain,       \* server setting: TRUE lets COMMIT and ROLLBACK open a new one
  MaxTx,       \* bound: transactions opened in one behaviour
  None         \* no call, no statement, no outcome

ASSUME SettingsAssumption == Autocommit \in BOOLEAN /\ Chain \in BOOLEAN /\ MaxTx \in Nat

\* No call, no statement and no outcome is told apart from each of them.
ASSUME NoneAssumption ==
  None \notin Calls \cup {"BEGIN", "QUERY", "COMMIT", "ROLLBACK", "PING",
                         "committed", "rolled_back", "unknown"}

Ops == {"begin", "query", "commit", "rollback"}

VARIABLES
  cancelled,  \* TransactionOwnerInner.cancellation
  status,     \* TransactionStatus: state and outcome
  statusTx,   \* the transaction the status was set for (history)
  closed,     \* TransactionOwnerInner.closed
  gateClosed, \* operation_gate.close() was called
  channel,    \* the command channel, of capacity one
  opc,        \* where run_owner is
  cur,        \* the call whose command is being handled
  cpc,        \* where each call is
  cop,        \* its operation
  dropped,    \* its request_cancellation
  wire,       \* the statement sent to the server and not yet run
  answer,     \* the server's answer, not yet read
  fate,       \* what became of each transaction
  link,       \* the connection: up, closed by the owner, or down
  asked,      \* how often COMMIT was sent for each transaction (history)
  kpc,        \* where each closer is
  woken       \* its Notified future has been notified

ownerVars  == <<cancelled, status, statusTx, closed, gateClosed, channel, opc, cur>>
callVars   == <<cpc, cop, dropped>>
serverVars == <<wire, answer, fate, link, asked>>
closerVars == <<kpc, woken>>
vars == <<ownerVars, callVars, serverVars, closerVars>>

States   == {"idle", "active", "unknown"}
Outcomes == {None, "committed", "rolled_back", "unknown"}
Status   == [state : States, outcome : Outcomes]
Stat(s, o) == [state |-> s, outcome |-> o]
Answers  == [ok : BOOLEAN, in_transaction : BOOLEAN]

Open == Len(fate) > 0 /\ fate[Len(fate)] = "open"

TypeOK ==
  /\ cancelled \in BOOLEAN /\ closed \in BOOLEAN /\ gateClosed \in BOOLEAN
  /\ status \in Status
  /\ statusTx \in 0 .. MaxTx
  /\ channel \in Seq(Calls) /\ Len(channel) <= 1
  /\ opc \in {"recv", "select", "wait", "probe", "cleanup", "rollback", "disconnect", "close", "closed"}
  /\ cur \in Calls \cup {None}
  /\ cpc \in [Calls -> {"new", "check", "leased", "sent"}]
  /\ cop \in [Calls -> Ops]
  /\ dropped \in [Calls -> BOOLEAN]
  /\ wire \in {None, "BEGIN", "QUERY", "COMMIT", "ROLLBACK", "PING"}
  /\ answer \in {None} \cup Answers
  /\ fate \in Seq({"open", "committed", "rolled_back"}) /\ Len(fate) <= MaxTx
  /\ link \in {"up", "closing", "down"}
  /\ asked \in [1 .. MaxTx -> Nat]
  /\ kpc \in [Closers -> {"new", "check", "create", "recheck", "await", "done"}]
  /\ woken \in [Closers -> BOOLEAN]

Init ==
  /\ cancelled = FALSE /\ closed = FALSE /\ gateClosed = FALSE
  /\ status = Stat("idle", None) /\ statusTx = 0
  /\ channel = <<>> /\ opc = "recv" /\ cur = None
  /\ cpc = [c \in Calls |-> "new"]
  /\ cop = [c \in Calls |-> "query"]
  /\ dropped = [c \in Calls |-> FALSE]
  /\ wire = None /\ answer = None /\ fate = <<>> /\ link = "up"
  /\ asked = [t \in 1 .. MaxTx |-> 0]
  /\ kpc = [k \in Closers |-> "new"]
  /\ woken = [k \in Closers |-> FALSE]

-----------------------------------------------------------------------------
(* The MySQL server (external)                                             *)

Fate(t, f) == [fate EXCEPT ![t] = f]
End(f) == IF Open THEN Fate(Len(fate), f) ELSE fate

\* What running statement s may do: the new fates and the answer.
Effects(s) ==
  LET ok(f) == [fate |-> f, answer |-> [ok |-> TRUE, in_transaction |->
                                          Len(f) > 0 /\ f[Len(f)] = "open"]]
      err(f) == [fate |-> f, answer |-> [ok |-> FALSE, in_transaction |-> FALSE]]
      chained(f) == {ok(f)} \cup IF Chain /\ Len(f) < MaxTx THEN {ok(Append(f, "open"))} ELSE {}
  IN CASE s = "BEGIN" ->    \* implicitly commits a transaction that is open
            {err(fate)} \cup IF Len(fate) < MaxTx THEN {ok(Append(End("committed"), "open"))} ELSE {}
       [] s = "QUERY" ->    \* a deadlock rolls the transaction back
            {ok(fate), err(fate), err(End("rolled_back"))}
            \cup IF ~Autocommit /\ ~Open /\ Len(fate) < MaxTx
                   THEN {ok(Append(fate, "open")), err(Append(fate, "open"))} ELSE {}
       [] s = "COMMIT" ->
            chained(End("committed")) \cup {err(fate), err(End("rolled_back"))}
       [] s = "ROLLBACK" ->
            chained(End("rolled_back")) \cup {err(fate)}
       [] s = "PING" ->
            {ok(fate)}

ServerRuns ==
  /\ link # "down" /\ wire # None
  /\ \E x \in Effects(wire) :
       /\ fate' = x.fate
       /\ answer' = x.answer
  /\ wire' = None
  /\ UNCHANGED <<link, asked>> /\ UNCHANGED <<ownerVars, callVars, closerVars>>

\* The connection breaks or was closed: the server drops what it has not yet
\* run and rolls back an open transaction.
ServerHangsUp ==
  /\ link # "down"
  /\ link' = "down"
  /\ wire' = None /\ answer' = None
  /\ fate' = End("rolled_back")
  /\ UNCHANGED asked /\ UNCHANGED <<ownerVars, callVars, closerVars>>

\* The owner puts a statement on the wire; what was answered before is dropped.
SendSql(s) ==
  /\ wire' = s /\ answer' = None
  /\ asked' = IF s = "COMMIT" /\ Open THEN [asked EXCEPT ![Len(fate)] = @ + 1] ELSE asked
  /\ UNCHANGED <<fate, link>>

-----------------------------------------------------------------------------
(* Calls                                                                   *)

\* The permit of the operation gate is held from the acquire to the end.
Leased == \E c \in Calls : cpc[c] \in {"check", "leased", "sent"}

\* A call ends.  Whatever it is given, a result, `failure` or
\* `terminal_failure`, carries the status of that moment.
Done(c) ==
  /\ cpc' = [cpc EXCEPT ![c] = "new"]
  /\ cop' = [cop EXCEPT ![c] = "query"]

\* acquire: wait for the permit, or leave, changing nothing, when the owner is
\* cancelled or its gate is closed.  A caller calls again and again; the next
\* call after a dropped one is told apart from it by the owner.
Acquire(c, o) ==
  /\ cpc[c] = "new" /\ ~dropped[c]
  /\ ~Leased /\ ~gateClosed
  /\ cop' = [cop EXCEPT ![c] = o]
  /\ cpc' = [cpc EXCEPT ![c] = "check"]
  /\ UNCHANGED dropped /\ UNCHANGED <<ownerVars, serverVars, closerVars>>

\* ... and refuse the lease of an owner that is closed, cancelled or unknown.
CheckLease(c) ==
  /\ cpc[c] = "check"
  /\ IF closed \/ cancelled \/ status.state = "unknown"
       THEN Done(c)
       ELSE cpc' = [cpc EXCEPT ![c] = "leased"] /\ UNCHANGED cop
  /\ UNCHANGED dropped /\ UNCHANGED <<ownerVars, serverVars, closerVars>>

\* run_ref: the command is sent, or the receiver is gone.
SendCommand(c) ==
  /\ cpc[c] = "leased" /\ opc # "closed" /\ Len(channel) = 0
  /\ channel' = Append(channel, c)
  /\ cpc' = [cpc EXCEPT ![c] = "sent"]
  /\ UNCHANGED <<cancelled, status, statusTx, closed, gateClosed, opc, cur>>
  /\ UNCHANGED <<cop, dropped>> /\ UNCHANGED <<serverVars, closerVars>>

SendFails(c) ==
  /\ cpc[c] = "leased" /\ opc = "closed"
  /\ Done(c)
  /\ UNCHANGED dropped /\ UNCHANGED <<ownerVars, serverVars, closerVars>>

\* The caller's future is dropped (or a re-checked policy refuses the call):
\* the lease goes at once, and a sent command is marked by RequestDropGuard.
DropCall(c) ==
  /\ cpc[c] \in {"check", "leased", "sent"}
  /\ dropped' = [dropped EXCEPT ![c] = cpc[c] = "sent"]
  /\ cpc' = [cpc EXCEPT ![c] = "new"]
  /\ UNCHANGED cop /\ UNCHANGED <<ownerVars, serverVars, closerVars>>

-----------------------------------------------------------------------------
(* The owner: run_owner and handle_command                                 *)

\* The status the owner assigns, and the response it sends with it.  A query
\* of a batch keeps the lease for the next statement unless it has to stop.
Respond(c, st) ==
  /\ status' = st /\ statusTx' = Len(fate)
  /\ \/ Done(c)
     \/ /\ ~dropped[c] /\ cop[c] = "query" /\ st.state # "unknown"
        /\ cpc' = [cpc EXCEPT ![c] = "leased"] /\ UNCHANGED cop
  /\ dropped' = [dropped EXCEPT ![c] = FALSE]

\* Mutant: the check for an active transaction is missing.
Invalid_Never(o, s) == FALSE

\* An operation the current state does not allow.
Invalid(o, s) ==
  \/ o = "begin" /\ s = "active"
  \/ o \in {"commit", "rollback"} /\ s # "active"

Receive ==
  /\ opc = "recv" /\ Len(channel) = 1
  /\ LET c == Head(channel)
     IN IF Invalid(cop[c], status.state)
          THEN /\ Respond(c, status)
               /\ UNCHANGED <<opc, cur>>
          ELSE /\ cur' = c /\ opc' = "select"
               /\ UNCHANGED <<status, statusTx>> /\ UNCHANGED callVars
  /\ channel' = <<>>
  /\ UNCHANGED <<cancelled, closed, gateClosed>> /\ UNCHANGED <<serverVars, closerVars>>

\* The loop ends: cancelled, or idle for idle_ttl.
Stop ==
  /\ opc = "recv"
  /\ opc' = "cleanup"
  /\ UNCHANGED <<cancelled, status, statusTx, closed, gateClosed, channel, cur>>
  /\ UNCHANGED <<callVars, serverVars, closerVars>>

\* The execute future of select! is polled and sends the SQL.
Sql(o) == CASE o = "begin" -> "BEGIN" [] o = "query" -> "QUERY"
            [] o = "commit" -> "COMMIT" [] o = "rollback" -> "ROLLBACK"

Execute ==
  /\ opc = "select"
  /\ SendSql(Sql(cop[cur]))
  /\ opc' = "wait"
  /\ UNCHANGED <<cancelled, status, statusTx, closed, gateClosed, channel, cur>>
  /\ UNCHANGED <<callVars, closerVars>>

(***************************************************************************)
(* set_unknown and stop: the owner or the request is cancelled, or the     *)
(* statement or the probe times out or fails in transport.  The statement  *)
(* stays on the wire, where the server may still run it.                   *)
(***************************************************************************)
GiveUp ==
  /\ \/ opc = "select" /\ (cancelled \/ dropped[cur])
     \/ opc \in {"wait", "probe"}
  /\ Respond(cur, Stat("unknown", "unknown"))
  /\ opc' = "cleanup" /\ cur' = None
  /\ UNCHANGED <<cancelled, closed, gateClosed, channel>>
  /\ UNCHANGED <<serverVars, closerVars>>

Expected(o) == IF o = "query" THEN {TRUE, FALSE} ELSE {o = "begin"}

OutcomeOf(o) == CASE o = "commit" -> "committed" [] o = "rollback" -> "rolled_back" [] OTHER -> None

\* Mutant: the acknowledged transaction state is not compared.
Succeeded_Unchecked ==
  /\ opc = "wait" /\ answer # None /\ answer.ok
  /\ Respond(cur, Stat("idle", OutcomeOf(cop[cur])))
  /\ opc' = "recv" /\ cur' = None
  /\ answer' = None
  /\ UNCHANGED <<wire, fate, link, asked>>
  /\ UNCHANGED <<cancelled, closed, gateClosed, channel>> /\ UNCHANGED closerVars

\* The statement succeeded: the acknowledged in_transaction flag is the state,
\* unless the operation cannot have led there.
Succeeded ==
  /\ opc = "wait" /\ answer # None /\ answer.ok
  /\ IF answer.in_transaction \in Expected(cop[cur])
       THEN /\ Respond(cur, Stat(IF answer.in_transaction THEN "active" ELSE "idle",
                                       OutcomeOf(cop[cur])))
            /\ opc' = "recv"
       ELSE /\ Respond(cur, Stat("unknown", "unknown"))
            /\ opc' = "cleanup"
  /\ cur' = None
  /\ answer' = None
  /\ UNCHANGED <<wire, fate, link, asked>>
  /\ UNCHANGED <<cancelled, closed, gateClosed, channel>> /\ UNCHANGED closerVars

\* Mutant: a refused COMMIT is reported as rolled back without asking.
Refused_CommitRolledBack ==
  /\ opc = "wait" /\ answer # None /\ ~answer.ok
  /\ Respond(cur, Stat("idle", "rolled_back"))
  /\ opc' = "recv" /\ cur' = None
  /\ answer' = None
  /\ UNCHANGED <<wire, fate, link, asked>>
  /\ UNCHANGED <<cancelled, closed, gateClosed, channel>> /\ UNCHANGED closerVars

\* The server refused the statement: a COMMIT leaves the outcome unknown, any
\* other statement is followed by a ping that asks for the state.
Refused ==
  /\ opc = "wait" /\ answer # None /\ ~answer.ok
  /\ IF cop[cur] = "commit"
       THEN /\ Respond(cur, Stat("unknown", "unknown"))
            /\ opc' = "cleanup" /\ cur' = None
            /\ answer' = None
            /\ UNCHANGED <<wire, fate, link, asked>>
       ELSE /\ SendSql("PING")
            /\ opc' = "probe"
            /\ UNCHANGED <<status, statusTx, cur>> /\ UNCHANGED callVars
  /\ UNCHANGED <<cancelled, closed, gateClosed, channel>> /\ UNCHANGED closerVars

\* The probe tells; `current`, read when the command was taken up, is still the
\* status.
Probed ==
  /\ opc = "probe" /\ answer # None
  /\ LET in == answer.in_transaction
     IN Respond(cur, Stat(IF in THEN "active" ELSE "idle",
                                 IF status.state = "active" /\ ~in THEN "rolled_back" ELSE None))
  /\ opc' = "recv" /\ cur' = None
  /\ answer' = None
  /\ UNCHANGED <<wire, fate, link, asked>>
  /\ UNCHANGED <<cancelled, closed, gateClosed, channel>> /\ UNCHANGED closerVars

\* After the loop: an active transaction is rolled back, within a timeout.
CleanUp ==
  /\ opc = "cleanup"
  /\ IF status.state = "active"
       THEN opc' = "rollback" /\ SendSql("ROLLBACK")
       ELSE opc' = "disconnect" /\ UNCHANGED serverVars
  /\ UNCHANGED <<cancelled, status, statusTx, closed, gateClosed, channel, cur>>
  /\ UNCHANGED <<callVars, closerVars>>

\* The ROLLBACK is acknowledged, or it is not: then the outcome is unknown.
RolledBack ==
  /\ opc = "rollback"
  /\ \/ /\ answer # None /\ answer.ok /\ ~answer.in_transaction
        /\ status' = Stat("idle", "rolled_back")
     \/ status' = Stat("unknown", "unknown")   \* timeout, error, or still in one
  /\ statusTx' = Len(fate)
  /\ opc' = "disconnect"
  /\ UNCHANGED <<cancelled, closed, gateClosed, channel, cur>>
  /\ UNCHANGED <<callVars, serverVars, closerVars>>

\* Mutant: the connection goes back to its pool.
Disconnect_KeepsConnection ==
  /\ opc = "disconnect"
  /\ opc' = "close"
  /\ closed' = TRUE
  /\ UNCHANGED <<cancelled, status, statusTx, gateClosed, channel, cur>>
  /\ UNCHANGED <<callVars, serverVars, closerVars>>

\* io.disconnect(): the connection is given up even when it times out.  The
\* server notices at once or later (ServerHangsUp).  Then closed is stored.
Disconnect ==
  /\ opc = "disconnect"
  /\ opc' = "close"
  /\ closed' = TRUE
  /\ link' = IF link = "up" THEN "closing" ELSE link
  /\ UNCHANGED <<cancelled, status, statusTx, gateClosed, channel, cur>>
  /\ UNCHANGED <<wire, answer, fate, asked>> /\ UNCHANGED <<callVars, closerVars>>

\* Mutant: the waiters are not notified.
Close_Silent ==
  /\ opc = "close"
  /\ gateClosed' = TRUE
  /\ opc' = "closed"
  /\ channel' = <<>>
  /\ cpc' = [c \in Calls |-> IF cpc[c] = "sent" THEN "new" ELSE cpc[c]]
  /\ cop' = [c \in Calls |-> "query"] /\ dropped' = [c \in Calls |-> FALSE]
  /\ UNCHANGED <<cancelled, status, statusTx, closed, cur>>
  /\ UNCHANGED <<serverVars, closerVars>>

(***************************************************************************)
(* The gate closes, the waiters are notified, the permit is returned, and  *)
(* the receiver is dropped: a command left in the channel is answered with *)
(* the final status without having been run.                               *)
(***************************************************************************)
Close ==
  /\ opc = "close"
  /\ gateClosed' = TRUE
  /\ woken' = [k \in Closers |-> woken[k] \/ kpc[k] \in {"recheck", "await"}]
  /\ opc' = "closed"
  /\ channel' = <<>>
  /\ cpc' = [c \in Calls |-> IF cpc[c] = "sent" THEN "new" ELSE cpc[c]]
  /\ cop' = [c \in Calls |-> "query"] /\ dropped' = [c \in Calls |-> FALSE]
  /\ UNCHANGED <<cancelled, status, statusTx, closed, cur>>
  /\ UNCHANGED <<serverVars, kpc>>

-----------------------------------------------------------------------------
(* Closers: close, invalidate and the drop of the last handle, wait_closed *)

Invalidate ==
  /\ ~cancelled
  /\ cancelled' = TRUE
  /\ UNCHANGED <<status, statusTx, closed, gateClosed, channel, opc, cur>>
  /\ UNCHANGED <<callVars, serverVars, closerVars>>

CloseOwner(k) ==
  /\ kpc[k] = "new"
  /\ cancelled' = TRUE
  /\ kpc' = [kpc EXCEPT ![k] = "check"]
  /\ UNCHANGED <<status, statusTx, closed, gateClosed, channel, opc, cur>>
  /\ UNCHANGED woken /\ UNCHANGED <<callVars, serverVars>>

\* wait_closed: look, create the Notified future, look again, and wait.
WaitCheck(k) ==
  /\ kpc[k] = "check"
  /\ kpc' = [kpc EXCEPT ![k] = IF closed THEN "done" ELSE "create"]
  /\ UNCHANGED woken /\ UNCHANGED <<ownerVars, callVars, serverVars>>

WaitCreate(k) ==
  /\ kpc[k] = "create"
  /\ woken' = [woken EXCEPT ![k] = FALSE]
  /\ kpc' = [kpc EXCEPT ![k] = "recheck"]
  /\ UNCHANGED <<ownerVars, callVars, serverVars>>

WaitRecheck(k) ==
  /\ kpc[k] = "recheck"
  /\ kpc' = [kpc EXCEPT ![k] = IF closed THEN "done" ELSE "await"]
  /\ UNCHANGED woken /\ UNCHANGED <<ownerVars, callVars, serverVars>>

WaitAwake(k) ==
  /\ kpc[k] = "await" /\ woken[k]
  /\ kpc' = [kpc EXCEPT ![k] = "check"]
  /\ UNCHANGED woken /\ UNCHANGED <<ownerVars, callVars, serverVars>>

-----------------------------------------------------------------------------
CallNext ==
  \E c \in Calls :
    \/ \E o \in Ops : Acquire(c, o)
    \/ CheckLease(c) \/ SendCommand(c) \/ SendFails(c) \/ DropCall(c)

OwnerNext ==
  Receive \/ Stop \/ Execute \/ GiveUp \/ Succeeded \/ Refused \/ Probed
  \/ CleanUp \/ RolledBack \/ Disconnect \/ Close

CloserNext ==
  \E k \in Closers :
    CloseOwner(k) \/ WaitCheck(k) \/ WaitCreate(k) \/ WaitRecheck(k) \/ WaitAwake(k)

Next == CallNext \/ OwnerNext \/ CloserNext \/ Invalidate \/ ServerRuns \/ ServerHangsUp

(***************************************************************************)
(* Fairness: the owner task runs and its timeouts fire; select! polls its  *)
(* branches in random order, so a cancelled owner does not take one more   *)
(* command for ever; a closer runs; the server notices that an owner has   *)
(* given its connection up.  The server need not answer, and a caller      *)
(* need not go on.                                                         *)
(***************************************************************************)
Fairness ==
  /\ WF_vars(Receive \/ Execute \/ GiveUp \/ Succeeded \/ Refused \/ Probed
             \/ CleanUp \/ RolledBack \/ Disconnect \/ Close)
  /\ SF_vars(Stop /\ cancelled)
  /\ \A k \in Closers : WF_vars(WaitCheck(k) \/ WaitCreate(k) \/ WaitRecheck(k) \/ WaitAwake(k))
  /\ WF_vars(ServerHangsUp /\ link = "closing")

Spec     == Init /\ [][Next]_vars
FairSpec == Spec /\ Fairness

-----------------------------------------------------------------------------
(* Properties                                                              *)

\* A definite outcome, which the agent is shown with every result and error,
\* is what happened to that transaction at the server, whatever is still on
\* the wire.
OutcomeIsTrue ==
  /\ TypeOK
  /\ status.outcome \in {"committed", "rolled_back"} =>
       statusTx > 0 /\ fate[statusTx] = status.outcome

\* Between two commands an idle status means that no transaction is open: the
\* agent is never told "idle" while its writes are still uncommitted.
IdleMeansNoTransaction ==
  opc = "recv" /\ status.state = "idle" => ~Open

\* A transaction is committed by the one COMMIT that was sent for it: no
\* statement the owner sends (START TRANSACTION above all) does it in passing,
\* and a COMMIT whose answer was lost is never sent a second time.
CommittedOnRequestOnly ==
  \A t \in 1 .. MaxTx :
    /\ asked[t] <= 1
    /\ t <= Len(fate) /\ fate[t] = "committed" => asked[t] = 1

\* Whoever closes the owner returns: a cancelled owner is closed, by way of its
\* timeouts, even if the server never answers, and nobody who waits for that
\* misses the notification ...
ClosersReturn == \A k \in Closers : []<>(kpc[k] \in {"new", "done"})

\* ... and no transaction stays open at the server (closed is never reset).
NothingLeftOpen == []<>(closed => ~Open)
=============================================================================
