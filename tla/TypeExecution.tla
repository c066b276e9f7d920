---------------------------- MODULE TypeExecution ----------------------------
(***************************************************************************)
(* Durable receipts of TYPE statements: a statement is claimed in the      *)
(* settings database before it is run, its receipt becomes terminal only   *)
(* after a result that proves the statement ended, and an observer trusts  *)
(* nothing but the receipt.  type_execution_receipts.rs, with              *)
(* finish_conditional_update and observe_type_execution of query_cancel.rs *)
(* and the request handlers that call them.                                *)
(*                                                                         *)
(* A crash of the process loses every request and observer; the receipts   *)
(* are in SQLite and stay, and a statement the database received goes on.  *)
(***************************************************************************)
EXTENDS Naturals

CONSTANTS
  Ids,        \* execution ids, chosen by the callers
  Contexts,   \* the other fields of a binding: plan, step, connection, SQL
  Blank,      \* a context with a required field left blank
  Requests,   \* calls of execute_conditional_update
  Observers   \* calls of cancel_conditional_update with cancel = false

ASSUME BlankAssumption == Blank \notin Contexts

Bindings  == [execution_id : Ids, context : Contexts \cup {Blank}]
NoBinding == [execution_id |-> "none"]

(* A Receipt is absent, pending (database_terminal = false) or terminal.   *)
NoReceipt == [state |-> "absent"]
Pending(b)  == [state |-> "pending", binding |-> b]
Terminal(b) == [state |-> "terminal", binding |-> b]
Receipts == {NoReceipt} \cup [state : {"pending", "terminal"}, binding : Bindings]

VARIABLES
  receipt,   \* [Ids -> Receipts], durable
  at,        \* where the request is
  binding,   \* its TypeExecutionBinding
  db,        \* its statement at the database (external)
  reply,     \* what its caller was told
  opc,       \* where the observer is
  obinding,  \* the binding it asks about
  oanswer    \* what it was told

reqVars == <<at, binding, db, reply>>
obsVars == <<opc, obinding, oanswer>>
vars    == <<receipt, reqVars, obsVars>>

TypeOK ==
  /\ receipt \in [Ids -> Receipts]
  /\ at \in [Requests -> {"new", "claim", "register", "execute", "save", "saved", "done",
                        "crashed"}]
  /\ binding \in [Requests -> Bindings \cup {NoBinding}]
  /\ \A q \in Requests : at[q] # "new" => binding[q] \in Bindings
  /\ db \in [Requests -> {"none", "executing", "ended"}]
  /\ reply \in [Requests -> {"none", "known", "unknown", "rejected"}]
  /\ opc \in [Observers -> {"idle", "first", "wait", "second", "answered"}]
  /\ obinding \in [Observers -> Bindings \cup {NoBinding}]
  /\ \A o \in Observers : opc[o] # "idle" => obinding[o] \in Bindings
  /\ oanswer \in [Observers -> {"none", "terminal", "unproven", "mismatch"}]

Init ==
  /\ receipt = [e \in Ids |-> NoReceipt]
  /\ at = [q \in Requests |-> "new"]
  /\ binding = [q \in Requests |-> NoBinding]
  /\ db = [q \in Requests |-> "none"]
  /\ reply = [q \in Requests |-> "none"]
  /\ opc = [o \in Observers |-> "idle"]
  /\ obinding = [o \in Observers |-> NoBinding]
  /\ oanswer = [o \in Observers |-> "none"]

IdOf(q) == binding[q].execution_id

\* The first answer is the one the caller sees: a later send finds no receiver.
Answer(q, what) == reply' = [reply EXCEPT ![q] = IF @ = "none" THEN what ELSE @]

-----------------------------------------------------------------------------
(* Requests                                                                *)

\* A caller asks to run the statement of binding b.
Request(q, b) ==
  /\ at[q] = "new"
  /\ binding' = [binding EXCEPT ![q] = b]
  /\ at' = [at EXCEPT ![q] = "claim"]
  /\ UNCHANGED <<receipt, db, reply>> /\ UNCHANGED obsVars

\* Mutant: INSERT OR REPLACE instead of INSERT OR IGNORE.
Claim_Replaces(q) ==
  /\ at[q] = "claim"
  /\ receipt' = [receipt EXCEPT ![IdOf(q)] = Pending(binding[q])]
  /\ at' = [at EXCEPT ![q] = "register"]
  /\ UNCHANGED <<binding, db, reply>> /\ UNCHANGED obsVars

\* Mutant: the number of inserted rows is not looked at.
Claim_IgnoresCount(q) ==
  /\ at[q] = "claim"
  /\ receipt' = IF receipt[IdOf(q)] = NoReceipt
                  THEN [receipt EXCEPT ![IdOf(q)] = Pending(binding[q])]
                  ELSE receipt
  /\ at' = [at EXCEPT ![q] = "register"]
  /\ UNCHANGED <<binding, db, reply>> /\ UNCHANGED obsVars

(***************************************************************************)
(* claim_type_execution: INSERT OR IGNORE of a pending receipt, and an     *)
(* error when the row was there or the binding is incomplete.              *)
(***************************************************************************)
Claim(q) ==
  /\ at[q] = "claim"
  /\ binding[q].context # Blank
  /\ receipt[IdOf(q)] = NoReceipt
  /\ receipt' = [receipt EXCEPT ![IdOf(q)] = Pending(binding[q])]
  /\ at' = [at EXCEPT ![q] = "register"]
  /\ UNCHANGED <<binding, db, reply>> /\ UNCHANGED obsVars

ClaimRefused(q) ==
  /\ at[q] = "claim"
  /\ binding[q].context = Blank \/ receipt[IdOf(q)] # NoReceipt
  /\ at' = [at EXCEPT ![q] = "done"]
  /\ Answer(q, "rejected")
  /\ UNCHANGED <<receipt, binding, db>> /\ UNCHANGED obsVars

\* The INSERT fails: no receipt is created.
ClaimFails(q) ==
  /\ at[q] = "claim"
  /\ at' = [at EXCEPT ![q] = "done"]
  /\ Answer(q, "rejected")
  /\ UNCHANGED <<receipt, binding, db>> /\ UNCHANGED obsVars

\* The handler's future is dropped (its client went away) while it awaits the
\* claim, whose INSERT has been made.
Abandon(q) ==
  /\ at[q] = "register"
  /\ at' = [at EXCEPT ![q] = "done"]
  /\ UNCHANGED <<receipt, binding, db, reply>> /\ UNCHANGED obsVars

\* register_task_for_terminal_confirmation and tokio::spawn, without an await.
RegisterAndSpawn(q) ==
  /\ at[q] = "register"
  /\ at' = [at EXCEPT ![q] = "execute"]
  /\ UNCHANGED <<receipt, binding, db, reply>> /\ UNCHANGED obsVars

\* External: the spawned task hands the statement to the database, which ends
\* it some time later.
StartStatement(q) ==
  /\ at[q] = "execute" /\ db[q] = "none"
  /\ db' = [db EXCEPT ![q] = "executing"]
  /\ UNCHANGED <<receipt, at, binding, reply>> /\ UNCHANGED obsVars

EndStatement(q) ==
  /\ db[q] = "executing"
  /\ db' = [db EXCEPT ![q] = "ended"]
  /\ UNCHANGED <<receipt, at, binding, reply>> /\ UNCHANGED obsVars

\* The outer response timeout: the caller stops waiting, the task goes on.
ResponseTimeout(q) ==
  /\ at[q] \in {"execute", "save", "saved"} /\ reply[q] = "none"
  /\ reply' = [reply EXCEPT ![q] = "unknown"]
  /\ UNCHANGED <<receipt, at, binding, db>> /\ UNCHANGED obsVars

\* Mutant: any result, a transport error too, makes the receipt terminal.
FinishConditionalUpdate_AnyResult(q) ==
  /\ at[q] = "execute"
  /\ at' = [at EXCEPT ![q] = "save"]
  /\ UNCHANGED <<receipt, binding, db, reply>> /\ UNCHANGED obsVars

\* Mutant: the reply is sent before the receipt is saved.
FinishConditionalUpdate_RepliesFirst(q) ==
  /\ at[q] = "execute" /\ db[q] # "executing"
  /\ at' = [at EXCEPT ![q] = "save"]
  /\ Answer(q, "known")
  /\ UNCHANGED <<receipt, binding, db>> /\ UNCHANGED obsVars

(***************************************************************************)
(* finish_conditional_update, first part: the guard is released, and the   *)
(* result either proves that the statement ended (or never started), or    *)
(* the caller is given an error of unknown outcome.                        *)
(***************************************************************************)
FinishConditionalUpdate(q) ==
  /\ at[q] = "execute"
  /\ \/ /\ db[q] # "executing"
        /\ at' = [at EXCEPT ![q] = "save"]
        /\ UNCHANGED reply
     \/ /\ at' = [at EXCEPT ![q] = "done"]
        /\ Answer(q, "unknown")
  /\ UNCHANGED <<receipt, binding, db>> /\ UNCHANGED obsVars

\* finish_type_execution: the receipt of this binding goes from pending to
\* terminal ...
SaveReceipt(q) ==
  /\ at[q] = "save"
  /\ receipt[IdOf(q)] = Pending(binding[q])
  /\ receipt' = [receipt EXCEPT ![IdOf(q)] = Terminal(binding[q])]
  /\ at' = [at EXCEPT ![q] = "saved"]
  /\ UNCHANGED <<binding, db, reply>> /\ UNCHANGED obsVars

\* ... and only then is the result returned, to a caller who still waits ...
ReturnResult(q) ==
  /\ at[q] = "saved"
  /\ at' = [at EXCEPT ![q] = "done"]
  /\ Answer(q, "known")
  /\ UNCHANGED <<receipt, binding, db>> /\ UNCHANGED obsVars

\* ... or the UPDATE fails and the outcome stays unknown.
SaveFails(q) ==
  /\ at[q] = "save"
  /\ at' = [at EXCEPT ![q] = "done"]
  /\ Answer(q, "unknown")
  /\ UNCHANGED <<receipt, binding, db>> /\ UNCHANGED obsVars

-----------------------------------------------------------------------------
(* Observers: observe_type_execution                                       *)

\* A caller asks about binding b.
Observe(o, b) ==
  /\ opc[o] = "idle"
  /\ opc' = [opc EXCEPT ![o] = "first"]
  /\ obinding' = [obinding EXCEPT ![o] = b]
  /\ UNCHANGED oanswer /\ UNCHANGED <<receipt, reqVars>>

\* type_execution_terminal, and what observe_type_execution makes of it.
TypeExecutionTerminal(b) ==
  LET x == receipt[b.execution_id]
  IN CASE x = NoReceipt -> "unproven"
       [] x # NoReceipt /\ x.binding # b -> "mismatch"
       [] x = Terminal(b) -> "terminal"
       [] OTHER -> "unproven"

\* The first read: only a pending receipt of this binding is waited for.
FirstRead(o) ==
  LET b == obinding[o]
      wait == receipt[b.execution_id] = Pending(b)
  IN /\ opc[o] = "first"
     /\ opc' = [opc EXCEPT ![o] = IF wait THEN "wait" ELSE "answered"]
     /\ oanswer' = [oanswer EXCEPT ![o] = IF wait THEN "none" ELSE TypeExecutionTerminal(b)]
     /\ UNCHANGED obinding /\ UNCHANGED <<receipt, reqVars>>

\* wait_for_completion ends at any time: the id completed, another caller that
\* reused it did, or the timeout passed.  Its result is not used.
WaitOver(o) ==
  /\ opc[o] = "wait"
  /\ opc' = [opc EXCEPT ![o] = "second"]
  /\ UNCHANGED <<obinding, oanswer>> /\ UNCHANGED <<receipt, reqVars>>

SecondRead(o) ==
  /\ opc[o] = "second"
  /\ opc' = [opc EXCEPT ![o] = "answered"]
  /\ oanswer' = [oanswer EXCEPT ![o] = TypeExecutionTerminal(obinding[o])]
  /\ UNCHANGED obinding /\ UNCHANGED <<receipt, reqVars>>

Forget(o) ==
  /\ opc[o] = "answered"
  /\ opc' = [opc EXCEPT ![o] = "idle"]
  /\ obinding' = [obinding EXCEPT ![o] = NoBinding]
  /\ oanswer' = [oanswer EXCEPT ![o] = "none"]
  /\ UNCHANGED <<receipt, reqVars>>

-----------------------------------------------------------------------------
\* The process dies: requests and observers are gone, receipts and what the
\* database is doing are not.
Crash ==
  /\ \E q \in Requests : at[q] \in {"claim", "register", "execute", "save", "saved"}
  /\ at' = [q \in Requests |-> IF at[q] \in {"new", "done"} THEN at[q] ELSE "crashed"]
  /\ opc' = [o \in Observers |-> "idle"]
  /\ obinding' = [o \in Observers |-> NoBinding]
  /\ oanswer' = [o \in Observers |-> "none"]
  /\ UNCHANGED <<receipt, binding, db, reply>>

RequestNext ==
  \E q \in Requests :
    \/ \E b \in Bindings : Request(q, b)
    \/ Claim(q) \/ ClaimRefused(q) \/ ClaimFails(q) \/ Abandon(q)
    \/ RegisterAndSpawn(q) \/ StartStatement(q) \/ EndStatement(q)
    \/ ResponseTimeout(q) \/ FinishConditionalUpdate(q)
    \/ SaveReceipt(q) \/ ReturnResult(q) \/ SaveFails(q)

ObserverNext ==
  \E o \in Observers :
    \/ \E b \in Bindings : Observe(o, b)
    \/ FirstRead(o) \/ WaitOver(o) \/ SecondRead(o) \/ Forget(o)

Next == RequestNext \/ ObserverNext \/ Crash

Spec == Init /\ [][Next]_vars

-----------------------------------------------------------------------------
(* Properties                                                              *)

\* No execution id is run twice, whoever asks and however often the process
\* dies: "inspect the original outcome, do not replay".
NeverReplayed ==
  \A p, q \in Requests :
    p # q /\ db[p] # "none" /\ db[q] # "none" => IdOf(p) # IdOf(q)

\* An observer is told terminal only for the binding that was claimed, and
\* only when no statement of that id can be running or start to run.
ObservedTerminalIsTrue ==
  \A o \in Observers : oanswer[o] = "terminal" =>
    /\ receipt[obinding[o].execution_id].binding = obinding[o]
    /\ \A q \in Requests :
         binding[q] \in Bindings /\ IdOf(q) = obinding[o].execution_id =>
           db[q] # "executing" /\ at[q] \notin {"register", "execute"}

\* A caller that was given a result finds a terminal receipt, after any crash: the
\* receipt is saved before the result is returned, with the timeout, a crash and other
\* requests for the id in between.
KnownReplyIsDurable ==
  \A q \in Requests : reply[q] = "known" => receipt[IdOf(q)] = Terminal(binding[q])

\* A receipt is never removed, rebound or taken back from terminal to pending.
ReceiptIsForever ==
  [][\A e \in Ids : receipt[e] # NoReceipt =>
       /\ receipt'[e] # NoReceipt
       /\ receipt'[e].binding = receipt[e].binding
       /\ receipt[e].state = "terminal" => receipt'[e].state = "terminal"]_vars

(***************************************************************************)
(* The refinement mapping: an id was started by the requests whose         *)
(* statement the database received, is attested by its terminal receipt,   *)
(* and is told to the caller of a result and to an observer of a terminal  *)
(* receipt.                                                                *)
(***************************************************************************)
Of(e) == {q \in Requests : binding[q] \in Bindings /\ IdOf(q) = e}

Started  == [e \in Ids |-> {q \in Of(e) : db[q] # "none"}]
Running  == {e \in Ids : \E q \in Of(e) : db[q] = "executing"}
Attested == {e \in Ids : receipt[e].state = "terminal"}
Told     == {e \in Ids :
               \/ \E q \in Of(e) : reply[q] = "known"
               \/ \E o \in Observers : oanswer[o] = "terminal" /\ obinding[o].execution_id = e}

Once == INSTANCE ExecuteOnce
          WITH started <- Started, running <- Running, attested <- Attested, told <- Told

\* The receipts keep the promise of ExecuteOnce: with competing requests, lost
\* replies and crashes an id is run at most once, is attested only when its
\* statement cannot run any more, and a positive answer is always attested.
ImplementsExecuteOnce == Once!Spec
=============================================================================
