------------------------- MODULE TypeExecutionProofs -------------------------
(***************************************************************************)
(* Proofs about the receipts of TYPE statements, for any sets of ids,      *)
(* requests and observers and any number of crashes.                       *)
(***************************************************************************)
EXTENDS TypeExecution, TLAPS

\* Where a request has been granted its claim and may yet touch the database.
Live == {"register", "execute", "save"}

\* The claim of the request was granted: it may run, has run or has an answer.
Holds(q) == at[q] \in Live \cup {"saved"} \/ db[q] # "none" \/ reply[q] = "known"

\* Nothing has happened for a request that has not been granted its claim.
FreshIsFresh ==
  \A q \in Requests : at[q] \in {"new", "claim"} => db[q] = "none" /\ reply[q] = "none"

\* A claim once granted has its receipt, bound to the request's own binding.
HolderHasReceipt ==
  \A q \in Requests : Holds(q) =>
    /\ binding[q] \in Bindings
    /\ receipt[IdOf(q)] \in {Pending(binding[q]), Terminal(binding[q])}

\* No two requests were granted the same execution id.
HoldersApart ==
  \A p, q \in Requests : p # q /\ Holds(p) /\ Holds(q) => IdOf(p) # IdOf(q)

\* A request about to save its receipt has a statement that is not running.
SavesAfterTheEnd == \A q \in Requests : at[q] = "save" => db[q] # "executing"

\* A request about to return its result has saved its receipt.
SavedIsTerminal == \A q \in Requests : at[q] = "saved" => receipt[IdOf(q)] = Terminal(binding[q])

\* A terminal receipt means that nothing of the id runs or is going to.
TerminalMeansOver ==
  \A q \in Requests :
    binding[q] \in Bindings /\ receipt[IdOf(q)].state = "terminal" =>
      db[q] # "executing" /\ at[q] \notin Live

\* An observer's answer "terminal" was read from a receipt that is still so.
AnswersAreReceipts ==
  \A o \in Observers : oanswer[o] = "terminal" =>
    /\ opc[o] = "answered"
    /\ obinding[o] \in Bindings
    /\ receipt[obinding[o].execution_id] = Terminal(obinding[o])

IndInv ==
  /\ TypeOK /\ FreshIsFresh /\ HolderHasReceipt /\ HoldersApart
  /\ SavesAfterTheEnd /\ SavedIsTerminal /\ TerminalMeansOver /\ KnownReplyIsDurable
  /\ AnswersAreReceipts

-----------------------------------------------------------------------------
\* Receipts: absent, pending and terminal ones differ, and a receipt of the
\* table carries the binding it was claimed with.
LEMMA ReceiptFacts ==
  /\ NoReceipt \in Receipts /\ NoReceipt.state = "absent"
  /\ \A b \in Bindings :
       /\ Pending(b) \in Receipts /\ Pending(b).state = "pending" /\ Pending(b).binding = b
       /\ Terminal(b) \in Receipts /\ Terminal(b).state = "terminal" /\ Terminal(b).binding = b
       /\ b.execution_id \in Ids
  /\ \A x \in Receipts :
       x # NoReceipt => /\ x.binding \in Bindings
                        /\ x = Pending(x.binding) \/ x = Terminal(x.binding)
  BY DEF Receipts, NoReceipt, Pending, Terminal, Bindings

\* The empty table, before any request, satisfies the invariant.
LEMMA InitIndInv == Init => IndInv
  BY ReceiptFacts
  DEF Init, IndInv, TypeOK, FreshIsFresh, Holds, HolderHasReceipt, HoldersApart, SavesAfterTheEnd,
      SavedIsTerminal, TerminalMeansOver, KnownReplyIsDurable, AnswersAreReceipts, Live, NoBinding

\* A step of a request preserves what is said of the observers, as long as it
\* leaves them and the terminal receipts alone.
LEMMA AnswersStay ==
  ASSUME IndInv, UNCHANGED obsVars,
         \A e \in Ids : receipt[e] # NoReceipt /\ receipt[e].state = "terminal" =>
                        receipt'[e] = receipt[e]
  PROVE  AnswersAreReceipts'
  BY ReceiptFacts DEF IndInv, AnswersAreReceipts, obsVars

\* A step is quiet when it writes no receipt and grants no claim: nothing
\* comes alive, starts or is answered with a result that could not before.
Quiet ==
  /\ UNCHANGED <<receipt, binding>>
  /\ \A p \in Requests :
       /\ at'[p] \in Live => at[p] \in Live
       /\ at'[p] = "saved" => at[p] = "saved"
       /\ db'[p] # db[p] => at[p] \in Live \/ (db[p] = "executing" /\ db'[p] # "executing")
       /\ reply'[p] = "known" => reply[p] = "known" \/ at[p] = "saved"

\* A quiet step preserves what the invariant says of granted claims.
LEMMA QuietIndInv ==
  ASSUME IndInv, Quiet
  PROVE  /\ HolderHasReceipt' /\ HoldersApart' /\ SavedIsTerminal'
         /\ TerminalMeansOver' /\ KnownReplyIsDurable'
<1>1. \A p \in Requests : Holds(p)' => Holds(p)
  BY DEF Quiet, Holds
<1>2. \A p \in Requests : IdOf(p)' = IdOf(p) /\ binding'[p] = binding[p]
  BY DEF Quiet, IdOf
<1>3. HolderHasReceipt' /\ HoldersApart'
  BY <1>1, <1>2 DEF IndInv, HolderHasReceipt, HoldersApart, Quiet, Pending, Terminal
<1>4. SavedIsTerminal' /\ TerminalMeansOver' /\ KnownReplyIsDurable'
  BY <1>2 DEF IndInv, SavedIsTerminal, TerminalMeansOver, KnownReplyIsDurable, Quiet, Terminal
<1> QED
  BY <1>3, <1>4

\* The steps of a request that write no receipt preserve the invariant.
LEMMA QuietRequestIndInv ==
  ASSUME IndInv, NEW q \in Requests,
         \/ ClaimRefused(q)
         \/ ClaimFails(q)
         \/ Abandon(q)
         \/ RegisterAndSpawn(q)
         \/ StartStatement(q)
         \/ EndStatement(q)
         \/ ResponseTimeout(q)
         \/ FinishConditionalUpdate(q)
         \/ ReturnResult(q)
         \/ SaveFails(q)
  PROVE  IndInv'
<1>1. UNCHANGED <<receipt, binding>> /\ UNCHANGED obsVars
  BY DEF ClaimRefused, ClaimFails, Abandon, RegisterAndSpawn, StartStatement, EndStatement,
         ResponseTimeout, FinishConditionalUpdate, ReturnResult, SaveFails
<1>2. TypeOK'
  <2>1. /\ at' \in [Requests -> {"new", "claim", "register", "execute", "save", "saved", "done", "crashed"}]
        /\ db' \in [Requests -> {"none", "executing", "ended"}]
        /\ reply' \in [Requests -> {"none", "known", "unknown", "rejected"}]
    BY DEF IndInv, TypeOK, Answer, ClaimRefused, ClaimFails, Abandon, RegisterAndSpawn,
           StartStatement, EndStatement, ResponseTimeout, FinishConditionalUpdate, ReturnResult, SaveFails
  <2>2. \A p \in Requests : at[p] = "new" => at'[p] = "new"
    BY DEF IndInv, TypeOK, ClaimRefused, ClaimFails, Abandon, RegisterAndSpawn, StartStatement,
           EndStatement, ResponseTimeout, FinishConditionalUpdate, ReturnResult, SaveFails
  <2> QED
    BY <1>1, <2>1, <2>2 DEF IndInv, TypeOK, obsVars
<1>3. Quiet
  BY <1>1 DEF IndInv, TypeOK, Quiet, Live, Answer, ClaimRefused, ClaimFails, Abandon,
              RegisterAndSpawn, StartStatement, EndStatement, ResponseTimeout,
              FinishConditionalUpdate, ReturnResult, SaveFails
<1>4. FreshIsFresh' /\ SavesAfterTheEnd'
  BY DEF IndInv, TypeOK, FreshIsFresh, SavesAfterTheEnd, Answer,
         ClaimRefused, ClaimFails, Abandon, RegisterAndSpawn, StartStatement, EndStatement,
         ResponseTimeout, FinishConditionalUpdate, ReturnResult, SaveFails
<1>5. AnswersAreReceipts'
  BY <1>1, AnswersStay
<1> QED
  BY <1>2, <1>3, <1>4, <1>5, QuietIndInv DEF IndInv

\* A request that is made names a binding and holds nothing yet.
LEMMA RequestIndInv ==
  ASSUME IndInv, NEW q \in Requests, NEW b \in Bindings, Request(q, b)
  PROVE  IndInv'
<1> USE DEF IndInv, Request
<1>1. TypeOK'
  BY DEF TypeOK, obsVars
<1>2. ~Holds(q) /\ at'[q] = "claim" /\ ~Holds(q)'
  BY DEF TypeOK, Holds, Live, FreshIsFresh
<1>3. \A p \in Requests \ {q} : /\ Holds(p)' <=> Holds(p)
                                /\ binding'[p] = binding[p] /\ IdOf(p)' = IdOf(p)
                                /\ at'[p] = at[p] /\ db'[p] = db[p] /\ reply'[p] = reply[p]
  BY DEF TypeOK, Holds, IdOf
<1>4. FreshIsFresh' /\ SavesAfterTheEnd'
  BY DEF TypeOK, FreshIsFresh, SavesAfterTheEnd
<1>5. HolderHasReceipt' /\ HoldersApart'
  BY <1>2, <1>3 DEF HolderHasReceipt, HoldersApart, Pending, Terminal
<1>6. SavedIsTerminal' /\ TerminalMeansOver' /\ KnownReplyIsDurable'
  BY <1>2, <1>3 DEF TypeOK, SavedIsTerminal, TerminalMeansOver, KnownReplyIsDurable, FreshIsFresh, Live, Terminal
<1>7. AnswersAreReceipts'
  BY AnswersStay
<1> QED
  BY <1>1, <1>4, <1>5, <1>6, <1>7

\* claim_type_execution grants an id nobody holds: a holder would have left a
\* receipt, and the row was absent.
LEMMA ClaimIndInv ==
  ASSUME IndInv, NEW q \in Requests, Claim(q)
  PROVE  IndInv'
<1> USE ReceiptFacts DEF IndInv
<1>1. binding[q] \in Bindings /\ IdOf(q) \in Ids
  BY DEF TypeOK, Claim, IdOf
<1>2. /\ receipt' = [receipt EXCEPT ![IdOf(q)] = Pending(binding[q])]
      /\ at' = [at EXCEPT ![q] = "register"]
      /\ UNCHANGED <<binding, db, reply>> /\ UNCHANGED obsVars
      /\ receipt[IdOf(q)] = NoReceipt /\ at[q] = "claim"
  BY DEF Claim
<1>3. TypeOK'
  BY <1>1, <1>2 DEF TypeOK, obsVars
<1>4. \A p \in Requests : Holds(p) => IdOf(p) # IdOf(q)
  BY <1>1, <1>2 DEF HolderHasReceipt
<1>5. \A p \in Requests \ {q} : /\ Holds(p)' <=> Holds(p)
                                /\ at'[p] = at[p]
  BY <1>2 DEF TypeOK, Holds
<1>6. \A p \in Requests : IdOf(p)' = IdOf(p) /\ binding'[p] = binding[p]
  BY <1>2 DEF IdOf
<1>7. FreshIsFresh' /\ SavesAfterTheEnd'
  BY <1>2 DEF TypeOK, FreshIsFresh, SavesAfterTheEnd
<1>8. HolderHasReceipt'
  <2> SUFFICES ASSUME NEW p \in Requests, Holds(p)'
               PROVE  /\ binding[p] \in Bindings
                      /\ receipt'[IdOf(p)] \in {Pending(binding[p]), Terminal(binding[p])}
    BY <1>6 DEF HolderHasReceipt, Pending, Terminal
  <2>1. CASE p = q
    BY <2>1, <1>1, <1>2 DEF TypeOK
  <2>2. CASE p # q
    BY <2>2, <1>2, <1>4, <1>5 DEF TypeOK, HolderHasReceipt, IdOf
  <2> QED
    BY <2>1, <2>2
<1>9. HoldersApart'
  BY <1>4, <1>5, <1>6 DEF HoldersApart
<1>10. TerminalMeansOver'
  <2> SUFFICES ASSUME NEW p \in Requests, binding[p] \in Bindings,
                      receipt'[IdOf(p)].state = "terminal"
               PROVE  db[p] # "executing" /\ at'[p] \notin Live
    BY <1>2, <1>6 DEF TerminalMeansOver
  <2>1. IdOf(p) \in Ids /\ IdOf(p) # IdOf(q)
    BY <1>1, <1>2 DEF TypeOK, IdOf
  <2>2. p # q /\ receipt'[IdOf(p)] = receipt[IdOf(p)]
    BY <2>1, <1>2 DEF TypeOK
  <2> QED
    BY <2>2, <1>5 DEF TerminalMeansOver
<1>11. KnownReplyIsDurable'
  <2> SUFFICES ASSUME NEW p \in Requests, reply[p] = "known"
               PROVE  receipt'[IdOf(p)] = Terminal(binding[p])
    BY <1>2, <1>6 DEF KnownReplyIsDurable, Terminal
  <2>1. Holds(p) /\ binding[p] \in Bindings /\ IdOf(p) \in Ids
    BY DEF Holds, HolderHasReceipt, IdOf
  <2> QED
    BY <2>1, <1>2, <1>4 DEF TypeOK, KnownReplyIsDurable
<1>12. SavedIsTerminal'
  <2> SUFFICES ASSUME NEW p \in Requests, at'[p] = "saved"
               PROVE  receipt'[IdOf(p)] = Terminal(binding[p])
    BY <1>6 DEF SavedIsTerminal, Terminal
  <2>1. p # q /\ at[p] = "saved"
    BY <1>2 DEF TypeOK
  <2>2. Holds(p) /\ IdOf(p) \in Ids
    BY <2>1 DEF Holds, HolderHasReceipt, IdOf
  <2> QED
    BY <2>1, <2>2, <1>2, <1>4 DEF TypeOK, SavedIsTerminal
<1>13. AnswersAreReceipts'
  BY <1>1, <1>2, AnswersStay DEF TypeOK
<1> QED
  BY <1>3, <1>7, <1>8, <1>9, <1>10, <1>11, <1>12, <1>13

\* finish_type_execution turns the request's own pending receipt terminal;
\* nobody else holds the id, and its statement is not running.
LEMMA SaveReceiptIndInv ==
  ASSUME IndInv, NEW q \in Requests, SaveReceipt(q)
  PROVE  IndInv'
<1> USE ReceiptFacts DEF IndInv
<1>1. binding[q] \in Bindings /\ IdOf(q) \in Ids /\ Holds(q)
  BY DEF TypeOK, SaveReceipt, IdOf, Holds, Live
<1>2. /\ receipt' = [receipt EXCEPT ![IdOf(q)] = Terminal(binding[q])]
      /\ at' = [at EXCEPT ![q] = "saved"]
      /\ UNCHANGED <<binding, db, reply>> /\ UNCHANGED obsVars
      /\ receipt[IdOf(q)] = Pending(binding[q]) /\ at[q] = "save"
  BY DEF SaveReceipt
<1>3. TypeOK'
  BY <1>1, <1>2 DEF TypeOK, obsVars
<1>4. \A p \in Requests \ {q} : Holds(p) => IdOf(p) # IdOf(q)
  BY <1>1 DEF HoldersApart
<1>5. \A p \in Requests \ {q} : /\ Holds(p)' <=> Holds(p)
                                /\ at'[p] = at[p] /\ reply'[p] = reply[p]
  BY <1>2 DEF TypeOK, Holds
<1>6. \A p \in Requests : IdOf(p)' = IdOf(p) /\ binding'[p] = binding[p]
  BY <1>2 DEF IdOf
<1>7. FreshIsFresh' /\ SavesAfterTheEnd'
  BY <1>2 DEF TypeOK, FreshIsFresh, SavesAfterTheEnd
<1>8. HolderHasReceipt'
  <2> SUFFICES ASSUME NEW p \in Requests, Holds(p)'
               PROVE  /\ binding[p] \in Bindings
                      /\ receipt'[IdOf(p)] \in {Pending(binding[p]), Terminal(binding[p])}
    BY <1>6 DEF HolderHasReceipt, Pending, Terminal
  <2>1. CASE p = q
    BY <2>1, <1>1, <1>2 DEF TypeOK
  <2>2. CASE p # q
    BY <2>2, <1>2, <1>4, <1>5 DEF TypeOK, HolderHasReceipt, IdOf
  <2> QED
    BY <2>1, <2>2
<1>9. HoldersApart'
  BY <1>4, <1>5, <1>6 DEF HoldersApart
<1>10. TerminalMeansOver'
  <2> SUFFICES ASSUME NEW p \in Requests, binding[p] \in Bindings,
                      receipt'[IdOf(p)].state = "terminal"
               PROVE  db[p] # "executing" /\ at'[p] \notin Live
    BY <1>2, <1>6 DEF TerminalMeansOver
  <2>1. CASE p = q
    BY <2>1, <1>2 DEF TypeOK, SavesAfterTheEnd, Live
  <2>2. CASE p # q /\ IdOf(p) = IdOf(q)
    BY <2>2, <1>4, <1>5 DEF Holds
  <2>3. CASE p # q /\ IdOf(p) # IdOf(q)
    <3>1. IdOf(p) \in Ids /\ receipt'[IdOf(p)] = receipt[IdOf(p)]
      BY <2>3, <1>2 DEF TypeOK, IdOf
    <3> QED
      BY <2>3, <3>1, <1>5 DEF TerminalMeansOver
  <2> QED
    BY <2>1, <2>2, <2>3
<1>11. SavedIsTerminal' /\ KnownReplyIsDurable'
  <2> SUFFICES ASSUME NEW p \in Requests, at'[p] = "saved" \/ reply[p] = "known"
               PROVE  receipt'[IdOf(p)] = Terminal(binding[p])
    BY <1>2, <1>6 DEF SavedIsTerminal, KnownReplyIsDurable, Terminal
  <2>1. CASE p = q
    BY <2>1, <1>1, <1>2 DEF TypeOK
  <2>2. CASE p # q
    <3>1. Holds(p) /\ IdOf(p) \in Ids /\ IdOf(p) # IdOf(q)
      BY <2>2, <1>4, <1>5 DEF Holds, HolderHasReceipt, IdOf
    <3> QED
      BY <2>2, <3>1, <1>2, <1>5 DEF TypeOK, SavedIsTerminal, KnownReplyIsDurable
  <2> QED
    BY <2>1, <2>2
<1>12. AnswersAreReceipts'
  BY <1>1, <1>2, AnswersStay DEF TypeOK
<1> QED
  BY <1>3, <1>7, <1>8, <1>9, <1>10, <1>11, <1>12

\* An observer answers "terminal" from the receipt it reads, and changes none.
LEMMA ObserverIndInv ==
  ASSUME IndInv, NEW o \in Observers,
         \/ \E b \in Bindings : Observe(o, b)
         \/ FirstRead(o) \/ WaitOver(o) \/ SecondRead(o) \/ Forget(o)
  PROVE  IndInv'
<1>1. UNCHANGED <<receipt, reqVars>>
  BY DEF Observe, FirstRead, WaitOver, SecondRead, Forget
<1>2. /\ FreshIsFresh' /\ HolderHasReceipt' /\ HoldersApart' /\ SavesAfterTheEnd'
      /\ SavedIsTerminal' /\ TerminalMeansOver' /\ KnownReplyIsDurable'
  BY <1>1 DEF IndInv, reqVars, FreshIsFresh, HolderHasReceipt, HoldersApart, SavesAfterTheEnd,
              SavedIsTerminal, TerminalMeansOver, KnownReplyIsDurable, Holds, IdOf, Pending, Terminal
<1>3. \A b \in Bindings :
        /\ TypeExecutionTerminal(b) \in {"terminal", "unproven", "mismatch"}
        /\ TypeExecutionTerminal(b) = "terminal" => receipt[b.execution_id] = Terminal(b)
  <2> TAKE b \in Bindings
  <2> DEFINE x == receipt[b.execution_id]
  <2>1. CASE x = NoReceipt
    BY <2>1 DEF TypeExecutionTerminal
  <2>2. CASE x # NoReceipt /\ x.binding # b
    BY <2>2 DEF TypeExecutionTerminal
  <2>3. CASE x # NoReceipt /\ x.binding = b /\ x = Terminal(b)
    BY <2>3 DEF TypeExecutionTerminal
  <2>4. CASE x # NoReceipt /\ x.binding = b /\ x # Terminal(b)
    BY <2>4 DEF TypeExecutionTerminal
  <2> QED
    BY <2>1, <2>2, <2>3, <2>4
<1>4. TypeOK' /\ AnswersAreReceipts'
  <2> USE DEF IndInv, TypeOK, AnswersAreReceipts, reqVars
  <2>1. CASE \E b \in Bindings : Observe(o, b)
    BY <1>1, <2>1 DEF Observe
  <2>2. CASE FirstRead(o)
    <3>1. /\ obinding[o] \in Bindings
          /\ UNCHANGED obinding
      BY <2>2 DEF FirstRead
    <3>2. CASE receipt[obinding[o].execution_id] = Pending(obinding[o])
      <4>1. /\ opc' = [opc EXCEPT ![o] = "wait"]
            /\ oanswer' = [oanswer EXCEPT ![o] = "none"]
        BY <2>2, <3>2 DEF FirstRead
      <4> QED
        BY <1>1, <3>1, <4>1
    <3>3. CASE receipt[obinding[o].execution_id] # Pending(obinding[o])
      <4>1. /\ opc' = [opc EXCEPT ![o] = "answered"]
            /\ oanswer' = [oanswer EXCEPT ![o] = TypeExecutionTerminal(obinding[o])]
        BY <2>2, <3>3 DEF FirstRead
      <4> QED
        BY <1>1, <1>3, <3>1, <4>1
    <3> QED
      BY <3>2, <3>3
  <2>3. CASE WaitOver(o)
    BY <1>1, <2>3 DEF WaitOver
  <2>4. CASE SecondRead(o)
    BY <1>1, <1>3, <2>4 DEF SecondRead
  <2>5. CASE Forget(o)
    BY <1>1, <2>5 DEF Forget
  <2> QED
    BY <2>1, <2>2, <2>3, <2>4, <2>5
<1> QED
  BY <1>2, <1>4 DEF IndInv

\* A crash takes the requests and the observers and leaves the receipts.
LEMMA CrashIndInv ==
  ASSUME IndInv, Crash
  PROVE  IndInv'
<1>1. TypeOK'
  BY DEF IndInv, TypeOK, Crash
<1>2. Quiet
  BY DEF Crash, Quiet, Live
<1>3. FreshIsFresh' /\ SavesAfterTheEnd' /\ AnswersAreReceipts'
  BY DEF IndInv, Crash, FreshIsFresh, SavesAfterTheEnd, AnswersAreReceipts
<1> QED
  BY <1>1, <1>2, <1>3, QuietIndInv DEF IndInv

\* Every step preserves the invariant.
LEMMA NextIndInv == IndInv /\ [Next]_vars => IndInv'
<1> SUFFICES ASSUME IndInv, [Next]_vars PROVE IndInv'
  OBVIOUS
<1>1. CASE RequestNext
  BY <1>1, QuietRequestIndInv, RequestIndInv, ClaimIndInv, SaveReceiptIndInv DEF RequestNext
<1>2. CASE ObserverNext
  BY <1>2, ObserverIndInv DEF ObserverNext
<1>3. CASE Crash
  BY <1>3, CrashIndInv
<1>4. CASE UNCHANGED vars
  BY <1>4
  DEF IndInv, TypeOK, FreshIsFresh, HolderHasReceipt, HoldersApart, SavesAfterTheEnd, Holds, IdOf,
      SavedIsTerminal, TerminalMeansOver, KnownReplyIsDurable, AnswersAreReceipts, Pending, Terminal, vars, reqVars,
      obsVars
<1> QED
  BY <1>1, <1>2, <1>3, <1>4 DEF Next

-----------------------------------------------------------------------------
\* The inductive invariant holds in every reachable state.
THEOREM Invariance == Spec => []IndInv
  BY InitIndInv, NextIndInv, PTL DEF Spec

\* Type correctness of the receipts table, the requests and the observers.
THEOREM TypeCorrect == Spec => []TypeOK
<1>1. IndInv => TypeOK
  BY DEF IndInv
<1> QED
  BY <1>1, Invariance, PTL

\* At most once: no two requests ever hand the statement of one execution id
\* to the database, for any number of callers, retries and crashes.
THEOREM AtMostOnce == Spec => []NeverReplayed
<1>1. IndInv => NeverReplayed
  BY DEF IndInv, HoldersApart, Holds, NeverReplayed
<1> QED
  BY <1>1, Invariance, PTL

\* What an observer was told is true: a terminal answer is about the claimed
\* binding, and nothing of that id is running or will run.
THEOREM ObserverIsRight == Spec => []ObservedTerminalIsTrue
<1>1. IndInv => ObservedTerminalIsTrue
  BY ReceiptFacts
  DEF IndInv, AnswersAreReceipts, TerminalMeansOver, ObservedTerminalIsTrue, Live
<1> QED
  BY <1>1, Invariance, PTL

\* A result given to a caller is backed by a terminal receipt, which survives
\* every crash.
THEOREM RepliesAreDurable == Spec => []KnownReplyIsDurable
<1>1. IndInv => KnownReplyIsDurable
  BY DEF IndInv
<1> QED
  BY <1>1, Invariance, PTL

\* A receipt is never removed, rebound or taken back: the two writers are a
\* claim of an absent row and the update of the claimer's own pending one.
THEOREM ReceiptsStay == Spec => ReceiptIsForever
<1>1. IndInv /\ [Next]_vars =>
        [\A e \in Ids : receipt[e] # NoReceipt =>
           /\ receipt'[e] # NoReceipt
           /\ receipt'[e].binding = receipt[e].binding
           /\ receipt[e].state = "terminal" => receipt'[e].state = "terminal"]_vars
  <2> SUFFICES ASSUME IndInv, Next, NEW e \in Ids, receipt[e] # NoReceipt
               PROVE  /\ receipt'[e] # NoReceipt
                      /\ receipt'[e].binding = receipt[e].binding
                      /\ receipt[e].state = "terminal" => receipt'[e].state = "terminal"
    OBVIOUS
  <2>1. CASE UNCHANGED receipt
    BY <2>1
  <2>2. CASE \E q \in Requests : Claim(q)
    BY <2>2 DEF IndInv, TypeOK, Claim
  <2>3. CASE \E q \in Requests : SaveReceipt(q)
    <3>1. PICK q \in Requests : SaveReceipt(q)
      BY <2>3
    <3>2. binding[q] \in Bindings
      BY <3>1 DEF IndInv, TypeOK, SaveReceipt
    <3> QED
      BY <3>1, <3>2, ReceiptFacts DEF IndInv, TypeOK, SaveReceipt
  <2> QED
    BY <2>1, <2>2, <2>3
    DEF Next, RequestNext, ObserverNext, Crash, Request, Observe, FirstRead, WaitOver, SecondRead,
        Forget, ClaimRefused, ClaimFails, Abandon, RegisterAndSpawn, StartStatement,
        EndStatement, ResponseTimeout, FinishConditionalUpdate, ReturnResult, SaveFails, reqVars, obsVars
<1> QED
  BY <1>1, Invariance, PTL DEF Spec, ReceiptIsForever

-----------------------------------------------------------------------------
(* The receipts implement ExecuteOnce: every step of TypeExecution is a    *)
(* step of the abstract specification under the mapping Started, Running,  *)
(* Attested, Told, or leaves it alone.                                     *)

Mapped == <<Started, Running, Attested, Told>>

\* Before the first request nothing is started, attested or told.
LEMMA InitRefines == Init => Once!Init
<1> SUFFICES ASSUME Init PROVE Once!Init
  OBVIOUS
<1>1. \A q \in Requests : db[q] = "none" /\ reply[q] = "none"
  BY DEF Init
<1>2. Started = [e \in Ids |-> {}] /\ Running = {}
  BY <1>1 DEF Started, Running, Of
<1>3. Attested = {}
  BY ReceiptFacts DEF Init, Attested
<1>4. Told = {}
  BY <1>1 DEF Init, Told, Of
<1> QED
  BY <1>2, <1>3, <1>4 DEF Once!Init

\* What the mapping reads of the requests: a step that keeps the statements and
\* the positive replies of every request that has one, keeps the mapping.
LEMMA RequestFrame ==
  ASSUME \A p \in Requests : /\ db'[p] = db[p]
                             /\ reply'[p] = "known" <=> reply[p] = "known"
                             /\ db[p] # "none" \/ reply[p] = "known" => binding'[p] = binding[p]
  PROVE  Started' = Started /\ Running' = Running
<1>1. \A e \in Ids : {q \in Of(e) : db[q] # "none"}' = {q \in Of(e) : db[q] # "none"}
  BY DEF Of, IdOf
<1>2. \A e \in Ids : (\E q \in Of(e) : db[q] = "executing")' <=> (\E q \in Of(e) : db[q] = "executing")
  BY DEF Of, IdOf
<1> QED
  BY <1>1, <1>2 DEF Started, Running

\* A step that writes no terminal receipt and gives no positive answer does
\* nothing that ExecuteOnce can see.
LEMMA QuietRefines ==
  ASSUME IndInv, NEW q \in Requests,
         \/ \E b \in Bindings : Request(q, b)
         \/ Claim(q) \/ ClaimRefused(q) \/ ClaimFails(q) \/ Abandon(q)
         \/ RegisterAndSpawn(q) \/ ResponseTimeout(q) \/ FinishConditionalUpdate(q) \/ SaveFails(q)
  PROVE  UNCHANGED Mapped
<1>1. UNCHANGED <<db, oanswer, obinding>>
  BY DEF Request, Claim, ClaimRefused, ClaimFails, Abandon, RegisterAndSpawn, ResponseTimeout,
         FinishConditionalUpdate, SaveFails, obsVars
<1>2. \A p \in Requests : reply'[p] = "known" <=> reply[p] = "known"
  BY DEF IndInv, TypeOK, Answer, Request, Claim, ClaimRefused, ClaimFails, Abandon,
         RegisterAndSpawn, ResponseTimeout, FinishConditionalUpdate, SaveFails
<1>3. \A p \in Requests : db[p] # "none" \/ reply[p] = "known" => binding'[p] = binding[p]
  BY DEF IndInv, TypeOK, FreshIsFresh, Request, Claim, ClaimRefused, ClaimFails, Abandon,
         RegisterAndSpawn, ResponseTimeout, FinishConditionalUpdate, SaveFails
<1>4. Started' = Started /\ Running' = Running
  BY <1>1, <1>2, <1>3, RequestFrame
<1>5. Attested' = Attested
  <2>1. CASE UNCHANGED receipt
    BY <2>1 DEF Attested
  <2>2. CASE Claim(q)
    <3>1. binding[q] \in Bindings /\ IdOf(q) \in Ids
      BY <2>2, ReceiptFacts DEF IndInv, TypeOK, Claim, IdOf
    <3>2. /\ receipt' = [receipt EXCEPT ![IdOf(q)] = Pending(binding[q])]
          /\ receipt[IdOf(q)].state = "absent"
          /\ Pending(binding[q]).state = "pending"
      BY <2>2, <3>1, ReceiptFacts DEF Claim
    <3> QED
      BY <3>1, <3>2 DEF IndInv, TypeOK, Attested
  <2> QED
    BY <2>1, <2>2
    DEF Request, ClaimRefused, ClaimFails, Abandon, RegisterAndSpawn, ResponseTimeout,
        FinishConditionalUpdate, SaveFails
<1>6. Told' = Told
  <2>1. \A e \in Ids : (\E p \in Of(e) : reply[p] = "known")' <=> (\E p \in Of(e) : reply[p] = "known")
    BY <1>2, <1>3 DEF Of, IdOf
  <2> QED
    BY <1>1, <2>1 DEF Told
<1> QED
  BY <1>4, <1>5, <1>6 DEF Mapped

\* The statement of a granted claim starts: nobody ran the id before, and its
\* receipt is not terminal.
LEMMA StartRefines ==
  ASSUME IndInv, NEW q \in Requests, StartStatement(q)
  PROVE  Once!Start(q, IdOf(q)) /\ IdOf(q) \in Ids
<1> DEFINE e == IdOf(q)
<1>1. /\ at[q] = "execute" /\ db[q] = "none"
      /\ db' = [db EXCEPT ![q] = "executing"]
      /\ UNCHANGED <<receipt, binding, reply, oanswer, obinding>>
  BY DEF StartStatement, obsVars
<1>2. binding[q] \in Bindings /\ e \in Ids /\ Holds(q)
  BY <1>1, ReceiptFacts DEF IndInv, TypeOK, IdOf, Holds, Live
<1>3. \A p \in Requests : p # q /\ Holds(p) => IdOf(p) # e
  BY <1>2 DEF IndInv, HoldersApart
<1>4. \A p \in Of(e) : db[p] = "none"
  BY <1>1, <1>3 DEF Of, Holds
<1>5. Started[e] = {}
  BY <1>2, <1>4 DEF Started
<1>6. e \notin Attested
  BY <1>1, <1>2 DEF IndInv, TerminalMeansOver, Attested, Live
<1>7. \A x \in Ids : Of(x)' = Of(x)
  BY <1>1 DEF Of, IdOf
<1>8. q \in Of(e) /\ \A x \in Ids : x # e => q \notin Of(x)
  BY <1>2 DEF Of
<1>9. /\ db'[q] = "executing"
      /\ \A p \in Requests : p # q => db'[p] = db[p]
  BY <1>1 DEF IndInv, TypeOK
<1>10. Started' = [Started EXCEPT ![e] = {q}]
  <2>1. {p \in Of(e) : db'[p] # "none"} = {q}
    BY <1>4, <1>8, <1>9 DEF Of
  <2>2. \A x \in Ids : x # e => {p \in Of(x) : db'[p] # "none"} = {p \in Of(x) : db[p] # "none"}
    BY <1>8, <1>9 DEF Of
  <2>3. Started' = [x \in Ids |-> {p \in Of(x) : db'[p] # "none"}]
    BY <1>7 DEF Started
  <2> QED
    BY <1>2, <2>1, <2>2, <2>3 DEF Started
<1>11. Running' = Running \cup {e}
  <2>1. Running' = {x \in Ids : \E p \in Of(x) : db'[p] = "executing"}
    BY <1>7 DEF Running
  <2>2. \A x \in Ids : x # e => ((\E p \in Of(x) : db'[p] = "executing") <=> \E p \in Of(x) : db[p] = "executing")
    BY <1>8, <1>9 DEF Of
  <2>3. \E p \in Of(e) : db'[p] = "executing"
    BY <1>8, <1>9
  <2> QED
    BY <1>2, <2>1, <2>2, <2>3 DEF Running
<1>12. Attested' = Attested /\ Told' = Told
  <2>1. Attested' = Attested
    BY <1>1 DEF Attested
  <2>2. Told' = Told
    BY <1>1, <1>7 DEF Told
  <2> QED
    BY <2>1, <2>2
<1> QED
  BY <1>2, <1>5, <1>6, <1>10, <1>11, <1>12 DEF Once!Start

\* The database ends the one statement of its id.
LEMMA EndRefines ==
  ASSUME IndInv, NEW q \in Requests, EndStatement(q)
  PROVE  Once!End(IdOf(q)) /\ IdOf(q) \in Ids
<1> DEFINE e == IdOf(q)
<1>1. /\ db[q] = "executing"
      /\ db' = [db EXCEPT ![q] = "ended"]
      /\ UNCHANGED <<receipt, binding, reply, oanswer, obinding>>
  BY DEF EndStatement, obsVars
<1>2. binding[q] \in Bindings /\ e \in Ids /\ Holds(q)
  BY <1>1, ReceiptFacts DEF IndInv, HolderHasReceipt, IdOf, Holds
<1>3. \A p \in Requests : p # q /\ db[p] = "executing" => IdOf(p) # e
  BY <1>2 DEF IndInv, HoldersApart, Holds
<1>4. \A x \in Ids : Of(x)' = Of(x)
  BY <1>1 DEF Of, IdOf
<1>5. /\ db'[q] = "ended"
      /\ \A p \in Requests : p # q => db'[p] = db[p]
  BY <1>1 DEF IndInv, TypeOK
<1>6. q \in Of(e) /\ \A x \in Ids : x # e => q \notin Of(x)
  BY <1>2 DEF Of
<1>7. Started' = Started
  <2>1. \A x \in Ids : {p \in Of(x) : db'[p] # "none"} = {p \in Of(x) : db[p] # "none"}
    BY <1>1, <1>5 DEF Of
  <2> QED
    BY <1>4, <2>1 DEF Started
<1>8. e \in Running
  BY <1>1, <1>2, <1>6 DEF Running
<1>9. Running' = Running \ {e}
  <2>1. Running' = {x \in Ids : \E p \in Of(x) : db'[p] = "executing"}
    BY <1>4 DEF Running
  <2>2. \A x \in Ids : x # e => ((\E p \in Of(x) : db'[p] = "executing") <=> \E p \in Of(x) : db[p] = "executing")
    BY <1>5, <1>6 DEF Of
  <2>3. ~ \E p \in Of(e) : db'[p] = "executing"
    BY <1>3, <1>5 DEF Of
  <2> QED
    BY <2>1, <2>2, <2>3 DEF Running
<1>10. Attested' = Attested
  BY <1>1 DEF Attested
<1>11. Told' = Told
  BY <1>1, <1>4 DEF Told
<1> QED
  BY <1>2, <1>7, <1>8, <1>9, <1>10, <1>11 DEF Once!End

\* finish_type_execution attests an id whose statement is not running.
LEMMA AttestRefines ==
  ASSUME IndInv, NEW q \in Requests, SaveReceipt(q)
  PROVE  Once!Attest(IdOf(q)) /\ IdOf(q) \in Ids
<1> DEFINE e == IdOf(q)
<1>1. /\ at[q] = "save"
      /\ receipt' = [receipt EXCEPT ![e] = Terminal(binding[q])]
      /\ UNCHANGED <<binding, db, reply, oanswer, obinding>>
  BY DEF SaveReceipt, obsVars
<1>2. binding[q] \in Bindings /\ e \in Ids /\ Holds(q)
  BY <1>1, ReceiptFacts DEF IndInv, TypeOK, IdOf, Holds, Live
<1>3. e \notin Running
  <2>1. db[q] # "executing"
    BY <1>1 DEF IndInv, SavesAfterTheEnd
  <2>2. \A p \in Requests : p # q /\ db[p] = "executing" => IdOf(p) # e
    BY <1>2 DEF IndInv, HoldersApart, Holds
  <2> QED
    BY <2>1, <2>2 DEF Running, Of
<1>4. \A x \in Ids : Of(x)' = Of(x)
  BY <1>1 DEF Of, IdOf
<1>5. Started' = Started /\ Running' = Running
  <2>1. Started' = Started
    BY <1>1, <1>4 DEF Started
  <2>2. Running' = Running
    BY <1>1, <1>4 DEF Running
  <2> QED
    BY <2>1, <2>2
<1>6. Attested' = Attested \cup {e}
  <2>1. Terminal(binding[q]).state = "terminal"
    BY <1>2, ReceiptFacts
  <2>2. receipt'[e] = Terminal(binding[q]) /\ \A x \in Ids : x # e => receipt'[x] = receipt[x]
    BY <1>1, <1>2 DEF IndInv, TypeOK
  <2> QED
    BY <1>2, <2>1, <2>2 DEF Attested
<1>7. Told' = Told
  BY <1>1, <1>4 DEF Told
<1> QED
  BY <1>2, <1>3, <1>5, <1>6, <1>7 DEF Once!Attest

\* The result is returned: a caller who still waits is told of an attested id.
LEMMA ReturnRefines ==
  ASSUME IndInv, NEW q \in Requests, ReturnResult(q)
  PROVE  IdOf(q) \in Ids /\ (Once!Tell(IdOf(q)) \/ UNCHANGED Mapped)
<1> DEFINE e == IdOf(q)
<1>1. /\ at[q] = "saved"
      /\ reply' = [reply EXCEPT ![q] = IF @ = "none" THEN "known" ELSE @]
      /\ UNCHANGED <<receipt, binding, db, oanswer, obinding>>
  BY DEF ReturnResult, Answer, obsVars
<1>2. binding[q] \in Bindings /\ e \in Ids
  BY <1>1, ReceiptFacts DEF IndInv, TypeOK, IdOf
<1>3. e \in Attested
  BY <1>1, <1>2, ReceiptFacts DEF IndInv, SavedIsTerminal, Attested
<1>4. \A x \in Ids : Of(x)' = Of(x)
  BY <1>1 DEF Of, IdOf
<1>5. Started' = Started /\ Running' = Running /\ Attested' = Attested
  <2>1. Started' = Started
    BY <1>1, <1>4 DEF Started
  <2>2. Running' = Running
    BY <1>1, <1>4 DEF Running
  <2>3. Attested' = Attested
    BY <1>1 DEF Attested
  <2> QED
    BY <2>1, <2>2, <2>3
<1>6. Told' = {x \in Ids :
                \/ \E p \in Of(x) : reply'[p] = "known"
                \/ \E o \in Observers : oanswer[o] = "terminal" /\ obinding[o].execution_id = x}
  BY <1>1, <1>4 DEF Told
<1>7. CASE reply[q] = "none"
  <2>1. reply'[q] = "known" /\ \A p \in Requests : p # q => reply'[p] = reply[p]
    BY <1>1, <1>7 DEF IndInv, TypeOK
  <2>2. q \in Of(e) /\ \A x \in Ids : x # e => q \notin Of(x)
    BY <1>2 DEF Of
  <2>3. \A x \in Ids : x # e =>
          ((\E p \in Of(x) : reply'[p] = "known") <=> \E p \in Of(x) : reply[p] = "known")
    BY <2>1, <2>2 DEF Of
  <2>4. Told' = Told \cup {e}
    BY <1>2, <1>6, <2>1, <2>2, <2>3 DEF Told
  <2> QED
    BY <1>2, <1>3, <1>5, <2>4 DEF Once!Tell
<1>8. CASE reply[q] # "none"
  <2>1. UNCHANGED reply
    BY <1>1, <1>8 DEF IndInv, TypeOK
  <2>2. Told' = Told
    BY <1>6, <2>1 DEF Told
  <2> QED
    BY <1>2, <1>5, <2>2 DEF Mapped
<1> QED
  BY <1>7, <1>8

\* A step that touches only the answers of observers, and leaves the other
\* observers' answers alone, changes only what is told.
LEMMA ObserverFrame ==
  ASSUME UNCHANGED <<receipt, reqVars>>
  PROVE  /\ Started' = Started /\ Running' = Running /\ Attested' = Attested
         /\ \A x \in Ids : Of(x)' = Of(x)
         /\ UNCHANGED reply
<1>1. UNCHANGED <<receipt, binding, db, reply>>
  BY DEF reqVars
<1>2. \A x \in Ids : Of(x)' = Of(x)
  BY <1>1 DEF Of, IdOf
<1>3. Started' = Started
  BY <1>1, <1>2 DEF Started
<1>4. Running' = Running
  BY <1>1, <1>2 DEF Running
<1>5. Attested' = Attested
  BY <1>1 DEF Attested
<1> QED
  BY <1>1, <1>2, <1>3, <1>4, <1>5

\* An observer reads: if the receipt is terminal, its caller is told of an
\* attested id; if not, nothing happens that ExecuteOnce can see.
LEMMA ReadRefines ==
  ASSUME IndInv, NEW o \in Observers, FirstRead(o) \/ SecondRead(o)
  PROVE  UNCHANGED Mapped \/ \E e \in Ids : Once!Tell(e)
<1> DEFINE b == obinding[o]
           e == b.execution_id
<1>1. /\ UNCHANGED obinding /\ UNCHANGED <<receipt, reqVars>>
      /\ opc[o] \in {"first", "second"}
      /\ \E a : oanswer' = [oanswer EXCEPT ![o] = a] /\ a \in {"none", TypeExecutionTerminal(b)}
  BY DEF FirstRead, SecondRead
<1>2. b \in Bindings /\ e \in Ids /\ oanswer[o] # "terminal"
  BY <1>1, ReceiptFacts DEF IndInv, TypeOK, AnswersAreReceipts
<1>3. TypeExecutionTerminal(b) = "terminal" => receipt[e] = Terminal(b)
  BY DEF TypeExecutionTerminal
<1>4. /\ Started' = Started /\ Running' = Running /\ Attested' = Attested
      /\ \A x \in Ids : Of(x)' = Of(x)
      /\ UNCHANGED reply
  BY <1>1, ObserverFrame
<1>5. \A p \in Observers : p # o => oanswer'[p] = oanswer[p]
  BY <1>1 DEF IndInv, TypeOK
<1>6. Told' = {x \in Ids :
                \/ \E q \in Of(x) : reply[q] = "known"
                \/ \E p \in Observers : oanswer'[p] = "terminal" /\ obinding[p].execution_id = x}
  BY <1>1, <1>4 DEF Told
<1>7. CASE oanswer'[o] = "terminal"
  <2>1. receipt[e] = Terminal(b)
    BY <1>1, <1>3, <1>7 DEF IndInv, TypeOK
  <2>2. e \in Attested
    BY <1>2, <2>1, ReceiptFacts DEF Attested
  <2>3. Told' = Told \cup {e}
    BY <1>2, <1>5, <1>6, <1>7 DEF Told
  <2>4. Once!Tell(e)
    BY <1>4, <2>2, <2>3 DEF Once!Tell
  <2> QED
    BY <1>2, <2>4
<1>8. CASE oanswer'[o] # "terminal"
  <2>1. \A p \in Observers : oanswer'[p] = "terminal" <=> oanswer[p] = "terminal"
    BY <1>2, <1>5, <1>8
  <2>2. Told' = Told
    BY <1>6, <2>1 DEF Told
  <2> QED
    BY <1>4, <2>2 DEF Mapped
<1> QED
  BY <1>7, <1>8

\* Asking, waiting and forgetting give nobody a new answer.
LEMMA ForgetRefines ==
  ASSUME IndInv, NEW o \in Observers,
         (\E b \in Bindings : Observe(o, b)) \/ WaitOver(o) \/ Forget(o)
  PROVE  Once!Forget
<1>1. UNCHANGED <<receipt, reqVars>>
  BY DEF Observe, WaitOver, Forget
<1>2. \A p \in Observers : oanswer'[p] = "terminal" => /\ oanswer[p] = "terminal"
                                                      /\ obinding'[p] = obinding[p]
  BY DEF IndInv, TypeOK, AnswersAreReceipts, Observe, WaitOver, Forget
<1>3. /\ Started' = Started /\ Running' = Running /\ Attested' = Attested
      /\ \A x \in Ids : Of(x)' = Of(x)
      /\ UNCHANGED reply
  BY <1>1, ObserverFrame
<1>4. Told' \in SUBSET Told
  BY <1>2, <1>3 DEF Told
<1> QED
  BY <1>3, <1>4 DEF Once!Forget

\* A crash loses answers and nothing else that ExecuteOnce speaks of.
LEMMA CrashRefines ==
  ASSUME IndInv, Crash
  PROVE  Once!Forget
<1>1. /\ UNCHANGED <<receipt, binding, db, reply>>
      /\ \A p \in Observers : oanswer'[p] = "none"
  BY DEF Crash
<1>2. \A x \in Ids : Of(x)' = Of(x)
  BY <1>1 DEF Of, IdOf
<1>3. Started' = Started
  BY <1>1, <1>2 DEF Started
<1>4. Running' = Running
  BY <1>1, <1>2 DEF Running
<1>5. Attested' = Attested
  BY <1>1 DEF Attested
<1>6. Told' \in SUBSET Told
  BY <1>1, <1>2 DEF Told
<1> QED
  BY <1>3, <1>4, <1>5, <1>6 DEF Once!Forget

\* Every step implements a step of ExecuteOnce or leaves it alone.
LEMMA NextRefines == IndInv /\ [Next]_vars => [Once!Next]_(Once!vars)
<1> SUFFICES ASSUME IndInv, [Next]_vars PROVE Once!Next \/ UNCHANGED Mapped
  BY DEF Once!vars, Mapped
<1>1. CASE RequestNext
  <2>1. PICK q \in Requests :
          \/ \E b \in Bindings : Request(q, b)
          \/ Claim(q) \/ ClaimRefused(q) \/ ClaimFails(q) \/ Abandon(q)
          \/ RegisterAndSpawn(q) \/ StartStatement(q) \/ EndStatement(q)
          \/ ResponseTimeout(q) \/ FinishConditionalUpdate(q)
          \/ SaveReceipt(q) \/ ReturnResult(q) \/ SaveFails(q)
    BY <1>1 DEF RequestNext
  <2>2. CASE StartStatement(q)
    BY <2>2, StartRefines DEF Once!Next
  <2>3. CASE EndStatement(q)
    BY <2>3, EndRefines DEF Once!Next
  <2>4. CASE SaveReceipt(q)
    BY <2>4, AttestRefines DEF Once!Next
  <2>5. CASE ReturnResult(q)
    BY <2>5, ReturnRefines DEF Once!Next
  <2> QED
    BY <2>1, <2>2, <2>3, <2>4, <2>5, QuietRefines
<1>2. CASE ObserverNext
  BY <1>2, ReadRefines, ForgetRefines DEF ObserverNext, Once!Next
<1>3. CASE Crash
  BY <1>3, CrashRefines DEF Once!Next
<1>4. CASE UNCHANGED vars
  <2>1. UNCHANGED <<receipt, reqVars>> /\ UNCHANGED obsVars
    BY <1>4 DEF vars
  <2>2. /\ Started' = Started /\ Running' = Running /\ Attested' = Attested
        /\ \A x \in Ids : Of(x)' = Of(x)
        /\ UNCHANGED <<reply, oanswer, obinding>>
    BY <2>1, ObserverFrame DEF obsVars
  <2>3. Told' = Told
    BY <2>2 DEF Told
  <2> QED
    BY <2>2, <2>3 DEF Mapped
<1> QED
  BY <1>1, <1>2, <1>3, <1>4 DEF Next

\* The receipts of type_execution_receipts.rs implement ExecuteOnce, for any
\* sets of ids, requests and observers and any number of crashes.
THEOREM ReceiptsImplementExecuteOnce == Spec => ImplementsExecuteOnce
  BY InitRefines, NextRefines, Invariance, PTL DEF Spec, ImplementsExecuteOnce, Once!Spec
=============================================================================
