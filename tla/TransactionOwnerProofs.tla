----------------------- MODULE TransactionOwnerProofs -----------------------
(***************************************************************************)
(* Proofs about the transaction owner of the MCP server, for any number of *)
(* calls, closers and transactions and all server settings.                *)
(***************************************************************************)
EXTENDS TransactionOwner, SequenceTheorems, TLAPS

\* The last transaction, and whether it is in one of the states f.
Last == fate[Len(fate)]
EndsIn(f) == Len(fate) > 0 /\ Last \in f

\* The owner is between two commands, or has one and has not sent its SQL.
Quiet == opc \in {"recv", "select"}
\* It has taken a command up.
Handling == opc \in {"select", "wait", "probe"}
\* It has left its loop.
Ending == opc \in {"cleanup", "rollback", "disconnect", "close", "closed"}

Definite == status.outcome \in {"committed", "rolled_back"}

\* A command the owner holds, or has in its channel, belongs to a call that
\* still waits for it or was dropped; so nobody else's operation is put in its
\* place, and the operation is one that the status allows.
CommandInv ==
  /\ \A c \in Calls : dropped[c] => cpc[c] = "new"
  /\ channel # <<>> =>
       /\ cpc[Head(channel)] = "sent" \/ dropped[Head(channel)]
       /\ Handling => cur # Head(channel)
  /\ Handling =>
       /\ cur \in Calls
       /\ cpc[cur] = "sent" \/ dropped[cur]
       /\ ~Invalid(cop[cur], status.state)

\* What is on the wire: nothing between two commands, never a START
\* TRANSACTION that would commit an open transaction in passing, and never a
\* COMMIT that was not counted.  A good answer still tells the truth.
WireInv ==
  /\ answer # None => wire = None /\ link # "down"
  /\ answer # None /\ answer.ok => (answer.in_transaction <=> Open)
  /\ link = "down" => ~Open
  /\ Quiet => wire = None
  /\ wire = "BEGIN" => ~Open
  /\ wire = "COMMIT" /\ Open => asked[Len(fate)] = 1

\* The status between two commands, and what a definite outcome says.
StatusInv ==
  /\ status.state = "active" => status.outcome = None
  /\ status.state = "unknown" => status.outcome = "unknown" /\ Ending
  /\ Definite => statusTx \in 1 .. Len(fate) /\ fate[statusTx] = status.outcome
  /\ Quiet /\ Definite => statusTx = Len(fate)
  /\ Quiet /\ status.state = "idle" => ~Open
  /\ Quiet /\ status.state = "active" /\ link # "down" => Open
  /\ opc = "cleanup" /\ status.state = "active" => wire = None /\ (link # "down" => Open)

\* While the owner waits for a statement in an active transaction: that it is
\* the last one, and how it may have ended once there is an answer.
WaitInv ==
  /\ opc = "wait" => wire \in {None, Sql(cop[cur])}
  /\ opc = "wait" /\ status.state = "active" /\ link # "down" =>
       /\ wire # None => Open
       /\ answer # None /\ answer.ok /\ ~answer.in_transaction =>
            /\ cop[cur] = "commit" => EndsIn({"committed"})
            /\ cop[cur] = "rollback" => EndsIn({"rolled_back"})
       /\ answer # None /\ ~answer.ok /\ cop[cur] # "commit" => EndsIn({"open", "rolled_back"})
  /\ opc = "probe" => wire \in {None, "PING"} /\ cop[cur] # "commit" /\ (answer # None => answer.ok)
  /\ opc = "probe" /\ status.state = "active" => EndsIn({"open", "rolled_back"})
  /\ opc = "rollback" => wire \in {None, "ROLLBACK"} /\ status.state = "active"
  /\ opc = "rollback" /\ link # "down" =>
       /\ wire # None => Open
       /\ answer # None /\ answer.ok /\ ~answer.in_transaction => EndsIn({"rolled_back"})

\* COMMIT is counted once for a transaction, after which the owner either
\* waits for its answer or no longer knows.
AskedInv ==
  /\ \A t \in 1 .. MaxTx :
       /\ asked[t] <= 1
       /\ t > Len(fate) => asked[t] = 0
       /\ t <= Len(fate) /\ fate[t] = "committed" => asked[t] = 1
  /\ Open /\ asked[Len(fate)] # 0 =>
       status.state = "unknown" \/ (opc = "wait" /\ cop[cur] = "commit")

IndInv == TypeOK /\ CommandInv /\ WireInv /\ StatusInv /\ WaitInv /\ AskedInv

-----------------------------------------------------------------------------
\* Nothing has been sent, opened or told at the start.
LEMMA InitIndInv == Init => IndInv
<1> SUFFICES ASSUME Init PROVE IndInv
  OBVIOUS
<1> USE SettingsAssumption, NoneAssumption DEF Init
<1>1. TypeOK
  <2>1. status \in Status
    BY DEF Status, Stat, States, Outcomes
  <2>2. /\ channel \in Seq(Calls) /\ Len(channel) <= 1
        /\ fate \in Seq({"open", "committed", "rolled_back"}) /\ Len(fate) <= MaxTx
    BY EmptySeq
  <2>3. /\ asked \in [1 .. MaxTx -> Nat] /\ statusTx \in 0 .. MaxTx
    OBVIOUS
  <2> QED
    BY <2>1, <2>2, <2>3 DEF TypeOK, Ops
<1>2. ~Open /\ Len(fate) = 0
  BY DEF Open
<1>3. CommandInv
  BY DEF CommandInv, Handling
<1>4. WireInv /\ StatusInv /\ WaitInv
  BY <1>2 DEF WireInv, StatusInv, WaitInv, Stat, Quiet, Definite
<1>5. AskedInv
  BY <1>2 DEF AskedInv
<1> QED
  BY <1>1, <1>3, <1>4, <1>5 DEF IndInv

-----------------------------------------------------------------------------
(* Steps that leave the server, the status and the owner's place alone.    *)

\* What the server, the owner's place and its status say survives a step that
\* changes none of them, nor the operation of the command that is handled.
LEMMA KeepsCore ==
  ASSUME IndInv, UNCHANGED serverVars, UNCHANGED <<status, statusTx, opc, cur>>,
         Handling => cop'[cur] = cop[cur]
  PROVE  WireInv' /\ StatusInv' /\ WaitInv' /\ AskedInv'
<1> USE DEF serverVars
<1>1. (Open' <=> Open) /\ (Quiet' <=> Quiet) /\ (Handling' <=> Handling)
      /\ (Ending' <=> Ending) /\ (Definite' <=> Definite)
  BY DEF Open, Quiet, Handling, Ending, Definite
<1>2. \A f : EndsIn(f)' <=> EndsIn(f)
  BY DEF EndsIn, Last
<1>3. opc \in {"wait", "probe"} => cop'[cur] = cop[cur]
  BY DEF Handling
<1>4. WireInv'
  BY <1>1 DEF IndInv, WireInv
<1>5. StatusInv'
  BY <1>1 DEF IndInv, StatusInv
<1>6. WaitInv'
  BY <1>1, <1>2, <1>3 DEF IndInv, WaitInv
<1>7. AskedInv'
  BY <1>1, <1>3 DEF IndInv, AskedInv
<1> QED
  BY <1>4, <1>5, <1>6, <1>7

\* A call takes the permit: it is not the one whose command is handled, which
\* has not ended, and if it was dropped has not been answered.
LEMMA AcquireStep ==
  ASSUME IndInv, NEW c \in Calls, NEW o \in Ops, Acquire(c, o)
  PROVE  IndInv'
<1> USE DEF Acquire, ownerVars, serverVars, closerVars
<1>1. TypeOK'
  BY DEF IndInv, TypeOK
<1>2. /\ \A d \in Calls : d # c => cpc'[d] = cpc[d] /\ cop'[d] = cop[d]
      /\ cpc'[c] = "check" /\ ~dropped[c] /\ cpc[c] = "new"
  BY DEF IndInv, TypeOK
<1>3. channel # <<>> => Head(channel) \in Calls /\ Head(channel) # c
  BY <1>2, HeadTailProperties DEF IndInv, TypeOK, CommandInv
<1>4. Handling => cur \in Calls /\ cur # c
  BY <1>2 DEF IndInv, CommandInv
<1>5. CommandInv'
  BY <1>2, <1>3, <1>4 DEF IndInv, CommandInv, Handling
<1>6. WireInv' /\ StatusInv' /\ WaitInv' /\ AskedInv'
  BY <1>2, <1>4, KeepsCore
<1> QED
  BY <1>1, <1>5, <1>6 DEF IndInv

\* A call is given or refused its lease.
LEMMA CheckLeaseStep ==
  ASSUME IndInv, NEW c \in Calls, CheckLease(c)
  PROVE  IndInv'
<1> USE DEF CheckLease, Done, ownerVars, serverVars, closerVars
<1>1. TypeOK'
  <2>1. /\ cpc' \in [Calls -> {"new", "check", "leased", "sent"}]
        /\ cop' \in [Calls -> Ops]
    <3>1. CASE closed \/ cancelled \/ status.state = "unknown"
      BY <3>1 DEF IndInv, TypeOK, Ops
    <3>2. CASE ~(closed \/ cancelled \/ status.state = "unknown")
      BY <3>2 DEF IndInv, TypeOK
    <3> QED
      BY <3>1, <3>2
  <2> QED
    BY <2>1 DEF IndInv, TypeOK
<1>2. /\ \A d \in Calls : d # c => cpc'[d] = cpc[d] /\ cop'[d] = cop[d]
      /\ cpc[c] = "check"
  BY DEF IndInv, TypeOK
<1>3. ~dropped[c]
  BY <1>2 DEF IndInv, CommandInv
<1>4. channel # <<>> => Head(channel) \in Calls /\ Head(channel) # c
  BY <1>2, <1>3, HeadTailProperties DEF IndInv, TypeOK, CommandInv
<1>5. Handling => cur \in Calls /\ cur # c
  BY <1>2, <1>3 DEF IndInv, CommandInv
<1>6. CommandInv'
  BY <1>2, <1>3, <1>4, <1>5 DEF IndInv, CommandInv, Handling
<1>7. WireInv' /\ StatusInv' /\ WaitInv' /\ AskedInv'
  BY <1>2, <1>5, KeepsCore
<1> QED
  BY <1>1, <1>6, <1>7 DEF IndInv

\* A command enters the empty channel.
LEMMA SendCommandStep ==
  ASSUME IndInv, NEW c \in Calls, SendCommand(c)
  PROVE  IndInv'
<1> USE DEF SendCommand, serverVars, closerVars
<1>1. channel = <<>> /\ channel' = <<c>>
  BY EmptySeq DEF IndInv, TypeOK
<1>2. TypeOK'
  BY <1>1 DEF IndInv, TypeOK
<1>3. /\ \A d \in Calls : d # c => cpc'[d] = cpc[d]
      /\ cpc[c] = "leased" /\ cpc'[c] = "sent" /\ cop' = cop
  BY DEF IndInv, TypeOK
<1>4. ~dropped[c]
  BY <1>3 DEF IndInv, CommandInv
<1>5. Handling => cur \in Calls /\ cur # c
  BY <1>3, <1>4 DEF IndInv, CommandInv
<1>6. channel' # <<>> /\ Head(channel') = c
  BY <1>1
<1>7. CommandInv'
  BY <1>3, <1>4, <1>5, <1>6 DEF IndInv, CommandInv, Handling
<1>8. WireInv' /\ StatusInv' /\ WaitInv' /\ AskedInv'
  BY <1>3, KeepsCore
<1> QED
  BY <1>2, <1>7, <1>8 DEF IndInv

\* The owner is gone: the call ends.
LEMMA SendFailsStep ==
  ASSUME IndInv, NEW c \in Calls, SendFails(c)
  PROVE  IndInv'
<1> USE DEF SendFails, Done, ownerVars, serverVars, closerVars
<1>1. TypeOK'
  BY DEF IndInv, TypeOK, Ops
<1>2. /\ \A d \in Calls : d # c => cpc'[d] = cpc[d] /\ cop'[d] = cop[d]
      /\ cpc[c] = "leased" /\ ~Handling
  BY DEF IndInv, TypeOK, Handling
<1>3. ~dropped[c]
  BY <1>2 DEF IndInv, CommandInv
<1>4. channel # <<>> => Head(channel) \in Calls /\ Head(channel) # c
  BY <1>2, <1>3, HeadTailProperties DEF IndInv, TypeOK, CommandInv
<1>5. CommandInv'
  BY <1>2, <1>3, <1>4 DEF IndInv, CommandInv, Handling
<1>6. WireInv' /\ StatusInv' /\ WaitInv' /\ AskedInv'
  BY <1>2, KeepsCore
<1> QED
  BY <1>1, <1>5, <1>6 DEF IndInv

\* A dropped call is marked when its command is under way, and keeps its
\* operation.
LEMMA DropCallStep ==
  ASSUME IndInv, NEW c \in Calls, DropCall(c)
  PROVE  IndInv'
<1> USE DEF DropCall, ownerVars, serverVars, closerVars
<1>1. TypeOK'
  BY DEF IndInv, TypeOK
<1>2. /\ \A d \in Calls : d # c => cpc'[d] = cpc[d] /\ dropped'[d] = dropped[d]
      /\ cpc'[c] = "new" /\ cpc[c] # "new" /\ cop' = cop
      /\ cpc[c] = "sent" => dropped'[c]
  BY DEF IndInv, TypeOK
<1>3. ~dropped[c]
  BY <1>2 DEF IndInv, CommandInv
<1>4. channel # <<>> => Head(channel) \in Calls
  BY HeadTailProperties DEF IndInv, TypeOK
<1>5. CommandInv'
  BY <1>2, <1>3, <1>4 DEF IndInv, CommandInv, Handling
<1>6. WireInv' /\ StatusInv' /\ WaitInv' /\ AskedInv'
  BY <1>2, KeepsCore
<1> QED
  BY <1>1, <1>5, <1>6 DEF IndInv

\* Closers and invalidate touch nothing the invariant speaks of.
LEMMA CloserStep ==
  ASSUME IndInv, CloserNext \/ Invalidate
  PROVE  IndInv'
<1> USE DEF ownerVars, callVars, serverVars
<1>1. UNCHANGED <<status, statusTx, closed, gateClosed, channel, opc, cur>>
      /\ UNCHANGED callVars /\ UNCHANGED serverVars
  BY DEF CloserNext, Invalidate, CloseOwner, WaitCheck, WaitCreate, WaitRecheck, WaitAwake
<1>2. /\ cancelled' \in BOOLEAN
      /\ kpc' \in [Closers -> {"new", "check", "create", "recheck", "await", "done"}]
      /\ woken' \in [Closers -> BOOLEAN]
  BY DEF IndInv, TypeOK, CloserNext, Invalidate, CloseOwner, WaitCheck, WaitCreate,
     WaitRecheck, WaitAwake, closerVars
<1>3. TypeOK'
  BY <1>1, <1>2 DEF IndInv, TypeOK
<1>4. CommandInv'
  BY <1>1 DEF IndInv, CommandInv, Handling
<1>5. WireInv' /\ StatusInv' /\ WaitInv' /\ AskedInv'
  BY <1>1, KeepsCore
<1> QED
  BY <1>3, <1>4, <1>5 DEF IndInv

-----------------------------------------------------------------------------
(* The server.                                                             *)

Fates == {"open", "committed", "rolled_back"}

\* Ending the transaction that is open, if there is one, changes nothing else.
LEMMA EndFacts ==
  ASSUME TypeOK, NEW f \in {"committed", "rolled_back"}
  PROVE  /\ End(f) \in Seq(Fates)
         /\ Len(End(f)) = Len(fate)
         /\ \A t \in 1 .. Len(fate) : t # Len(fate) => End(f)[t] = fate[t]
         /\ Open => End(f)[Len(fate)] = f
         /\ ~Open => End(f) = fate
<1>1. fate \in Seq(Fates) /\ f \in Fates /\ Len(fate) \in Nat
  BY DEF TypeOK, Fates
<1>2. CASE Open
  <2>1. Len(fate) \in 1 .. Len(fate) /\ End(f) = [fate EXCEPT ![Len(fate)] = f]
    BY <1>1, <1>2 DEF Open, End, Fate
  <2> QED
    BY <1>1, <1>2, <2>1, ExceptSeq
<1>3. CASE ~Open
  BY <1>1, <1>3 DEF End
<1> QED
  BY <1>2, <1>3

\* The effect of a statement that succeeds with the fates f, or that fails.
OkWith(f) == [fate |-> f, answer |-> [ok |-> TRUE, in_transaction |->
                                        Len(f) > 0 /\ f[Len(f)] = "open"]]
ErrWith(f) == [fate |-> f, answer |-> [ok |-> FALSE, in_transaction |-> FALSE]]

\* The fates f follow those of now: at most the open transaction has changed,
\* and at most one was opened, which then is the last.
Follows(f) ==
  /\ f \in Seq(Fates)
  /\ Len(fate) <= Len(f) /\ Len(f) <= Len(fate) + 1 /\ Len(f) <= MaxTx
  /\ \A t \in 1 .. Len(fate) : ~(Open /\ t = Len(fate)) => f[t] = fate[t]
  /\ Len(f) = Len(fate) + 1 => f[Len(f)] = "open"

\* A statement without effect.
LEMMA FollowsSame == ASSUME TypeOK PROVE Follows(fate)
  BY DEF TypeOK, Follows, Fates

\* A statement that ends the open transaction.
LEMMA FollowsEnd ==
  ASSUME TypeOK, NEW f \in {"committed", "rolled_back"}
  PROVE  Follows(End(f))
<1>1. Len(fate) \in Nat /\ Len(fate) <= MaxTx
  BY DEF TypeOK
<1> QED
  BY <1>1, EndFacts DEF Follows

\* A statement that opens one, after such an end or without.
LEMMA FollowsAppend ==
  ASSUME TypeOK, NEW g, Follows(g), Len(g) = Len(fate), Len(fate) < MaxTx
  PROVE  /\ Follows(Append(g, "open"))
         /\ Len(Append(g, "open")) = Len(fate) + 1
         /\ Append(g, "open")[Len(fate) + 1] = "open"
         /\ \A t \in 1 .. Len(fate) : Append(g, "open")[t] = g[t]
<1>1. g \in Seq(Fates) /\ "open" \in Fates /\ Len(fate) \in Nat /\ MaxTx \in Nat
  BY SettingsAssumption DEF TypeOK, Follows, Fates
<1>2. /\ Append(g, "open") \in Seq(Fates)
      /\ Len(Append(g, "open")) = Len(g) + 1
      /\ \A t \in 1 .. Len(g) : Append(g, "open")[t] = g[t]
      /\ Append(g, "open")[Len(g) + 1] = "open"
  BY <1>1, AppendProperties
<1> QED
  BY <1>1, <1>2 DEF Follows

\* Both answers are answers, and a good one tells whether a transaction is open.
LEMMA AnswerFacts ==
  ASSUME NEW f
  PROVE  /\ OkWith(f).fate = f /\ ErrWith(f).fate = f
         /\ OkWith(f).answer \in Answers /\ ErrWith(f).answer \in Answers
         /\ OkWith(f).answer.ok
         /\ OkWith(f).answer.in_transaction <=> Len(f) > 0 /\ f[Len(f)] = "open"
         /\ ~ErrWith(f).answer.ok
<1> DEFINE in == Len(f) > 0 /\ f[Len(f)] = "open"
<1>1. in \in BOOLEAN
  OBVIOUS
<1>2. /\ OkWith(f).fate = f
      /\ OkWith(f).answer = [ok |-> TRUE, in_transaction |-> in]
  BY DEF OkWith
<1>3. /\ ErrWith(f).fate = f
      /\ ErrWith(f).answer = [ok |-> FALSE, in_transaction |-> FALSE]
  BY DEF ErrWith
<1> HIDE DEF in
<1>4. [ok |-> TRUE, in_transaction |-> in] \in Answers
  BY <1>1 DEF Answers
<1>5. OkWith(f).answer.ok = TRUE /\ OkWith(f).answer.in_transaction = in
  BY <1>2
<1>6. ErrWith(f).answer \in Answers /\ ~ErrWith(f).answer.ok
  BY <1>3 DEF Answers
<1> QED
  BY <1>2, <1>3, <1>4, <1>5, <1>6 DEF in

\* What running a statement leads to: a transaction is committed by COMMIT
\* alone, for START TRANSACTION is never sent into an open one; COMMIT and
\* ROLLBACK that succeed and leave no transaction open have ended the open one
\* as they say, and what fails can at most roll it back.
Outcome(x) ==
  /\ Follows(x.fate)
  /\ x.answer \in Answers
  /\ x.answer.ok => (x.answer.in_transaction <=> Len(x.fate) > 0 /\ x.fate[Len(x.fate)] = "open")
  /\ Open /\ x.fate[Len(fate)] = "committed" => wire = "COMMIT"
  /\ Open /\ x.answer.ok /\ ~x.answer.in_transaction =>
       /\ wire = "COMMIT" => Len(x.fate) = Len(fate) /\ x.fate[Len(fate)] = "committed"
       /\ wire = "ROLLBACK" => Len(x.fate) = Len(fate) /\ x.fate[Len(fate)] = "rolled_back"
  /\ Open /\ ~x.answer.ok =>
       /\ Len(x.fate) = Len(fate)
       /\ wire # "COMMIT" => x.fate[Len(fate)] \in {"open", "rolled_back"}
  /\ wire = "PING" => x.fate = fate /\ x.answer.ok

\* Every effect the server may give a statement is such an outcome.
LEMMA RunFacts ==
  ASSUME IndInv, wire # None, NEW x \in Effects(wire)
  PROVE  Outcome(x)
<1>0. /\ TypeOK /\ Len(fate) \in Nat /\ (wire = "BEGIN" => ~Open)
      /\ wire \in {"BEGIN", "QUERY", "COMMIT", "ROLLBACK", "PING"}
  BY DEF IndInv, TypeOK, WireInv
<1> DEFINE committed == End("committed")
           rolledBack == End("rolled_back")
<1>1. /\ committed \in Seq(Fates) /\ Len(committed) = Len(fate)
      /\ Open => committed[Len(fate)] = "committed"
      /\ ~Open => committed = fate
      /\ Follows(committed)
  BY <1>0, EndFacts, FollowsEnd
<1>2. /\ rolledBack \in Seq(Fates) /\ Len(rolledBack) = Len(fate)
      /\ Open => rolledBack[Len(fate)] = "rolled_back"
      /\ ~Open => rolledBack = fate
      /\ Follows(rolledBack)
  BY <1>0, EndFacts, FollowsEnd
<1>3. Follows(fate) /\ (Open => fate[Len(fate)] = "open" /\ Len(fate) \in 1 .. Len(fate))
  BY <1>0, FollowsSame DEF Open
<1>4. /\ wire = "BEGIN" =>
           \/ x = ErrWith(fate)
           \/ Len(fate) < MaxTx /\ x = OkWith(Append(committed, "open"))
      /\ wire = "QUERY" =>
           \/ x \in {OkWith(fate), ErrWith(fate), ErrWith(rolledBack)}
           \/ /\ ~Open /\ Len(fate) < MaxTx
              /\ x \in {OkWith(Append(fate, "open")), ErrWith(Append(fate, "open"))}
      /\ wire = "COMMIT" =>
           \/ x \in {OkWith(committed), ErrWith(fate), ErrWith(rolledBack)}
           \/ Len(committed) < MaxTx /\ x = OkWith(Append(committed, "open"))
      /\ wire = "ROLLBACK" =>
           \/ x \in {OkWith(rolledBack), ErrWith(fate)}
           \/ Len(rolledBack) < MaxTx /\ x = OkWith(Append(rolledBack, "open"))
      /\ wire = "PING" => x = OkWith(fate)
  <2>1. CASE wire = "BEGIN"
    BY <2>1 DEF Effects, OkWith, ErrWith
  <2>2. CASE wire = "QUERY"
    BY <2>2 DEF Effects, OkWith, ErrWith
  <2>3. CASE wire = "COMMIT"
    BY <2>3 DEF Effects, OkWith, ErrWith
  <2>4. CASE wire = "ROLLBACK"
    BY <2>4 DEF Effects, OkWith, ErrWith
  <2>5. CASE wire = "PING"
    BY <2>5 DEF Effects, OkWith, ErrWith
  <2> QED
    BY <1>0, <2>1, <2>2, <2>3, <2>4, <2>5
<1> HIDE DEF committed, rolledBack
<1>5. ASSUME NEW g \in {fate, committed, rolledBack}, Len(fate) < MaxTx
      PROVE  /\ Follows(Append(g, "open"))
             /\ Len(Append(g, "open")) = Len(fate) + 1
             /\ Append(g, "open")[Len(fate) + 1] = "open"
             /\ Open => Append(g, "open")[Len(fate)] = g[Len(fate)]
  BY <1>0, <1>1, <1>2, <1>3, <1>5, FollowsAppend
<1>6. ASSUME NEW h, Follows(h), Len(h) = Len(fate) + 1, h[Len(fate) + 1] = "open",
              wire # "PING",
              Open => wire \in {"COMMIT", "ROLLBACK"},
              Open /\ h[Len(fate)] = "committed" => wire = "COMMIT",
              x = OkWith(h) \/ (x = ErrWith(h) /\ ~Open)
       PROVE  Outcome(x)
  <2>1. x.fate = h /\ x.answer \in Answers
    BY <1>6, AnswerFacts
  <2>2. Len(h) > 0 /\ h[Len(h)] = "open"
    BY <1>0, <1>6
  <2>3. OkWith(h).answer.ok /\ OkWith(h).answer.in_transaction
    BY <2>2, AnswerFacts, Zenon
  <2>4. x = OkWith(h) => x.answer.ok /\ x.answer.in_transaction
    BY <2>3, Zenon
  <2>5. x = ErrWith(h) => ~x.answer.ok
    BY AnswerFacts
  <2> QED
    BY <1>6, <2>1, <2>4, <2>5, <2>2 DEF Outcome
<1>7. CASE wire = "BEGIN"
  <2>1. CASE x = ErrWith(fate)
    BY <1>0, <1>3, <1>7, <2>1, AnswerFacts DEF Outcome
  <2>2. CASE Len(fate) < MaxTx /\ x = OkWith(Append(committed, "open"))
    BY <1>0, <1>5, <1>7, <1>6, <2>2
  <2> QED
    BY <1>4, <1>7, <2>1, <2>2
<1>8. CASE wire = "QUERY"
  <2>1. CASE x = OkWith(fate)
    BY <1>0, <1>3, <1>8, <2>1, AnswerFacts DEF Outcome
  <2>2. CASE x = ErrWith(fate)
    BY <1>0, <1>3, <1>8, <2>2, AnswerFacts DEF Outcome
  <2>3. CASE x = ErrWith(rolledBack)
    BY <1>0, <1>2, <1>8, <2>3, AnswerFacts DEF Outcome
  <2>4. CASE ~Open /\ Len(fate) < MaxTx
             /\ x \in {OkWith(Append(fate, "open")), ErrWith(Append(fate, "open"))}
    BY <1>5, <1>8, <1>6, <2>4
  <2> QED
    BY <1>4, <1>8, <2>1, <2>2, <2>3, <2>4
<1>9. CASE wire = "COMMIT"
  <2>1. CASE x = OkWith(committed)
    BY <1>0, <1>1, <1>9, <2>1, AnswerFacts DEF Outcome
  <2>2. CASE x = ErrWith(fate)
    BY <1>0, <1>3, <1>9, <2>2, AnswerFacts DEF Outcome
  <2>3. CASE x = ErrWith(rolledBack)
    BY <1>0, <1>2, <1>9, <2>3, AnswerFacts DEF Outcome
  <2>4. CASE Len(committed) < MaxTx /\ x = OkWith(Append(committed, "open"))
    BY <1>1, <1>5, <1>9, <1>6, <2>4
  <2> QED
    BY <1>4, <1>9, <2>1, <2>2, <2>3, <2>4
<1>10. CASE wire = "ROLLBACK"
  <2>1. CASE x = OkWith(rolledBack)
    BY <1>0, <1>2, <1>10, <2>1, AnswerFacts DEF Outcome
  <2>2. CASE x = ErrWith(fate)
    BY <1>0, <1>3, <1>10, <2>2, AnswerFacts DEF Outcome
  <2>3. CASE Len(rolledBack) < MaxTx /\ x = OkWith(Append(rolledBack, "open"))
    BY <1>2, <1>5, <1>10, <1>6, <2>3
  <2> QED
    BY <1>4, <1>10, <2>1, <2>2, <2>3
<1>11. CASE wire = "PING"
  BY <1>0, <1>3, <1>4, <1>11, AnswerFacts DEF Outcome
<1> QED
  BY <1>0, <1>7, <1>8, <1>9, <1>10, <1>11

\* The server runs the statement on the wire, whether or not anybody waits.
LEMMA ServerRunsStep ==
  ASSUME IndInv, ServerRuns
  PROVE  IndInv'
<1> USE NoneAssumption DEF ownerVars, callVars, closerVars
<1>1. wire # None /\ link # "down"
  BY DEF ServerRuns
<1>2. PICK x \in Effects(wire) : fate' = x.fate /\ answer' = x.answer
  BY DEF ServerRuns
<1>3. Outcome(x)
  BY <1>1, RunFacts
<1>4. /\ wire' = None /\ UNCHANGED <<link, asked>>
      /\ UNCHANGED ownerVars /\ UNCHANGED callVars /\ UNCHANGED closerVars
  BY DEF ServerRuns
<1>5. /\ Follows(fate') /\ answer' \in Answers
      /\ answer'.ok => (answer'.in_transaction <=> Open')
      /\ Open /\ fate'[Len(fate)] = "committed" => wire = "COMMIT"
      /\ Open /\ answer'.ok /\ ~answer'.in_transaction =>
           /\ wire = "COMMIT" => Len(fate') = Len(fate) /\ fate'[Len(fate)] = "committed"
           /\ wire = "ROLLBACK" => Len(fate') = Len(fate) /\ fate'[Len(fate)] = "rolled_back"
      /\ Open /\ ~answer'.ok =>
           /\ Len(fate') = Len(fate)
           /\ wire # "COMMIT" => fate'[Len(fate)] \in {"open", "rolled_back"}
      /\ wire = "PING" => fate' = fate /\ answer'.ok
  BY <1>2, <1>3 DEF Outcome, Open
<1>6. ~Quiet /\ ~Quiet'
  BY <1>1, <1>4 DEF IndInv, WireInv, Quiet
<1>7. Len(fate) \in Nat /\ Len(fate') \in Nat /\ Len(fate') <= MaxTx /\ MaxTx \in Nat
  BY <1>5, SettingsAssumption DEF IndInv, TypeOK, Follows
<1>8. Open => Len(fate) \in 1 .. Len(fate) /\ fate[Len(fate)] = "open"
  BY <1>7 DEF Open
<1>9. (Handling' <=> Handling) /\ (Ending' <=> Ending) /\ (Definite' <=> Definite)
  BY <1>4 DEF Handling, Ending, Definite
<1>10. TypeOK'
  BY <1>4, <1>5, <1>7 DEF IndInv, TypeOK, Follows, Fates
<1>11. CommandInv'
  BY <1>4, <1>9 DEF IndInv, CommandInv
<1>12. WireInv'
  BY <1>1, <1>4, <1>5, <1>6 DEF WireInv
<1>13. StatusInv'
  <2>1. ASSUME Definite
        PROVE  statusTx \in 1 .. Len(fate') /\ fate'[statusTx] = status.outcome
    BY <2>1, <1>5, <1>7, <1>8 DEF IndInv, StatusInv, Definite, Follows
  <2> QED
    BY <2>1, <1>1, <1>4, <1>6, <1>9 DEF IndInv, StatusInv
<1>14. WaitInv'
  <2>1. ASSUME opc = "wait", status.state = "active"
        PROVE  /\ answer'.ok /\ ~answer'.in_transaction =>
                    /\ cop[cur] = "commit" => EndsIn({"committed"})'
                    /\ cop[cur] = "rollback" => EndsIn({"rolled_back"})'
               /\ ~answer'.ok /\ cop[cur] # "commit" => EndsIn({"open", "rolled_back"})'
    <3>1. Open /\ wire = Sql(cop[cur])
      BY <2>1, <1>1 DEF IndInv, WaitInv
    <3>2. cop[cur] \in Ops
      BY <2>1 DEF IndInv, TypeOK, CommandInv, Handling
    <3> QED
      BY <3>1, <3>2, <1>5, <1>8, <1>7 DEF Sql, Ops, EndsIn, Last
  <2>2. ASSUME opc = "probe", status.state = "active"
        PROVE  EndsIn({"open", "rolled_back"})'
    BY <2>2, <1>1, <1>5 DEF IndInv, WaitInv, EndsIn, Last
  <2>3. opc = "probe" => answer'.ok
    BY <1>1, <1>5 DEF IndInv, WaitInv
  <2>4. ASSUME opc = "rollback", answer'.ok, ~answer'.in_transaction
        PROVE  EndsIn({"rolled_back"})'
    <3>1. Open /\ wire = "ROLLBACK"
      BY <2>4, <1>1 DEF IndInv, WaitInv
    <3> QED
      BY <3>1, <2>4, <1>5, <1>8, <1>7 DEF EndsIn, Last
  <2> QED
    BY <2>1, <2>2, <2>3, <2>4, <1>4 DEF IndInv, WaitInv
<1>15. AskedInv'
  <2>1. ASSUME NEW t \in 1 .. MaxTx
        PROVE  /\ asked[t] <= 1
               /\ t > Len(fate') => asked[t] = 0
               /\ t <= Len(fate') /\ fate'[t] = "committed" => asked[t] = 1
    <3>1. asked[t] <= 1 /\ (t > Len(fate') => asked[t] = 0)
      BY <1>5, <1>7 DEF IndInv, AskedInv, Follows
    <3>2. ASSUME t <= Len(fate'), fate'[t] = "committed"
          PROVE  asked[t] = 1
      <4>1. t \in 1 .. Len(fate)
        BY <3>2, <1>5, <1>7 DEF Follows
      <4>2. CASE Open /\ t = Len(fate)
        BY <4>2, <3>2, <1>5 DEF IndInv, WireInv
      <4>3. CASE ~(Open /\ t = Len(fate))
        BY <4>1, <4>3, <3>2, <1>5, <1>7 DEF IndInv, AskedInv, Follows
      <4> QED
        BY <4>2, <4>3
    <3> QED
      BY <3>1, <3>2
  <2>2. ASSUME Open', asked[Len(fate')] # 0
        PROVE  Open /\ asked[Len(fate)] # 0
    <3>1. Len(fate') = Len(fate) /\ Len(fate) \in 1 .. Len(fate) /\ fate'[Len(fate)] = "open"
      <4>1. Len(fate') \in 1 .. MaxTx
        BY <2>2, <1>7 DEF Open
      <4> QED
        BY <4>1, <2>2, <1>5, <1>7 DEF IndInv, AskedInv, Follows, Open
    <3> QED
      BY <3>1, <2>2, <1>5 DEF Follows, Open
  <2> QED
    BY <2>1, <2>2, <1>4 DEF IndInv, AskedInv
<1> QED
  BY <1>10, <1>11, <1>12, <1>13, <1>14, <1>15 DEF IndInv

\* The connection ends: what is on the wire is lost, and what is open is
\* rolled back.
LEMMA ServerHangsUpStep ==
  ASSUME IndInv, ServerHangsUp
  PROVE  IndInv'
<1> USE NoneAssumption DEF ServerHangsUp, ownerVars, callVars, closerVars
<1>1. /\ fate' \in Seq(Fates) /\ Len(fate') = Len(fate) /\ Len(fate) \in Nat
      /\ \A t \in 1 .. Len(fate) : ~(Open /\ t = Len(fate)) => fate'[t] = fate[t]
      /\ Open => fate'[Len(fate)] = "rolled_back" /\ Len(fate) \in 1 .. Len(fate)
                 /\ fate[Len(fate)] = "open"
      /\ ~Open => fate' = fate
  BY EndFacts DEF IndInv, TypeOK, Open
<1>2. ~Open' /\ Len(fate) <= MaxTx /\ MaxTx \in Nat
  BY <1>1, SettingsAssumption DEF Open, IndInv, TypeOK
<1>3. (Handling' <=> Handling) /\ (Ending' <=> Ending) /\ (Definite' <=> Definite)
      /\ (Quiet' <=> Quiet)
  BY DEF Handling, Ending, Definite, Quiet
<1>4. TypeOK'
  BY <1>1 DEF IndInv, TypeOK, Fates
<1>5. CommandInv'
  BY <1>3 DEF IndInv, CommandInv
<1>6. WireInv'
  BY <1>2 DEF WireInv
<1>7. StatusInv'
  <2>1. ASSUME Definite
        PROVE  statusTx \in 1 .. Len(fate') /\ fate'[statusTx] = status.outcome
    BY <2>1, <1>1 DEF IndInv, StatusInv, Definite
  <2> QED
    BY <2>1, <1>1, <1>2, <1>3 DEF IndInv, StatusInv
<1>8. WaitInv'
  <2>1. ASSUME opc = "probe", status.state = "active"
        PROVE  EndsIn({"open", "rolled_back"})'
    BY <2>1, <1>1 DEF IndInv, WaitInv, EndsIn, Last
  <2> QED
    BY <2>1 DEF IndInv, WaitInv
<1>9. AskedInv'
  <2>1. ASSUME NEW t \in 1 .. MaxTx, t <= Len(fate'), fate'[t] = "committed"
        PROVE  fate[t] = "committed"
    BY <2>1, <1>1
  <2> QED
    BY <2>1, <1>1, <1>2 DEF IndInv, AskedInv
<1> QED
  BY <1>4, <1>5, <1>6, <1>7, <1>8, <1>9 DEF IndInv

-----------------------------------------------------------------------------
(* The owner.                                                              *)

\* The answer to call c ends its command and touches no other call.
LEMMA RespondFacts ==
  ASSUME IndInv, NEW c \in Calls, NEW st \in Status, Respond(c, st)
  PROVE  /\ cpc' \in [Calls -> {"new", "check", "leased", "sent"}]
         /\ cop' \in [Calls -> Ops]
         /\ dropped' \in [Calls -> BOOLEAN]
         /\ status' = st /\ status' \in Status
         /\ statusTx' = Len(fate) /\ statusTx' \in 0 .. MaxTx
         /\ \A d \in Calls : d # c => cpc'[d] = cpc[d] /\ cop'[d] = cop[d] /\ dropped'[d] = dropped[d]
         /\ \A d \in Calls : dropped'[d] => cpc'[d] = "new"
<1> USE DEF Respond, Done
<1>1. cpc' \in [Calls -> {"new", "check", "leased", "sent"}] /\ cop' \in [Calls -> Ops]
  BY DEF IndInv, TypeOK, Ops
<1>2. dropped' \in [Calls -> BOOLEAN]
  BY DEF IndInv, TypeOK
<1>3. statusTx' = Len(fate) /\ statusTx' \in 0 .. MaxTx
  BY SettingsAssumption DEF IndInv, TypeOK
<1>4. \A d \in Calls : d # c => cpc'[d] = cpc[d] /\ cop'[d] = cop[d] /\ dropped'[d] = dropped[d]
  BY DEF IndInv, TypeOK
<1>5. dropped'[c] = FALSE
  BY DEF IndInv, TypeOK
<1>6. \A d \in Calls : dropped'[d] => cpc'[d] = "new"
  BY <1>4, <1>5 DEF IndInv, CommandInv
<1> QED
  BY <1>1, <1>2, <1>3, <1>4, <1>6

\* A command that has been answered leaves the channel as it was.
LEMMA AnsweredCommand ==
  ASSUME IndInv, Handling, NEW st \in Status, Respond(cur, st), UNCHANGED channel, ~Handling'
  PROVE  CommandInv'
<1>1. cur \in Calls /\ (channel # <<>> => Head(channel) \in Calls /\ Head(channel) # cur)
  BY HeadTailProperties DEF IndInv, TypeOK, CommandInv
<1>2. /\ \A d \in Calls : d # cur => cpc'[d] = cpc[d] /\ dropped'[d] = dropped[d]
      /\ \A d \in Calls : dropped'[d] => cpc'[d] = "new"
  BY <1>1, RespondFacts
<1> QED
  BY <1>1, <1>2 DEF IndInv, CommandInv

\* A command is taken up, or refused because of the status, which then says
\* what it said before, of the same transaction.
LEMMA ReceiveStep ==
  ASSUME IndInv, Receive
  PROVE  IndInv'
<1> USE DEF serverVars, closerVars
<1>1. /\ opc = "recv" /\ Len(channel) = 1 /\ channel' = <<>>
      /\ UNCHANGED <<cancelled, closed, gateClosed>> /\ UNCHANGED serverVars /\ UNCHANGED closerVars
  BY DEF Receive
<1>2. channel # <<>> /\ Head(channel) \in Calls
  <2>1. channel # <<>>
    BY <1>1, EmptySeq
  <2> QED
    BY <2>1, HeadTailProperties DEF IndInv, TypeOK
<1>3. PICK c \in Calls : c = Head(channel)
  BY <1>2
<1>4. status \in Status /\ status.state \in States /\ (cpc[c] = "sent" \/ dropped[c])
  BY <1>2, <1>3 DEF IndInv, TypeOK, CommandInv, Status
<1>5. (Open' <=> Open) /\ <<>> \in Seq(Calls) /\ Len(<<>>) = 0 /\ Quiet /\ Len(fate) \in Nat
  BY <1>1, EmptySeq DEF Open, Quiet, IndInv, TypeOK
<1>6. CASE Invalid(cop[c], status.state)
  <2>1. Respond(c, status) /\ UNCHANGED <<opc, cur>>
    BY <1>3, <1>6 DEF Receive
  <2>2. /\ cpc' \in [Calls -> {"new", "check", "leased", "sent"}]
        /\ cop' \in [Calls -> Ops] /\ dropped' \in [Calls -> BOOLEAN]
        /\ status' = status /\ statusTx' = Len(fate) /\ statusTx' \in 0 .. MaxTx
        /\ \A d \in Calls : dropped'[d] => cpc'[d] = "new"
    BY <1>4, <2>1, RespondFacts
  <2>3. ~Handling' /\ Quiet' /\ (Definite' <=> Definite) /\ opc' = "recv"
    BY <1>1, <2>1, <2>2 DEF Handling, Quiet, Definite
  <2>4. TypeOK'
    BY <1>1, <1>5, <2>1, <2>2 DEF IndInv, TypeOK
  <2>5. CommandInv'
    BY <1>1, <2>2, <2>3 DEF CommandInv
  <2>6. WireInv'
    BY <1>1, <1>5, <2>3 DEF IndInv, WireInv
  <2>7. StatusInv'
    BY <1>1, <1>5, <2>2, <2>3 DEF IndInv, StatusInv, Ending
  <2>8. WaitInv'
    BY <2>3 DEF WaitInv
  <2>9. AskedInv'
    BY <1>1, <1>5, <2>2, <2>3 DEF IndInv, AskedInv
  <2> QED
    BY <2>4, <2>5, <2>6, <2>7, <2>8, <2>9 DEF IndInv
<1>7. CASE ~Invalid(cop[c], status.state)
  <2>1. /\ cur' = c /\ opc' = "select" /\ cpc' = cpc /\ cop' = cop /\ dropped' = dropped
        /\ UNCHANGED <<status, statusTx>>
    BY <1>3, <1>7 DEF Receive, callVars
  <2>2. Handling' /\ Quiet' /\ (Definite' <=> Definite)
    BY <2>1 DEF Handling, Quiet, Definite
  <2>3. TypeOK'
    BY <1>1, <1>5, <2>1 DEF IndInv, TypeOK
  <2>4. CommandInv'
    BY <1>1, <1>4, <1>7, <2>1 DEF IndInv, CommandInv
  <2>5. WireInv'
    BY <1>1, <1>5, <2>2 DEF IndInv, WireInv
  <2>6. StatusInv'
    BY <1>1, <1>5, <2>1, <2>2 DEF IndInv, StatusInv, Ending
  <2>7. WaitInv'
    BY <2>1 DEF WaitInv
  <2>8. AskedInv'
    BY <1>1, <1>5, <2>1 DEF IndInv, AskedInv
  <2> QED
    BY <2>3, <2>4, <2>5, <2>6, <2>7, <2>8 DEF IndInv
<1> QED
  BY <1>6, <1>7

\* The loop ends between two commands.
LEMMA StopStep ==
  ASSUME IndInv, Stop
  PROVE  IndInv'
<1> USE DEF Stop, callVars, serverVars, closerVars
<1>1. (Open' <=> Open) /\ Quiet /\ ~Quiet' /\ ~Handling' /\ Ending' /\ (Definite' <=> Definite)
  BY DEF Open, Quiet, Handling, Ending, Definite
<1>2. TypeOK'
  BY DEF IndInv, TypeOK
<1>3. CommandInv'
  BY <1>1 DEF IndInv, CommandInv
<1>4. WireInv'
  BY <1>1 DEF IndInv, WireInv
<1>5. StatusInv'
  BY <1>1 DEF IndInv, StatusInv, WireInv
<1>6. WaitInv'
  BY DEF WaitInv
<1>7. AskedInv'
  BY <1>1 DEF IndInv, AskedInv
<1> QED
  BY <1>2, <1>3, <1>4, <1>5, <1>6, <1>7 DEF IndInv

\* The statement is sent.  START TRANSACTION finds no transaction open, for
\* the status is idle; COMMIT finds one that was never asked to commit.
LEMMA ExecuteStep ==
  ASSUME IndInv, Execute
  PROVE  IndInv'
<1> USE NoneAssumption, SettingsAssumption DEF callVars, closerVars
<1>1. /\ opc = "select" /\ opc' = "wait" /\ wire' = Sql(cop[cur]) /\ answer' = None
      /\ asked' = IF Sql(cop[cur]) = "COMMIT" /\ Open THEN [asked EXCEPT ![Len(fate)] = @ + 1] ELSE asked
      /\ UNCHANGED <<fate, link>>
      /\ UNCHANGED <<cancelled, status, statusTx, closed, gateClosed, channel, cur>>
      /\ UNCHANGED callVars /\ UNCHANGED closerVars
  BY DEF Execute, SendSql
<1>2. /\ Handling /\ Handling' /\ Quiet /\ ~Quiet' /\ (Open' <=> Open)
      /\ (Definite' <=> Definite) /\ Len(fate) \in Nat /\ Len(fate) <= MaxTx
  BY <1>1 DEF Open, Quiet, Handling, Definite, IndInv, TypeOK
<1>3. /\ cur \in Calls /\ cop[cur] \in Ops /\ ~Invalid(cop[cur], status.state)
      /\ status.state \in States /\ status.state # "unknown"
  BY <1>2 DEF IndInv, CommandInv, TypeOK, Status, StatusInv, Ending, Quiet
<1>4. /\ cop[cur] = "begin" => Sql(cop[cur]) = "BEGIN" /\ status.state = "idle"
      /\ cop[cur] = "query" => Sql(cop[cur]) = "QUERY"
      /\ cop[cur] = "commit" => Sql(cop[cur]) = "COMMIT"
      /\ cop[cur] = "rollback" => Sql(cop[cur]) = "ROLLBACK"
  BY <1>3 DEF Sql, Invalid, States
<1>5. Sql(cop[cur]) \in {"BEGIN", "QUERY", "COMMIT", "ROLLBACK"}
      /\ (Sql(cop[cur]) = "COMMIT" <=> cop[cur] = "commit")
      /\ (Sql(cop[cur]) = "BEGIN" <=> cop[cur] = "begin")
  BY <1>3, <1>4 DEF Ops
<1>6. Open => Len(fate) \in 1 .. MaxTx /\ asked[Len(fate)] = 0
  BY <1>1, <1>2, <1>3 DEF IndInv, AskedInv, Open
<1>7. /\ asked' \in [1 .. MaxTx -> Nat]
      /\ \A t \in 1 .. MaxTx : asked'[t] = asked[t] \/ (Open /\ t = Len(fate) /\ asked'[t] = 1)
      /\ Open /\ Sql(cop[cur]) = "COMMIT" => asked'[Len(fate)] = 1
      /\ Sql(cop[cur]) # "COMMIT" => asked' = asked
  BY <1>1, <1>6 DEF IndInv, TypeOK
<1>8. TypeOK'
  BY <1>1, <1>5, <1>7 DEF IndInv, TypeOK
<1>9. CommandInv'
  BY <1>1, <1>2 DEF IndInv, CommandInv, callVars
<1>10. WireInv'
  <2>1. cop[cur] = "begin" => ~Open
    BY <1>2, <1>4 DEF IndInv, StatusInv
  <2> QED
    BY <1>1, <1>2, <1>5, <1>7, <2>1 DEF IndInv, WireInv
<1>11. StatusInv'
  BY <1>1, <1>2, <1>3 DEF IndInv, StatusInv
<1>12. WaitInv'
  BY <1>1, <1>2 DEF IndInv, StatusInv, WaitInv, callVars
<1>13. AskedInv'
  <2>1. ASSUME NEW t \in 1 .. MaxTx
        PROVE  /\ asked'[t] <= 1
               /\ t > Len(fate) => asked'[t] = 0
               /\ t <= Len(fate) /\ fate[t] = "committed" => asked'[t] = 1
    BY <1>2, <1>7 DEF IndInv, AskedInv
  <2>2. Open /\ asked'[Len(fate)] # 0 => cop[cur] = "commit"
    BY <1>5, <1>6, <1>7
  <2> QED
    BY <1>1, <1>2, <2>1, <2>2 DEF AskedInv, callVars
<1> QED
  BY <1>8, <1>9, <1>10, <1>11, <1>12, <1>13 DEF IndInv

\* set_unknown: from here on the owner claims nothing and sends no statement,
\* whatever the one on the wire may still do.
LEMMA GivesUp ==
  ASSUME IndInv, Handling, Respond(cur, Stat("unknown", "unknown")),
         opc' = "cleanup", cur' = None, answer' \in {answer, None},
         UNCHANGED <<wire, fate, link, asked>>,
         UNCHANGED <<cancelled, closed, gateClosed, channel>>, UNCHANGED closerVars
  PROVE  IndInv'
<1> USE NoneAssumption DEF closerVars
<1>1. Stat("unknown", "unknown") \in Status
  BY DEF Stat, Status, States, Outcomes
<1>2. cur \in Calls
  BY DEF IndInv, CommandInv
<1>3. /\ cpc' \in [Calls -> {"new", "check", "leased", "sent"}]
      /\ cop' \in [Calls -> Ops] /\ dropped' \in [Calls -> BOOLEAN]
      /\ status' = Stat("unknown", "unknown") /\ status' \in Status /\ statusTx' \in 0 .. MaxTx
  BY <1>1, <1>2, RespondFacts
<1>4. status'.state = "unknown" /\ status'.outcome = "unknown"
  BY <1>3 DEF Stat
<1>5. ~Handling' /\ ~Quiet' /\ Ending' /\ ~Definite' /\ (Open' <=> Open)
  BY <1>4 DEF Handling, Quiet, Ending, Definite, Open
<1>6. TypeOK'
  BY <1>3 DEF IndInv, TypeOK
<1>7. CommandInv'
  BY <1>1, <1>5, AnsweredCommand
<1>8. WireInv'
  BY <1>5 DEF IndInv, WireInv
<1>9. StatusInv'
  BY <1>4, <1>5 DEF StatusInv
<1>10. WaitInv'
  BY DEF WaitInv
<1>11. AskedInv'
  BY <1>4 DEF IndInv, AskedInv
<1> QED
  BY <1>6, <1>7, <1>8, <1>9, <1>10, <1>11 DEF IndInv

\* The owner answers with a status it is sure of and takes the next command.
LEMMA AnswersSurely ==
  ASSUME IndInv, Handling, answer # None,
         NEW st \in Status, Respond(cur, st), st.state # "unknown",
         opc' = "recv", cur' = None, answer' = None,
         UNCHANGED <<wire, fate, link, asked>>,
         UNCHANGED <<cancelled, closed, gateClosed, channel>>, UNCHANGED closerVars,
         st.state = "idle" => ~Open,
         st.state = "active" => Open /\ st.outcome = None,
         st.outcome \in {"committed", "rolled_back"} => EndsIn({st.outcome}),
         Open => asked[Len(fate)] = 0
  PROVE  IndInv'
<1> USE NoneAssumption DEF closerVars
<1>1. cur \in Calls /\ wire = None /\ Len(fate) \in Nat
  BY DEF IndInv, CommandInv, WireInv, TypeOK
<1>2. /\ cpc' \in [Calls -> {"new", "check", "leased", "sent"}]
      /\ cop' \in [Calls -> Ops] /\ dropped' \in [Calls -> BOOLEAN]
      /\ status' = st /\ statusTx' = Len(fate) /\ statusTx' \in 0 .. MaxTx
  BY <1>1, RespondFacts
<1>3. /\ ~Handling' /\ Quiet' /\ (Open' <=> Open)
      /\ Definite' <=> st.outcome \in {"committed", "rolled_back"}
  BY <1>2 DEF Handling, Quiet, Definite, Open
<1>4. TypeOK'
  BY <1>2 DEF IndInv, TypeOK
<1>5. CommandInv'
  BY <1>3, AnsweredCommand
<1>6. WireInv'
  BY <1>1, <1>3 DEF IndInv, WireInv
<1>7. StatusInv'
  <2>1. Definite' => Len(fate) \in 1 .. Len(fate) /\ fate[Len(fate)] = st.outcome
    BY <1>1, <1>3 DEF EndsIn, Last
  <2> QED
    BY <1>2, <1>3, <2>1 DEF StatusInv
<1>8. WaitInv'
  BY DEF WaitInv
<1>9. AskedInv'
  BY <1>3 DEF IndInv, AskedInv
<1> QED
  BY <1>4, <1>5, <1>6, <1>7, <1>8, <1>9 DEF IndInv

\* The owner is cancelled, or waits in vain.
LEMMA GiveUpStep ==
  ASSUME IndInv, GiveUp
  PROVE  IndInv'
<1>1. Handling
  BY DEF GiveUp, Handling
<1> QED
  BY <1>1, GivesUp DEF GiveUp, serverVars

\* A good answer that the operation can lead to is the state.
LEMMA SucceededStep ==
  ASSUME IndInv, Succeeded
  PROVE  IndInv'
<1> USE NoneAssumption
<1>1. /\ opc = "wait" /\ answer # None /\ answer.ok /\ cur' = None /\ answer' = None
      /\ UNCHANGED <<wire, fate, link, asked>>
      /\ UNCHANGED <<cancelled, closed, gateClosed, channel>> /\ UNCHANGED closerVars
  BY DEF Succeeded
<1>2. Handling /\ cur \in Calls /\ cop[cur] \in Ops /\ ~Invalid(cop[cur], status.state)
  BY <1>1 DEF Handling, IndInv, CommandInv, TypeOK
<1>3. (answer.in_transaction <=> Open) /\ answer.in_transaction \in BOOLEAN /\ link # "down"
  BY <1>1 DEF IndInv, WireInv, TypeOK, Answers
<1>4. CASE answer.in_transaction \in Expected(cop[cur])
  <2> DEFINE st == Stat(IF answer.in_transaction THEN "active" ELSE "idle", OutcomeOf(cop[cur]))
  <2>1. Respond(cur, st) /\ opc' = "recv"
    BY <1>4 DEF Succeeded
  <2>2. OutcomeOf(cop[cur]) \in Outcomes
    BY <1>2 DEF OutcomeOf, Outcomes, Ops
  <2>3. /\ st \in Status
        /\ st.state = IF answer.in_transaction THEN "active" ELSE "idle"
        /\ st.outcome = OutcomeOf(cop[cur])
    BY <2>2 DEF Stat, Status, States
  <2>4. /\ cop[cur] = "begin" => answer.in_transaction
        /\ cop[cur] \in {"commit", "rollback"} => ~answer.in_transaction /\ status.state = "active"
    BY <1>2, <1>3, <1>4 DEF Expected, Invalid
  <2>5. answer.in_transaction => OutcomeOf(cop[cur]) = None /\ cop[cur] # "commit"
    BY <1>2, <2>4 DEF OutcomeOf, Ops
  <2>6. st.outcome \in {"committed", "rolled_back"} => EndsIn({st.outcome})
    <3>1. cop[cur] = "commit" => EndsIn({"committed"}) /\ OutcomeOf(cop[cur]) = "committed"
      BY <1>1, <1>3, <2>4 DEF IndInv, WaitInv, OutcomeOf
    <3>2. cop[cur] = "rollback" => EndsIn({"rolled_back"}) /\ OutcomeOf(cop[cur]) = "rolled_back"
      BY <1>1, <1>3, <2>4 DEF IndInv, WaitInv, OutcomeOf
    <3>3. cop[cur] \in {"begin", "query"} => OutcomeOf(cop[cur]) = None
      BY DEF OutcomeOf
    <3> QED
      BY <1>2, <2>3, <3>1, <3>2, <3>3 DEF Ops
  <2>7. Open => asked[Len(fate)] = 0
    <3>1. status.state # "unknown"
      BY <1>1 DEF IndInv, StatusInv, Ending
    <3> QED
      BY <3>1, <1>3, <2>5 DEF IndInv, AskedInv
  <2>8. /\ st.state # "unknown" /\ (st.state = "idle" => ~Open)
        /\ st.state = "active" => Open /\ st.outcome = None
    BY <1>3, <2>3, <2>5
  <2> HIDE DEF st
  <2> QED
    BY <1>1, <1>2, <2>1, <2>3, <2>6, <2>7, <2>8, AnswersSurely
<1>5. CASE answer.in_transaction \notin Expected(cop[cur])
  <2>1. Respond(cur, Stat("unknown", "unknown")) /\ opc' = "cleanup"
    BY <1>5 DEF Succeeded
  <2> QED
    BY <1>1, <1>2, <2>1, GivesUp
<1> QED
  BY <1>4, <1>5

\* A refused COMMIT leaves the outcome unknown; after any other statement the
\* server is asked for the state.
LEMMA RefusedStep ==
  ASSUME IndInv, Refused
  PROVE  IndInv'
<1> USE NoneAssumption
<1>1. /\ opc = "wait" /\ answer # None /\ ~answer.ok
      /\ UNCHANGED <<cancelled, closed, gateClosed, channel>> /\ UNCHANGED closerVars
  BY DEF Refused
<1>2. Handling /\ ~Quiet
  BY <1>1 DEF Handling, Quiet
<1>3. CASE cop[cur] = "commit"
  <2>1. /\ Respond(cur, Stat("unknown", "unknown")) /\ opc' = "cleanup" /\ cur' = None
        /\ answer' = None /\ UNCHANGED <<wire, fate, link, asked>>
    BY <1>3 DEF Refused
  <2> QED
    BY <1>1, <1>2, <2>1, GivesUp
<1>4. CASE cop[cur] # "commit"
  <2>1. /\ wire' = "PING" /\ answer' = None /\ asked' = asked /\ UNCHANGED <<fate, link>>
        /\ opc' = "probe" /\ UNCHANGED <<status, statusTx, cur>> /\ UNCHANGED <<cpc, cop, dropped>>
    BY <1>4 DEF Refused, SendSql, callVars
  <2>2. (Open' <=> Open) /\ Handling' /\ ~Quiet' /\ (Definite' <=> Definite) /\ link # "down"
    BY <1>1, <2>1 DEF Open, Handling, Quiet, Definite, IndInv, WireInv
  <2>3. TypeOK'
    BY <1>1, <2>1 DEF IndInv, TypeOK, closerVars
  <2>4. CommandInv'
    BY <1>1, <1>2, <2>1, <2>2 DEF IndInv, CommandInv
  <2>5. WireInv'
    BY <2>1, <2>2 DEF IndInv, WireInv
  <2>6. StatusInv'
    BY <1>1, <2>1, <2>2 DEF IndInv, StatusInv, Ending
  <2>7. WaitInv'
    <3>1. status.state = "active" => EndsIn({"open", "rolled_back"})
      BY <1>1, <1>4, <2>2 DEF IndInv, WaitInv
    <3>2. status.state = "active" => EndsIn({"open", "rolled_back"})'
      BY <3>1, <2>1 DEF EndsIn, Last
    <3> QED
      BY <1>4, <2>1, <3>2 DEF WaitInv
  <2>8. AskedInv'
    BY <1>1, <1>4, <2>1, <2>2 DEF IndInv, AskedInv
  <2> QED
    BY <2>3, <2>4, <2>5, <2>6, <2>7, <2>8 DEF IndInv
<1> QED
  BY <1>3, <1>4

\* The probe tells: a transaction that was active and is no more was rolled
\* back.
LEMMA ProbedStep ==
  ASSUME IndInv, Probed
  PROVE  IndInv'
<1> USE NoneAssumption
<1> DEFINE in == answer.in_transaction
           st == Stat(IF in THEN "active" ELSE "idle",
                      IF status.state = "active" /\ ~in THEN "rolled_back" ELSE None)
<1>1. /\ opc = "probe" /\ answer # None /\ Respond(cur, st)
      /\ opc' = "recv" /\ cur' = None /\ answer' = None
      /\ UNCHANGED <<wire, fate, link, asked>>
      /\ UNCHANGED <<cancelled, closed, gateClosed, channel>> /\ UNCHANGED closerVars
  BY DEF Probed
<1>2. Handling /\ cop[cur] # "commit" /\ status.state # "unknown"
  BY <1>1 DEF Handling, IndInv, WaitInv, StatusInv, Ending
<1>3. answer.ok /\ (in <=> Open)
  BY <1>1 DEF IndInv, WireInv, WaitInv
<1>4. /\ st \in Status /\ st.state = (IF in THEN "active" ELSE "idle")
      /\ st.outcome = IF status.state = "active" /\ ~in THEN "rolled_back" ELSE None
  BY DEF Stat, Status, States, Outcomes
<1>5. status.state = "active" /\ ~Open => EndsIn({"rolled_back"})
  BY <1>1 DEF IndInv, WaitInv, EndsIn, Last, Open
<1>6. Open => asked[Len(fate)] = 0
  BY <1>1, <1>2 DEF IndInv, AskedInv
<1> QED
  BY <1>1, <1>2, <1>3, <1>4, <1>5, <1>6, AnswersSurely

\* After the loop: ROLLBACK is sent for a transaction that is active, which is
\* open unless the connection is gone.
LEMMA CleanUpStep ==
  ASSUME IndInv, CleanUp
  PROVE  IndInv'
<1> USE NoneAssumption DEF callVars, closerVars
<1>1. /\ opc = "cleanup" /\ UNCHANGED <<cancelled, status, statusTx, closed, gateClosed, channel, cur>>
      /\ UNCHANGED callVars /\ UNCHANGED closerVars
      /\ opc' \in {"rollback", "disconnect"} /\ UNCHANGED <<fate, link, asked>>
  BY DEF CleanUp, SendSql, serverVars
<1>2. (Open' <=> Open) /\ ~Handling' /\ ~Quiet' /\ Ending' /\ (Definite' <=> Definite)
  BY <1>1 DEF Open, Handling, Quiet, Ending, Definite
<1>3. \/ status.state = "active" /\ opc' = "rollback" /\ wire' = "ROLLBACK" /\ answer' = None
      \/ opc' = "disconnect" /\ UNCHANGED <<wire, answer>>
  BY DEF CleanUp, SendSql, serverVars
<1>4. TypeOK'
  BY <1>1, <1>3 DEF IndInv, TypeOK
<1>5. CommandInv'
  BY <1>1, <1>2 DEF IndInv, CommandInv
<1>6. WireInv'
  BY <1>1, <1>2, <1>3 DEF IndInv, WireInv
<1>7. StatusInv'
  BY <1>1, <1>2 DEF IndInv, StatusInv
<1>8. WaitInv'
  BY <1>1, <1>2, <1>3 DEF IndInv, StatusInv, WaitInv
<1>9. AskedInv'
  BY <1>1, <1>2 DEF IndInv, AskedInv
<1> QED
  BY <1>4, <1>5, <1>6, <1>7, <1>8, <1>9 DEF IndInv

\* Only an acknowledged ROLLBACK is an outcome.
LEMMA RolledBackStep ==
  ASSUME IndInv, RolledBack
  PROVE  IndInv'
<1> USE NoneAssumption DEF callVars, serverVars, closerVars
<1>1. /\ opc = "rollback" /\ opc' = "disconnect" /\ statusTx' = Len(fate)
      /\ UNCHANGED <<cancelled, closed, gateClosed, channel, cur>>
      /\ UNCHANGED callVars /\ UNCHANGED serverVars /\ UNCHANGED closerVars
  BY DEF RolledBack
<1>2. /\ (Open' <=> Open) /\ ~Handling' /\ ~Quiet' /\ Ending'
      /\ Len(fate) \in Nat /\ Len(fate) <= MaxTx /\ MaxTx \in Nat
  BY <1>1, SettingsAssumption DEF Open, Handling, Quiet, Ending, IndInv, TypeOK
<1>3. \/ /\ answer # None /\ answer.ok /\ ~answer.in_transaction
         /\ status'.state = "idle" /\ status'.outcome = "rolled_back"
      \/ status'.state = "unknown" /\ status'.outcome = "unknown"
  BY DEF RolledBack, Stat
<1>4. status' \in Status
  BY DEF RolledBack, Stat, Status, States, Outcomes
<1>5. TypeOK'
  BY <1>1, <1>2, <1>4 DEF IndInv, TypeOK
<1>6. CommandInv'
  BY <1>1, <1>2 DEF IndInv, CommandInv
<1>7. WireInv'
  BY <1>1, <1>2 DEF IndInv, WireInv
<1>8. Definite' => EndsIn({"rolled_back"}) /\ status'.outcome = "rolled_back"
  <2>1. answer # None /\ answer.ok /\ ~answer.in_transaction => EndsIn({"rolled_back"})
    BY <1>1 DEF IndInv, WaitInv, WireInv
  <2> QED
    BY <1>3, <2>1 DEF Definite
<1>9. StatusInv'
  <2>1. Definite' => Len(fate) \in 1 .. Len(fate) /\ fate[Len(fate)] = status'.outcome
    BY <1>2, <1>8 DEF EndsIn, Last
  <2> QED
    BY <1>1, <1>2, <1>3, <2>1 DEF StatusInv
<1>10. WaitInv'
  BY <1>1 DEF WaitInv
<1>11. AskedInv'
  <2>1. Open => asked[Len(fate)] = 0
    BY <1>1 DEF IndInv, AskedInv, WaitInv
  <2> QED
    BY <1>1, <1>2, <2>1 DEF IndInv, AskedInv
<1> QED
  BY <1>5, <1>6, <1>7, <1>9, <1>10, <1>11 DEF IndInv

\* The connection is given up.
LEMMA DisconnectStep ==
  ASSUME IndInv, Disconnect
  PROVE  IndInv'
<1> USE DEF Disconnect, callVars, closerVars
<1>1. (Open' <=> Open) /\ ~Handling' /\ ~Quiet' /\ Ending' /\ (Definite' <=> Definite)
      /\ (link' = "down" <=> link = "down") /\ link' \in {"up", "closing", "down"}
  BY DEF Open, Handling, Quiet, Ending, Definite, IndInv, TypeOK
<1>2. TypeOK'
  BY <1>1 DEF IndInv, TypeOK
<1>3. CommandInv'
  BY <1>1 DEF IndInv, CommandInv
<1>4. WireInv'
  BY <1>1 DEF IndInv, WireInv
<1>5. StatusInv'
  BY <1>1 DEF IndInv, StatusInv
<1>6. WaitInv'
  BY DEF WaitInv
<1>7. AskedInv'
  BY <1>1 DEF IndInv, AskedInv
<1> QED
  BY <1>2, <1>3, <1>4, <1>5, <1>6, <1>7 DEF IndInv

\* The owner is closed, and no command is left.
LEMMA CloseStep ==
  ASSUME IndInv, Close
  PROVE  IndInv'
<1> USE DEF Close, serverVars
<1>1. (Open' <=> Open) /\ ~Handling' /\ ~Quiet' /\ Ending' /\ (Definite' <=> Definite)
  BY DEF Open, Handling, Quiet, Ending, Definite
<1>2. TypeOK'
  <2>1. /\ cpc' \in [Calls -> {"new", "check", "leased", "sent"}]
        /\ cop' \in [Calls -> Ops]
        /\ dropped' \in [Calls -> BOOLEAN]
    BY DEF IndInv, TypeOK, Ops
  <2>2. woken' \in [Closers -> BOOLEAN]
    BY DEF IndInv, TypeOK
  <2>3. channel' \in Seq(Calls) /\ Len(channel') <= 1
    BY EmptySeq
  <2> QED
    BY <2>1, <2>2, <2>3 DEF IndInv, TypeOK
<1>3. CommandInv'
  BY <1>1 DEF CommandInv
<1>4. WireInv'
  BY <1>1 DEF IndInv, WireInv
<1>5. StatusInv'
  BY <1>1 DEF IndInv, StatusInv
<1>6. WaitInv'
  BY DEF WaitInv
<1>7. AskedInv'
  BY <1>1 DEF IndInv, AskedInv
<1> QED
  BY <1>2, <1>3, <1>4, <1>5, <1>6, <1>7 DEF IndInv

-----------------------------------------------------------------------------
\* Every step of the callers, the owner, the closers and the server preserves
\* the invariant.
LEMMA NextIndInv == IndInv /\ [Next]_vars => IndInv'
<1> SUFFICES ASSUME IndInv, [Next]_vars PROVE IndInv'
  OBVIOUS
<1>1. CASE UNCHANGED vars
  <2>1. UNCHANGED serverVars /\ UNCHANGED ownerVars /\ UNCHANGED callVars /\ UNCHANGED closerVars
    BY <1>1 DEF vars
  <2>2. TypeOK' /\ CommandInv'
    BY <2>1 DEF IndInv, TypeOK, CommandInv, Handling, ownerVars, callVars, serverVars, closerVars
  <2>3. UNCHANGED <<status, statusTx, opc, cur>> /\ cop' = cop
    BY <2>1 DEF ownerVars, callVars
  <2> QED
    BY <2>1, <2>2, <2>3, KeepsCore DEF IndInv
<1>2. CASE CallNext
  BY <1>2, AcquireStep, CheckLeaseStep, SendCommandStep, SendFailsStep, DropCallStep DEF CallNext
<1>3. CASE OwnerNext
  BY <1>3, ReceiveStep, StopStep, ExecuteStep, GiveUpStep, SucceededStep, RefusedStep, ProbedStep,
     CleanUpStep, RolledBackStep, DisconnectStep, CloseStep DEF OwnerNext
<1>4. CASE CloserNext \/ Invalidate
  BY <1>4, CloserStep
<1>5. CASE ServerRuns \/ ServerHangsUp
  BY <1>5, ServerRunsStep, ServerHangsUpStep
<1> QED
  BY <1>1, <1>2, <1>3, <1>4, <1>5 DEF Next

\* The owner's loop, its callers, its closers and the server keep the inductive
\* invariant: what handle_command, run_owner and the wire say agrees.
THEOREM Invariance == Spec => []IndInv
<1> QED
  BY InitIndInv, NextIndInv, PTL DEF Spec

\* A definite outcome in the status is what happened to that transaction at
\* the server: run_owner claims "committed" or "rolled_back" only on the word
\* of the server, and no statement left on the wire undoes it.
THEOREM OutcomesAreTrue == Spec => []OutcomeIsTrue
<1>1. IndInv => OutcomeIsTrue
  <2> SUFFICES ASSUME IndInv PROVE OutcomeIsTrue
    OBVIOUS
  <2>1. Len(fate) \in Nat
    BY DEF IndInv, TypeOK
  <2> QED
    BY <2>1 DEF IndInv, StatusInv, Definite, OutcomeIsTrue
<1> QED
  BY <1>1, Invariance, PTL

\* Between two commands an idle status means that no transaction is open, for
\* every setting of autocommit and completion_type.
THEOREM IdleIsTrue == Spec => []IdleMeansNoTransaction
<1>1. IndInv => IdleMeansNoTransaction
  BY DEF IndInv, StatusInv, Quiet, IdleMeansNoTransaction
<1> QED
  BY <1>1, Invariance, PTL

\* A transaction is committed by the one COMMIT that was sent for it.
THEOREM CommitsAreRequested == Spec => []CommittedOnRequestOnly
<1>1. IndInv => CommittedOnRequestOnly
  BY DEF IndInv, AskedInv, CommittedOnRequestOnly
<1> QED
  BY <1>1, Invariance, PTL
=============================================================================
