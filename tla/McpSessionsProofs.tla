------------------------- MODULE McpSessionsProofs -------------------------
(***************************************************************************)
(* Proofs about the stateful sessions of the MCP server, for any number of *)
(* tool calls in flight, of sessions over time, and any caps.              *)
(***************************************************************************)
EXTENDS McpSessions, FiniteSetTheorems, TLAPS

\* The sessions that session_count counts.
Counted == {s \in Sessions : place[s] \in Maps}

\* The cap on sessions.
Bounded == Cardinality(Counted) <= MaxSessions

\* Where a session is in the store, its owner and its workers fit together.
Fits(s) ==
  /\ place[s] = "new" => s \notin tx
  /\ place[s] = "opening" => s \in tx /\ (opener[s] = "none" => owner[s] = "none")
  /\ place[s] = "active" => opener[s] = "none" /\ cleaner[s] = "none" /\ (s \in tx => owner[s] # "none")
  /\ s \notin tx => owner[s] = "none"

\* What the opening worker of session s knows at each of its places.
OpenerFits(s) ==
  /\ opener[s] \in {"connect", "refused", "prepared"} => place[s] = "opening"
  /\ opener[s] \in {"tell", "close", "wait"} => place[s] = "gone"
  /\ opener[s] = "connect" => owner[s] = "none"
  /\ opener[s] \in {"refused", "tell", "wait"} => owner[s] # "open"
  /\ opener[s] = "prepared" => owner[s] # "none"

\* What the cleanup workers of session s know at each of their places.
CleanerFits(s) ==
  /\ cleaner[s] # "none" => place[s] = "closing"
  /\ cleaner[s] = "wait" => owner[s] # "open"
  /\ cleaner[s] = "pool" /\ s \in tx => owner[s] = "closed"
  /\ drainer[s] = "wait" => owner[s] # "open"
  /\ drainer[s] # "none" => phase = "draining" /\ place[s] \notin {"new", "opening"}

\* A live owner is with a worker that will close it or hand it over, or in the store
\* while somebody can still ask for it.
OwnerKept(s) ==
  owner[s] = "open" =>
    \/ opener[s] \in {"prepared", "close"}
    \/ drainer[s] = "owner"
    \/ phase = "serving" /\ place[s] \in {"active", "closing"}

\* Call r is yet to spawn the worker of session s.
Claims(r, s) == req[r].pc \in {"reserved", "toClose"} /\ req[r].s = s

\* A slot that is reserved is with a worker, or with a call that will spawn one.
SlotKept(s) ==
  place[s] \in {"opening", "closing"} /\ s \notin dropped =>
    \/ opener[s] # "none" \/ cleaner[s] # "none"
    \/ \E r \in Requests : Claims(r, s)

SessionOK(s) == Fits(s) /\ OpenerFits(s) /\ CleanerFits(s) /\ OwnerKept(s) /\ SlotKept(s)
SessionInv == \A s \in Sessions : SessionOK(s)

\* A call that is yet to spawn a worker is the only one for its session, which has no
\* worker; there are no calls once the server drains.
CallInv ==
  /\ \A r \in Requests :
       /\ req[r].pc \notin {"idle", "returning"} => req[r].s \in Sessions
       /\ req[r].pc = "reserved" => place[req[r].s] = "opening" /\ opener[req[r].s] = "none"
       /\ req[r].pc = "toClose" => place[req[r].s] = "closing" /\ cleaner[req[r].s] = "none"
       /\ phase = "draining" => req[r].pc = "idle"
  /\ \A r, q \in Requests : \A s \in Sessions : Claims(r, s) /\ Claims(q, s) => r = q

IndInv == TypeOK /\ Bounded /\ SessionInv /\ CallInv

-----------------------------------------------------------------------------
\* Before the first call there is no session.
LEMMA InitIndInv == Init => IndInv
<1> SUFFICES ASSUME Init PROVE IndInv
  OBVIOUS
<1>1. TypeOK
  BY ConstantsAssumption DEF Init, TypeOK, Idle, Maps
<1>2. Counted = {}
  BY DEF Init, Counted, Maps
<1>3. Bounded
  BY <1>2, FS_EmptySet, ConstantsAssumption DEF Bounded
<1>4. \A r \in Requests : req[r].pc = "idle"
  BY DEF Init, Idle
<1>5. SessionInv
  BY DEF Init, SessionInv, SessionOK, Fits, OpenerFits, CleanerFits, OwnerKept, SlotKept
<1>6. CallInv
  BY <1>4 DEF CallInv, Claims
<1> QED
  BY <1>1, <1>3, <1>5, <1>6 DEF IndInv

-----------------------------------------------------------------------------
(* The number of sessions.                                                 *)

\* The sessions are finitely many, and so are those of them in the store.
LEMMA CountedFinite == IsFiniteSet(Counted) /\ IsFiniteSet(Counted') /\ Cardinality(Counted) \in Nat
<1>1. IsFiniteSet(Sessions)
  BY FS_Interval, ConstantsAssumption DEF Sessions
<1>2. Counted \in SUBSET Sessions /\ Counted' \in SUBSET Sessions
  BY DEF Counted
<1> QED
  BY <1>1, <1>2, FS_Subset, FS_CardinalityType

\* No session comes into the store.
LEMMA BoundedKept ==
  ASSUME Bounded, \A s \in Sessions : place'[s] \in Maps => place[s] \in Maps
  PROVE  Bounded'
<1>1. Counted' \in SUBSET Counted
  BY DEF Counted
<1>2. Cardinality(Counted') <= Cardinality(Counted) /\ Cardinality(Counted') \in Nat
  BY <1>1, CountedFinite, FS_Subset, FS_CardinalityType
<1>3. Cardinality(Counted') <= MaxSessions
  BY <1>2, CountedFinite, ConstantsAssumption DEF Bounded
<1> QED
  BY <1>3 DEF Bounded

\* One session comes into the store, below the cap.
LEMMA BoundedGrows ==
  ASSUME NEW q, Count < MaxSessions,
         \A s \in Sessions : s # q /\ place'[s] \in Maps => place[s] \in Maps
  PROVE  Bounded'
<1>1. Counted' \in SUBSET (Counted \cup {q})
  BY DEF Counted
<1>2. IsFiniteSet(Counted \cup {q}) /\ Cardinality(Counted \cup {q}) \in {Cardinality(Counted), Cardinality(Counted) + 1}
  BY CountedFinite, FS_AddElement
<1>3. Cardinality(Counted') <= Cardinality(Counted \cup {q}) /\ Cardinality(Counted') \in Nat
  BY <1>1, <1>2, CountedFinite, FS_Subset, FS_CardinalityType
<1>4. Cardinality(Counted) < MaxSessions
  BY DEF Count, Counted
<1>5. Cardinality(Counted') <= MaxSessions
  BY <1>2, <1>3, <1>4, CountedFinite, ConstantsAssumption
<1> QED
  BY <1>5 DEF Bounded

-----------------------------------------------------------------------------
(* How the steps change the sessions.                                      *)

\* Nothing about session q but its place and its cleanup worker has changed.
Still(q) == owner'[q] = owner[q] /\ opener'[q] = opener[q] /\ drainer'[q] = drainer[q] /\ (q \in tx' <=> q \in tx)

\* Nothing about session q has changed.
Quiet(q) == Still(q) /\ place'[q] = place[q] /\ cleaner'[q] = cleaner[q]

\* Session q was swept: it has expired, and has got a cleanup worker.
Sweeps(q) == Still(q) /\ place[q] = "active" /\ place'[q] = "closing" /\ cleaner'[q] = "owner"

\* No call gives session q up, unless it is dropped.
ClaimsStay(q) == \A r \in Requests : Claims(r, q) => Claims(r, q)' \/ q \in dropped'

\* A session that nothing happens to fits as before.
LEMMA QuietKept ==
  ASSUME NEW q \in Sessions, SessionOK(q), Quiet(q), phase' = phase, dropped \subseteq dropped', ClaimsStay(q)
  PROVE  SessionOK(q)'
<1> USE DEF Quiet, Still, SessionOK
<1>1. Fits(q)' /\ OpenerFits(q)' /\ CleanerFits(q)'
  BY DEF Fits, OpenerFits, CleanerFits
<1>2. OwnerKept(q)'
  BY DEF OwnerKept
<1>3. SlotKept(q)'
  BY DEF SlotKept, ClaimsStay
<1> QED
  BY <1>1, <1>2, <1>3

\* A session that is swept has an owner that is live only in the store, and a worker.
LEMMA SweepsKept ==
  ASSUME NEW q \in Sessions, SessionOK(q), Sweeps(q), phase' = phase
  PROVE  SessionOK(q)'
<1> USE DEF Sweeps, Still, SessionOK
<1>1. Fits(q)' /\ OpenerFits(q)' /\ CleanerFits(q)'
  BY DEF Fits, OpenerFits, CleanerFits
<1>2. OwnerKept(q)'
  BY DEF OwnerKept
<1>3. SlotKept(q)'
  BY DEF SlotKept
<1> QED
  BY <1>1, <1>2, <1>3

\* sweep_expired and the cleanup it spawns, session by session.
LEMMA SweepFacts ==
  ASSUME TypeOK
  PROVE  /\ Expired \subseteq Sessions
         /\ Swept \in [Sessions -> Maps \cup {"new", "gone"}]
         /\ Spawned(Expired) \in [Sessions -> {"none", "owner", "wait", "pool"}]
         /\ \A q \in Expired : place[q] = "active" /\ Swept[q] = "closing" /\ Spawned(Expired)[q] = "owner"
         /\ \A q \in Sessions \ Expired : Swept[q] = place[q] /\ Spawned(Expired)[q] = cleaner[q]
         /\ \A q \in Sessions : Swept[q] \in Maps <=> place[q] \in Maps
  BY DEF TypeOK, Expired, Swept, Spawned, Maps

-----------------------------------------------------------------------------
(* How the steps change the calls.                                         *)

Pcs == {"idle", "reserved", "opening", "resolved", "running", "toClose", "returning"}
CallStates == [pc : Pcs, s : 0..MaxIds, waits : SUBSET Sessions]

\* Only call r has changed.
OnlyCall(r) == req' \in [Requests -> CallStates] /\ \A q \in Requests : q # r => req'[q] = req[q]

\* Call r goes on.
LEMMA GoesFacts ==
  ASSUME TypeOK, NEW r \in Requests, NEW pc \in Pcs, NEW s \in 0..MaxIds, NEW waits \in SUBSET Sessions,
         Goes(r, pc, s, waits)
  PROVE  OnlyCall(r) /\ req'[r].pc = pc /\ req'[r].s = s
<1>1. req \in [Requests -> CallStates]
  BY DEF TypeOK, CallStates, Pcs
<1>2. [pc |-> pc, s |-> s, waits |-> waits] \in CallStates
  BY DEF CallStates
<1> QED
  BY <1>1, <1>2 DEF Goes, OnlyCall

\* Call r is over.
LEMMA IdleFacts ==
  ASSUME TypeOK, NEW r \in Requests, req' = [req EXCEPT ![r] = Idle]
  PROVE  OnlyCall(r) /\ req'[r].pc = "idle" /\ req'[r].s = 0
<1>1. req \in [Requests -> CallStates]
  BY DEF TypeOK, CallStates, Pcs
<1>2. Idle \in CallStates /\ Idle.pc = "idle" /\ Idle.s = 0
  BY ConstantsAssumption DEF CallStates, Idle, Pcs
<1> QED
  BY <1>1, <1>2 DEF OnlyCall

\* Call r has nothing left but to wait and return.
LEMMA ReturnsFacts ==
  ASSUME TypeOK, NEW r \in Requests, NEW waits \in SUBSET Sessions, Returns(r, waits)
  PROVE  OnlyCall(r) /\ req'[r].pc \in {"idle", "returning"}
<1>1. CASE req' = [req EXCEPT ![r] = Idle]
  BY <1>1, IdleFacts
<1>2. CASE Goes(r, "returning", 0, waits)
  <2>1. "returning" \in Pcs /\ 0 \in 0..MaxIds
    BY ConstantsAssumption DEF Pcs
  <2> QED
    BY <1>2, <2>1, GoesFacts
<1> QED
  BY <1>1, <1>2 DEF Returns

\* A call that has changed alone leaves the claims of the others as they are.
LEMMA OthersClaim ==
  ASSUME NEW r \in Requests, OnlyCall(r), NEW q \in Requests, q # r, NEW s \in Sessions
  PROVE  Claims(q, s)' <=> Claims(q, s)
  BY DEF OnlyCall, Claims

\* A step of call r after which it claims no session, or one that nobody claims, and
\* which leaves the sessions that others claim alone.
LEMMA CallKept ==
  ASSUME IndInv, NEW r \in Requests, OnlyCall(r), phase' = phase, phase = "serving",
         req'[r].pc \notin {"idle", "returning"} => req'[r].s \in Sessions,
         req'[r].pc = "reserved" => place'[req'[r].s] = "opening" /\ opener'[req'[r].s] = "none",
         req'[r].pc = "toClose" => place'[req'[r].s] = "closing" /\ cleaner'[req'[r].s] = "none",
         \A q \in Requests : \A s \in Sessions : q # r /\ Claims(q, s) =>
           /\ ~Claims(r, s)'
           /\ place'[s] = place[s] /\ opener'[s] = opener[s] /\ cleaner'[s] = cleaner[s]
  PROVE  CallInv'
<1> DEFINE Good(q) == /\ req[q].pc \notin {"idle", "returning"} => req[q].s \in Sessions
                      /\ req[q].pc = "reserved" => place[req[q].s] = "opening" /\ opener[req[q].s] = "none"
                      /\ req[q].pc = "toClose" => place[req[q].s] = "closing" /\ cleaner[req[q].s] = "none"
                      /\ phase = "draining" => req[q].pc = "idle"
<1>1. ASSUME NEW q \in Requests PROVE Good(q)'
  <2>1. CASE q = r
    BY <2>1
  <2>2. CASE q # r
    <3>1. req'[q] = req[q] /\ Good(q)
      BY <2>2 DEF OnlyCall, IndInv, CallInv
    <3>2. CASE req[q].pc \in {"reserved", "toClose"}
      <4>1. req[q].s \in Sessions /\ Claims(q, req[q].s)
        BY <3>1, <3>2 DEF Claims
      <4>2. /\ place'[req[q].s] = place[req[q].s] /\ opener'[req[q].s] = opener[req[q].s]
            /\ cleaner'[req[q].s] = cleaner[req[q].s]
        BY <2>2, <4>1
      <4> QED
        BY <3>1, <4>2
    <3> QED
      BY <3>1, <3>2
  <2> QED
    BY <2>1, <2>2
<1>2. ASSUME NEW p \in Requests, NEW q \in Requests, NEW s \in Sessions, Claims(p, s)', Claims(q, s)' PROVE p = q
  <2>1. CASE p # r /\ q # r
    BY <1>2, <2>1, OthersClaim DEF IndInv, CallInv
  <2>2. CASE p = r /\ q # r
    BY <1>2, <2>2, OthersClaim
  <2>3. CASE p # r /\ q = r
    BY <1>2, <2>3, OthersClaim
  <2> QED
    BY <2>1, <2>2, <2>3
<1> HIDE DEF Good
<1>3. \A q \in Requests : Good(q)'
  BY <1>1
<1>4. \A p, q \in Requests : \A s \in Sessions : Claims(p, s)' /\ Claims(q, s)' => p = q
  BY <1>2
<1> QED
  BY <1>3, <1>4 DEF CallInv, Good

\* A session that a call claims is reserved in the store.
LEMMA ClaimedPlace ==
  ASSUME IndInv, NEW r \in Requests, NEW s \in Sessions, Claims(r, s)
  PROVE  place[s] \in {"opening", "closing"}
  BY DEF IndInv, CallInv, Claims

\* A call that claims nothing gives nothing up.
LEMMA ClaimsStayed ==
  ASSUME NEW r \in Requests, OnlyCall(r), NEW q \in Sessions, ~Claims(r, q)
  PROVE  ClaimsStay(q)
  BY OthersClaim DEF ClaimsStay

-----------------------------------------------------------------------------
(* The tool calls.                                                         *)

\* A call sweeps the store, and claims nothing.
LEMMA SweepStep ==
  ASSUME IndInv, NEW r \in Requests, Calls(r), OnlyCall(r), req'[r].pc \notin {"reserved", "toClose"},
         req'[r].pc \notin {"idle", "returning"} => req'[r].s \in Sessions,
         place' = Swept, stale' \subseteq stale, cleaner' = Spawned(Expired),
         UNCHANGED <<tx, owner, opener, drainer, phase, dropped>>
  PROVE  IndInv'
<1> TypeOK
  BY DEF IndInv
<1>1. TypeOK'
  BY SweepFacts DEF TypeOK, OnlyCall, CallStates, Pcs
<1>2. Bounded'
  BY SweepFacts, BoundedKept DEF IndInv
<1>3. ASSUME NEW q \in Sessions PROVE SessionOK(q)'
  <2>1. ~Claims(r, q) /\ ClaimsStay(q)
    BY ClaimsStayed DEF Calls, Claims
  <2>2. Quiet(q) \/ Sweeps(q)
    BY SweepFacts DEF Quiet, Sweeps, Still
  <2>3. SessionOK(q)
    BY DEF IndInv, SessionInv
  <2> QED
    BY <2>1, <2>2, <2>3, QuietKept, SweepsKept
<1>4. ASSUME NEW q \in Requests, NEW s \in Sessions, q # r, Claims(q, s)
      PROVE  /\ ~Claims(r, s)'
             /\ place'[s] = place[s] /\ opener'[s] = opener[s] /\ cleaner'[s] = cleaner[s]
  <2>1. s \notin Expired
    BY <1>4, ClaimedPlace, SweepFacts
  <2> QED
    BY <2>1, SweepFacts DEF Claims
<1>5. CallInv'
  BY <1>4, CallKept DEF Calls
<1> QED
  BY <1>1, <1>2, <1>3, <1>5 DEF IndInv, SessionInv

\* dbx_open_session at the cap sweeps.
LEMMA OpenRefusedStep == ASSUME IndInv, NEW r \in Requests, OpenRefused(r) PROVE IndInv'
<1>1. OnlyCall(r) /\ req'[r].pc \in {"idle", "returning"}
  BY ReturnsFacts, SweepFacts DEF OpenRefused, IndInv
<1> QED
  BY <1>1, SweepStep DEF OpenRefused

\* A query sweeps, and goes on when its session is active.
LEMMA ResolveStep == ASSUME IndInv, NEW r \in Requests, NEW s \in Sessions, Resolve(r, s) PROVE IndInv'
<1>1. Expired \in SUBSET Sessions /\ "resolved" \in Pcs /\ s \in 0..MaxIds /\ TypeOK
  BY SweepFacts, ConstantsAssumption DEF IndInv, Pcs, Sessions
<1>2. CASE Goes(r, "resolved", s, Expired)
  <2>1. OnlyCall(r) /\ req'[r].pc = "resolved" /\ req'[r].s = s
    BY <1>1, <1>2, GoesFacts
  <2> QED
    BY <2>1, SweepStep DEF Resolve
<1>3. CASE Returns(r, Expired)
  <2>1. OnlyCall(r) /\ req'[r].pc \in {"idle", "returning"}
    BY <1>1, <1>3, ReturnsFacts
  <2> QED
    BY <2>1, SweepStep DEF Resolve
<1> QED
  BY <1>2, <1>3 DEF Resolve

\* dbx_open_session without transactions adds a session below the cap.
LEMMA OpenPlainStep == ASSUME IndInv, NEW r \in Requests, OpenPlain(r) PROVE IndInv'
<1> TypeOK
  BY DEF IndInv
<1>1. PICK s \in Fresh : place' = [Swept EXCEPT ![s] = "active"]
  BY DEF OpenPlain
<1>2. s \in Sessions /\ place[s] = "new" /\ s \notin Expired
  BY SweepFacts DEF Fresh
<1>3. /\ cleaner' = Spawned(Expired) /\ stale' = stale \ Expired /\ phase = "serving"
      /\ UNCHANGED <<tx, owner, opener, drainer, phase, dropped>>
  BY DEF OpenPlain, Calls
<1>4. OnlyCall(r) /\ req'[r].pc \in {"idle", "returning"}
  BY ReturnsFacts, SweepFacts DEF OpenPlain
<1>5. place'[s] = "active" /\ \A q \in Sessions : q # s => place'[q] = Swept[q]
  BY <1>1, <1>2, SweepFacts
<1>6. TypeOK'
  BY <1>1, <1>3, <1>4, SweepFacts DEF TypeOK, OnlyCall, CallStates, Pcs, Maps
<1>7. Bounded'
  BY <1>5, SweepFacts, BoundedGrows DEF OpenPlain
<1>8. ASSUME NEW q \in Sessions PROVE SessionOK(q)'
  <2>1. ~Claims(r, q) /\ ClaimsStay(q)
    BY <1>4, ClaimsStayed DEF OpenPlain, Calls, Claims
  <2>2. SessionOK(q)
    BY DEF IndInv, SessionInv
  <2>3. CASE q = s
    <3>1. cleaner'[s] = cleaner[s]
      BY <1>2, <1>3, SweepFacts
    <3>2. s \notin tx /\ opener[s] = "none" /\ cleaner[s] = "none" /\ owner[s] = "none"
      BY <1>2, <2>2, <2>3 DEF SessionOK, Fits, OpenerFits, CleanerFits, TypeOK
    <3> QED
      BY <1>3, <1>5, <2>2, <2>3, <3>1, <3>2 DEF SessionOK, Fits, OpenerFits, CleanerFits, OwnerKept, SlotKept
  <2>4. CASE q # s
    <3>1. Quiet(q) \/ Sweeps(q)
      BY <1>3, <1>5, <2>4, SweepFacts DEF Quiet, Sweeps, Still
    <3> QED
      BY <1>3, <2>1, <2>2, <3>1, QuietKept, SweepsKept
  <2> QED
    BY <2>3, <2>4
<1>9. ASSUME NEW q \in Requests, NEW u \in Sessions, q # r, Claims(q, u)
      PROVE  /\ ~Claims(r, u)'
             /\ place'[u] = place[u] /\ opener'[u] = opener[u] /\ cleaner'[u] = cleaner[u]
  <2>1. u \notin Expired /\ u # s
    BY <1>2, <1>9, ClaimedPlace, SweepFacts
  <2> QED
    BY <1>3, <1>4, <1>5, <2>1, SweepFacts DEF Claims
<1>10. CallInv'
  BY <1>3, <1>4, <1>9, CallKept
<1> QED
  BY <1>6, <1>7, <1>8, <1>10 DEF IndInv, SessionInv

\* dbx_open_session with transactions reserves a session below the cap, and spawns its
\* worker or claims it.
LEMMA OpenTxStep == ASSUME IndInv, NEW r \in Requests, OpenTx(r) PROVE IndInv'
<1> TypeOK
  BY DEF IndInv
<1>1. PICK s \in Fresh :
        /\ place' = [Swept EXCEPT ![s] = "opening"]
        /\ tx' = tx \cup {s}
        /\ IF Expired = {}
           THEN opener' = [opener EXCEPT ![s] = "connect"] /\ Goes(r, "opening", s, {})
           ELSE UNCHANGED opener /\ Goes(r, "reserved", s, Expired)
  BY DEF OpenTx
<1>2. s \in Sessions /\ place[s] = "new" /\ s \notin Expired /\ s \in 0..MaxIds
  BY SweepFacts, ConstantsAssumption DEF Fresh, Sessions
<1>3. /\ cleaner' = Spawned(Expired) /\ stale' = stale \ Expired /\ phase = "serving"
      /\ UNCHANGED <<owner, drainer, phase, dropped>>
  BY DEF OpenTx, Calls
<1>4. /\ OnlyCall(r) /\ req'[r].s = s
      /\ \/ req'[r].pc = "opening" /\ opener' = [opener EXCEPT ![s] = "connect"]
         \/ req'[r].pc = "reserved" /\ opener' = opener
  <2>1. "opening" \in Pcs /\ "reserved" \in Pcs /\ {} \in SUBSET Sessions /\ Expired \in SUBSET Sessions
    BY SweepFacts DEF Pcs
  <2> QED
    BY <1>1, <1>2, <2>1, GoesFacts
<1>5. /\ place'[s] = "opening" /\ s \in tx'
      /\ \A q \in Sessions : q # s => place'[q] = Swept[q] /\ opener'[q] = opener[q] /\ (q \in tx' <=> q \in tx)
      /\ opener'[s] \in {"connect", opener[s]} /\ (req'[r].pc = "opening" => opener'[s] = "connect")
      /\ (req'[r].pc = "reserved" => opener'[s] = opener[s])
  BY <1>1, <1>2, <1>4, SweepFacts DEF TypeOK
<1>6. TypeOK'
  <2>1. opener' \in [Sessions -> {"none", "connect", "refused", "tell", "prepared", "close", "wait"}]
    BY <1>2, <1>4 DEF TypeOK
  <2>2. place' \in [Sessions -> Maps \cup {"new", "gone"}] /\ tx' \subseteq Sessions
    BY <1>1, <1>2, SweepFacts DEF TypeOK, Maps
  <2> QED
    BY <1>3, <1>4, <2>1, <2>2, SweepFacts DEF TypeOK, OnlyCall, CallStates, Pcs
<1>7. Bounded'
  BY <1>5, SweepFacts, BoundedGrows DEF OpenTx
<1>8. s \notin tx /\ opener[s] = "none" /\ cleaner[s] = "none" /\ owner[s] = "none" /\ SessionOK(s)
  <2>1. SessionOK(s)
    BY <1>2 DEF IndInv, SessionInv
  <2> QED
    BY <1>2, <2>1 DEF SessionOK, Fits, OpenerFits, CleanerFits, TypeOK
<1>9. ASSUME NEW q \in Sessions PROVE SessionOK(q)'
  <2>1. ~Claims(r, q) /\ ClaimsStay(q)
    BY <1>4, ClaimsStayed DEF OpenTx, Calls, Claims
  <2>2. SessionOK(q)
    BY DEF IndInv, SessionInv
  <2>3. CASE q = s
    <3>1. cleaner'[s] = cleaner[s] /\ owner'[s] = owner[s] /\ drainer'[s] = drainer[s]
      BY <1>2, <1>3, SweepFacts
    <3>2. Fits(s)' /\ OpenerFits(s)' /\ CleanerFits(s)' /\ OwnerKept(s)'
      BY <1>2, <1>3, <1>5, <1>8, <3>1 DEF SessionOK, Fits, OpenerFits, CleanerFits, OwnerKept
    <3>3. SlotKept(s)'
      <4>1. CASE req'[r].pc = "opening"
        BY <1>5, <4>1 DEF SlotKept
      <4>2. CASE req'[r].pc = "reserved"
        <5>1. Claims(r, s)'
          BY <1>4, <4>2 DEF Claims
        <5> QED
          BY <5>1 DEF SlotKept
      <4> QED
        BY <1>4, <4>1, <4>2
    <3> QED
      BY <2>3, <3>2, <3>3 DEF SessionOK
  <2>4. CASE q # s
    <3>1. Quiet(q) \/ Sweeps(q)
      BY <1>3, <1>5, <2>4, SweepFacts DEF Quiet, Sweeps, Still
    <3> QED
      BY <1>3, <2>1, <2>2, <3>1, QuietKept, SweepsKept
  <2> QED
    BY <2>3, <2>4
<1>10. ASSUME NEW q \in Requests, NEW u \in Sessions, q # r, Claims(q, u)
       PROVE  /\ ~Claims(r, u)'
              /\ place'[u] = place[u] /\ opener'[u] = opener[u] /\ cleaner'[u] = cleaner[u]
  <2>1. u \notin Expired /\ u # s
    BY <1>2, <1>10, ClaimedPlace, SweepFacts
  <2> QED
    BY <1>3, <1>4, <1>5, <2>1, SweepFacts DEF Claims
<1>11. CallInv'
  BY <1>2, <1>3, <1>4, <1>5, <1>8, <1>10, CallKept
<1> QED
  BY <1>6, <1>7, <1>9, <1>11 DEF IndInv, SessionInv

\* dbx_close_session finds its session active after the sweep, and spawns its cleanup
\* worker or claims it.
LEMMA CloseFoundStep ==
  ASSUME IndInv, NEW r \in Requests, NEW s \in Sessions, Calls(r), Swept[s] = "active",
         place' = [Swept EXCEPT ![s] = "closing"], stale' = stale \ (Expired \cup {s}),
         IF Expired = {}
         THEN cleaner' = Spawned({s}) /\ Goes(r, "returning", 0, {s})
         ELSE cleaner' = Spawned(Expired) /\ Goes(r, "toClose", s, Expired),
         UNCHANGED <<tx, owner, opener, drainer, phase, dropped>>
  PROVE  IndInv'
<1> TypeOK
  BY DEF IndInv
<1>1. s \notin Expired /\ place[s] = "active" /\ s \in 0..MaxIds /\ phase = "serving"
  BY SweepFacts, ConstantsAssumption DEF Sessions, Calls
<1>2. /\ OnlyCall(r)
      /\ \/ req'[r].pc = "returning" /\ cleaner' = Spawned({s}) /\ Expired = {}
         \/ req'[r].pc = "toClose" /\ req'[r].s = s /\ cleaner' = Spawned(Expired)
  <2>1. /\ "returning" \in Pcs /\ "toClose" \in Pcs /\ {s} \in SUBSET Sessions /\ Expired \in SUBSET Sessions
        /\ 0 \in 0..MaxIds
    BY SweepFacts, ConstantsAssumption DEF Pcs
  <2> QED
    BY <1>1, <2>1, GoesFacts
<1>3. place'[s] = "closing" /\ \A q \in Sessions : q # s => place'[q] = Swept[q]
  BY SweepFacts
<1>4. /\ cleaner' \in [Sessions -> {"none", "owner", "wait", "pool"}]
      /\ \A q \in Sessions : q # s => cleaner'[q] = Spawned(Expired)[q]
      /\ req'[r].pc = "returning" => cleaner'[s] = "owner"
      /\ req'[r].pc = "toClose" => cleaner'[s] = cleaner[s]
  <2>1. CASE req'[r].pc = "returning" /\ cleaner' = Spawned({s}) /\ Expired = {}
    BY <2>1 DEF Spawned, TypeOK
  <2>2. CASE req'[r].pc = "toClose" /\ cleaner' = Spawned(Expired)
    BY <1>1, <2>2, SweepFacts
  <2> QED
    BY <1>2, <2>1, <2>2
<1>5. TypeOK'
  <2>1. place' \in [Sessions -> Maps \cup {"new", "gone"}] /\ stale' \subseteq Sessions
    BY SweepFacts DEF TypeOK, Maps
  <2> QED
    BY <1>2, <1>4, <2>1 DEF TypeOK, OnlyCall, CallStates, Pcs
<1>6. Bounded'
  <2>1. \A q \in Sessions : place'[q] \in Maps => place[q] \in Maps
    BY <1>1, <1>3, SweepFacts DEF Maps
  <2> QED
    BY <2>1, BoundedKept DEF IndInv
<1>7. SessionOK(s) /\ opener[s] = "none" /\ cleaner[s] = "none"
  <2>1. SessionOK(s)
    BY DEF IndInv, SessionInv
  <2> QED
    BY <1>1, <2>1 DEF SessionOK, Fits
<1>8. ASSUME NEW q \in Sessions PROVE SessionOK(q)'
  <2>1. ~Claims(r, q) /\ ClaimsStay(q)
    BY <1>2, ClaimsStayed DEF Calls, Claims
  <2>2. SessionOK(q)
    BY DEF IndInv, SessionInv
  <2>3. CASE q = s
    <3>1. cleaner'[s] \in {"none", "owner"}
      BY <1>2, <1>4, <1>7
    <3>2. Fits(s)' /\ OpenerFits(s)' /\ CleanerFits(s)' /\ OwnerKept(s)'
      BY <1>1, <1>3, <1>7, <3>1 DEF SessionOK, Fits, OpenerFits, CleanerFits, OwnerKept
    <3>3. SlotKept(s)'
      <4>1. CASE req'[r].pc = "returning"
        BY <1>4, <4>1 DEF SlotKept
      <4>2. CASE req'[r].pc = "toClose" /\ req'[r].s = s
        <5>1. Claims(r, s)'
          BY <4>2 DEF Claims
        <5> QED
          BY <5>1 DEF SlotKept
      <4> QED
        BY <1>2, <4>1, <4>2
    <3> QED
      BY <2>3, <3>2, <3>3 DEF SessionOK
  <2>4. CASE q # s
    <3>1. Quiet(q) \/ Sweeps(q)
      BY <1>3, <1>4, <2>4, SweepFacts DEF Quiet, Sweeps, Still
    <3> QED
      BY <2>1, <2>2, <3>1, QuietKept, SweepsKept
  <2> QED
    BY <2>3, <2>4
<1>9. ASSUME NEW q \in Requests, NEW u \in Sessions, q # r, Claims(q, u)
      PROVE  /\ ~Claims(r, u)'
             /\ place'[u] = place[u] /\ opener'[u] = opener[u] /\ cleaner'[u] = cleaner[u]
  <2>1. u \notin Expired /\ u # s
    BY <1>1, <1>9, ClaimedPlace, SweepFacts
  <2> QED
    BY <1>2, <1>3, <1>4, <2>1, SweepFacts DEF Claims
<1>10. CallInv'
  BY <1>1, <1>2, <1>3, <1>4, <1>7, <1>9, CallKept
<1> QED
  BY <1>5, <1>6, <1>8, <1>10 DEF IndInv, SessionInv

\* dbx_close_session finds its session, or only sweeps.
LEMMA CloseCallStep == ASSUME IndInv, NEW r \in Requests, NEW s \in Sessions, CloseCall(r, s) PROVE IndInv'
<1>1. CASE Swept[s] = "active"
  BY <1>1, CloseFoundStep DEF CloseCall
<1>2. CASE Swept[s] # "active"
  <2>1. /\ place' = Swept /\ cleaner' = Spawned(Expired) /\ Returns(r, Expired) /\ Calls(r)
        /\ stale' = stale \ (Expired \cup {s}) /\ UNCHANGED <<tx, owner, opener, drainer, phase, dropped>>
    BY <1>2 DEF CloseCall
  <2>2. OnlyCall(r) /\ req'[r].pc \in {"idle", "returning"}
    BY <2>1, ReturnsFacts, SweepFacts DEF IndInv
  <2> QED
    BY <2>1, <2>2, SweepStep
<1> QED
  BY <1>1, <1>2

-----------------------------------------------------------------------------
(* The steps of a call that goes on: they touch its own session.           *)

\* Call r goes on and spawns what it has claimed, or gives it up; other calls have
\* nothing to do with its session.
LEMMA OwnStep ==
  ASSUME IndInv, NEW r \in Requests, OnlyCall(r), phase' = phase, phase = "serving", TypeOK', NEW s,
         \A q \in Sessions : q # s => Quiet(q) /\ ~Claims(r, q),
         s \in Sessions => SessionOK(s)',
         s \in Sessions /\ place'[s] \in Maps => place[s] \in Maps,
         dropped \subseteq dropped',
         req'[r].pc \notin {"reserved", "toClose"},
         req'[r].pc \notin {"idle", "returning"} => req'[r].s \in Sessions,
         \A q \in Requests : q # r /\ s \in Sessions /\ Claims(q, s) =>
           place'[s] = place[s] /\ opener'[s] = opener[s] /\ cleaner'[s] = cleaner[s]
  PROVE  IndInv'
<1>1. Bounded'
  BY BoundedKept DEF IndInv, Quiet
<1>2. ASSUME NEW q \in Sessions PROVE SessionOK(q)'
  <2>1. CASE q = s
    BY <2>1
  <2>2. CASE q # s
    <3>1. SessionOK(q) /\ ClaimsStay(q)
      BY <2>2, ClaimsStayed DEF IndInv, SessionInv
    <3> QED
      BY <2>2, <3>1, QuietKept
  <2> QED
    BY <2>1, <2>2
<1>3. ASSUME NEW q \in Requests, NEW u \in Sessions, q # r, Claims(q, u)
      PROVE  /\ ~Claims(r, u)'
             /\ place'[u] = place[u] /\ opener'[u] = opener[u] /\ cleaner'[u] = cleaner[u]
  BY <1>3 DEF Claims, Quiet, Still
<1>4. CallInv'
  BY <1>3, CallKept
<1> QED
  BY <1>1, <1>2, <1>4 DEF IndInv, SessionInv

\* A call in progress has a session, unless it only waits, and the server serves.
LEMMA InProgress ==
  ASSUME IndInv, NEW r \in Requests, req[r].pc # "idle"
  PROVE  phase = "serving" /\ (req[r].pc # "returning" => req[r].s \in Sessions)
  BY DEF IndInv, CallInv, TypeOK

\* The opening worker of a reserved session is spawned.
LEMMA SpawnOpenerStep == ASSUME IndInv, NEW r \in Requests, SpawnOpener(r) PROVE IndInv'
<1> TypeOK
  BY DEF IndInv
<1>1. PICK s \in Sessions : s = req[r].s
  BY InProgress DEF SpawnOpener
<1>2. /\ req[r].pc = "reserved" /\ phase = "serving" /\ opener' = [opener EXCEPT ![s] = "connect"]
      /\ UNCHANGED <<place, stale, tx, owner, cleaner, drainer, phase, dropped>>
  BY <1>1, InProgress DEF SpawnOpener, store
<1>3. OnlyCall(r) /\ req'[r].pc = "opening" /\ req'[r].s = s
  <2>1. "opening" \in Pcs /\ s \in 0..MaxIds /\ {} \in SUBSET Sessions
    BY ConstantsAssumption DEF Pcs, Sessions
  <2> QED
    BY <1>1, <2>1, GoesFacts DEF SpawnOpener
<1>4. TypeOK'
  BY <1>2, <1>3 DEF TypeOK, OnlyCall, CallStates, Pcs
<1>5. opener'[s] = "connect" /\ \A q \in Sessions : q # s => Quiet(q) /\ ~Claims(r, q)
  BY <1>1, <1>2 DEF TypeOK, Quiet, Still, Claims
<1>6. SessionOK(s) /\ place[s] = "opening" /\ opener[s] = "none" /\ Claims(r, s)
  BY <1>1, <1>2 DEF IndInv, SessionInv, CallInv, Claims
<1>7. SessionOK(s)'
  BY <1>2, <1>5, <1>6 DEF SessionOK, Fits, OpenerFits, CleanerFits, OwnerKept, SlotKept
<1>8. \A q \in Requests : q # r => ~Claims(q, s)
  BY <1>6 DEF IndInv, CallInv
<1> QED
  BY <1>2, <1>3, <1>4, <1>5, <1>6, <1>7, <1>8, OwnStep

\* The prepared owner is taken: the session is active, its opening worker is done.
LEMMA PromoteStep == ASSUME IndInv, NEW r \in Requests, Promote(r) PROVE IndInv'
<1> TypeOK
  BY DEF IndInv
<1>1. PICK s \in Sessions : s = req[r].s
  BY InProgress DEF Promote
<1>2. /\ req[r].pc = "opening" /\ phase = "serving" /\ opener[s] = "prepared"
      /\ place' = [place EXCEPT ![s] = "active"] /\ opener' = [opener EXCEPT ![s] = "none"]
      /\ UNCHANGED <<stale, tx, owner, cleaner, drainer, phase, dropped>>
  BY <1>1, InProgress DEF Promote
<1>3. OnlyCall(r) /\ req'[r].pc = "idle"
  BY IdleFacts DEF Promote
<1>4. TypeOK'
  BY <1>2, <1>3 DEF TypeOK, OnlyCall, CallStates, Pcs, Maps
<1>5. place'[s] = "active" /\ opener'[s] = "none" /\ \A q \in Sessions : q # s => Quiet(q) /\ ~Claims(r, q)
  BY <1>1, <1>2 DEF TypeOK, Quiet, Still, Claims
<1>6. SessionOK(s) /\ place[s] = "opening"
  BY <1>2 DEF IndInv, SessionInv, SessionOK, OpenerFits
<1>7. SessionOK(s)'
  BY <1>2, <1>5, <1>6 DEF SessionOK, Fits, OpenerFits, CleanerFits, OwnerKept, SlotKept
<1>8. \A q \in Requests : ~Claims(q, s)
  BY <1>2, <1>6 DEF IndInv, CallInv, Claims
<1>9. place[s] \in Maps
  BY <1>6 DEF Maps
<1> QED
  BY <1>2, <1>3, <1>4, <1>5, <1>7, <1>8, <1>9, OwnStep

\* The cleanup worker of a session that is being closed is spawned.
LEMMA SpawnCleanerStep == ASSUME IndInv, NEW r \in Requests, SpawnCleaner(r) PROVE IndInv'
<1> TypeOK
  BY DEF IndInv
<1>1. PICK s \in Sessions : s = req[r].s
  BY InProgress DEF SpawnCleaner
<1>2. /\ req[r].pc = "toClose" /\ phase = "serving" /\ cleaner' = Spawned({s})
      /\ UNCHANGED <<place, stale, tx, owner, opener, drainer, phase, dropped>>
  BY <1>1, InProgress DEF SpawnCleaner, store
<1>3. OnlyCall(r) /\ req'[r].pc = "returning"
  <2>1. "returning" \in Pcs /\ 0 \in 0..MaxIds /\ {s} \in SUBSET Sessions
    BY ConstantsAssumption DEF Pcs
  <2> QED
    BY <1>1, <2>1, GoesFacts DEF SpawnCleaner
<1>4. /\ cleaner' \in [Sessions -> {"none", "owner", "wait", "pool"}] /\ cleaner'[s] = "owner"
      /\ \A q \in Sessions : q # s => cleaner'[q] = cleaner[q]
  BY <1>2 DEF TypeOK, Spawned
<1>5. TypeOK'
  BY <1>2, <1>3, <1>4 DEF TypeOK, OnlyCall, CallStates, Pcs
<1>6. \A q \in Sessions : q # s => Quiet(q) /\ ~Claims(r, q)
  BY <1>1, <1>2, <1>4 DEF Quiet, Still, Claims
<1>7. SessionOK(s) /\ place[s] = "closing" /\ cleaner[s] = "none" /\ Claims(r, s)
  BY <1>1, <1>2 DEF IndInv, SessionInv, CallInv, Claims
<1>8. SessionOK(s)'
  BY <1>2, <1>4, <1>7 DEF SessionOK, Fits, OpenerFits, CleanerFits, OwnerKept, SlotKept
<1>9. \A q \in Requests : q # r => ~Claims(q, s)
  BY <1>7 DEF IndInv, CallInv
<1> QED
  BY <1>2, <1>3, <1>5, <1>6, <1>7, <1>8, <1>9, OwnStep

\* A query runs or is refused, its result comes, a call returns: only the call changes.
LEMMA RunStep == ASSUME IndInv, NEW r \in Requests, Run(r) \/ RunEnds(r) \/ Return(r) PROVE IndInv'
<1> TypeOK
  BY DEF IndInv
<1>1. /\ req[r].pc \in {"resolved", "running", "returning"}
      /\ UNCHANGED <<place, stale, tx, owner, opener, cleaner, drainer, phase, dropped>>
  BY DEF Run, RunEnds, Return, store, workers
<1>2. phase = "serving" /\ (req[r].pc # "returning" => req[r].s \in Sessions)
  BY <1>1, InProgress
<1>3. OnlyCall(r) /\ (req'[r].pc = "idle" \/ (req'[r].pc = "running" /\ req'[r].s \in Sessions))
  <2>1. CASE req' = [req EXCEPT ![r] = Idle]
    BY <2>1, IdleFacts
  <2>2. CASE req[r].pc = "resolved" /\ Goes(r, "running", req[r].s, {})
    <3>1. "running" \in Pcs /\ req[r].s \in 0..MaxIds /\ {} \in SUBSET Sessions
      BY <1>2, <2>2, ConstantsAssumption DEF Pcs, Sessions
    <3> QED
      BY <1>2, <2>2, <3>1, GoesFacts
  <2> QED
    BY <2>1, <2>2 DEF Run, RunEnds, Return
<1>4. TypeOK'
  BY <1>1, <1>3 DEF TypeOK, OnlyCall, CallStates, Pcs
<1>5. \A q \in Sessions : Quiet(q) /\ ~Claims(r, q)
  BY <1>1 DEF Quiet, Still, Claims
<1>6. 0 \notin Sessions
  BY ConstantsAssumption DEF Sessions
<1> QED
  BY <1>1, <1>2, <1>3, <1>4, <1>5, <1>6, OwnStep

\* A call is cancelled where it waits: what it had claimed is dropped.
LEMMA CancelStep == ASSUME IndInv, NEW r \in Requests, Cancel(r) PROVE IndInv'
<1> TypeOK
  BY DEF IndInv
<1>1. /\ req[r].pc # "idle" /\ phase = "serving"
      /\ UNCHANGED <<place, stale, tx, opener, cleaner, drainer, phase>>
  BY InProgress DEF Cancel, store, workers
<1>2. OnlyCall(r) /\ req'[r].pc = "idle"
  BY IdleFacts DEF Cancel
<1>3. CASE req[r].pc = "returning"
  <2>1. UNCHANGED <<owner, dropped>>
    BY <1>3 DEF Cancel
  <2>2. TypeOK'
    BY <1>1, <1>2, <2>1 DEF TypeOK, OnlyCall, CallStates, Pcs
  <2>3. \A q \in Sessions : Quiet(q) /\ ~Claims(r, q)
    BY <1>1, <1>3, <2>1 DEF Quiet, Still, Claims
  <2>4. 0 \notin Sessions
    BY ConstantsAssumption DEF Sessions
  <2> QED
    BY <1>1, <1>2, <2>1, <2>2, <2>3, <2>4, OwnStep
<1>4. CASE req[r].pc # "returning"
  <2>1. PICK s \in Sessions : s = req[r].s
    BY <1>1, <1>4, InProgress
  <2>2. /\ owner' \in [Sessions -> {"none", "open", "ending", "closed"}]
        /\ \A q \in Sessions : q # s => owner'[q] = owner[q]
        /\ owner'[s] = owner[s] \/ (owner[s] = "open" /\ owner'[s] = "ending")
    <3>1. owner' = owner \/ (owner[s] = "open" /\ owner' = [owner EXCEPT ![s] = "ending"])
      BY <2>1 DEF Cancel
    <3> QED
      BY <3>1 DEF TypeOK
  <2>3. /\ dropped' \in SUBSET Sessions /\ dropped \subseteq dropped'
        /\ Claims(r, s) => s \in dropped'
    BY <2>1 DEF Cancel, TypeOK, Claims
  <2>4. TypeOK'
    BY <1>1, <1>2, <2>2, <2>3 DEF TypeOK, OnlyCall, CallStates, Pcs
  <2>5. \A q \in Sessions : q # s => Quiet(q) /\ ~Claims(r, q)
    BY <1>1, <2>1, <2>2 DEF Quiet, Still, Claims
  <2>6. SessionOK(s) /\ ClaimsStay(s)
    BY <1>2, <2>3, OthersClaim DEF IndInv, SessionInv, ClaimsStay
  <2>7. SessionOK(s)'
    <3>1. Fits(s)' /\ OpenerFits(s)' /\ CleanerFits(s)' /\ OwnerKept(s)'
      BY <1>1, <2>2, <2>6 DEF SessionOK, Fits, OpenerFits, CleanerFits, OwnerKept
    <3>2. SlotKept(s)'
      BY <1>1, <2>3, <2>6 DEF SessionOK, SlotKept, ClaimsStay
    <3> QED
      BY <3>1, <3>2 DEF SessionOK
  <2> QED
    BY <1>1, <1>2, <2>3, <2>4, <2>5, <2>7, OwnStep
<1> QED
  BY <1>3, <1>4

-----------------------------------------------------------------------------
(* The steps of the workers and of the environment: they touch one session. *)

\* Nobody claims or gives up a session; a call whose worker has answered may be over.
Calm ==
  /\ req' \in [Requests -> CallStates]
  /\ \A r \in Requests : \/ req'[r].pc = req[r].pc /\ req'[r].s = req[r].s
                         \/ req[r].pc = "opening" /\ req'[r].pc = "idle"

\* A calm step claims what was claimed.
LEMMA CalmClaims ==
  ASSUME Calm, NEW r \in Requests, NEW s \in Sessions
  PROVE  Claims(r, s)' <=> Claims(r, s)
  BY DEF Calm, Claims

\* A call that stands still is calm.
LEMMA CalmStill == ASSUME TypeOK, UNCHANGED req PROVE Calm
  BY DEF TypeOK, Calm, CallStates, Pcs

\* Only session s has changed, which nobody claims, or its owner alone.
LEMMA SessionStep ==
  ASSUME IndInv, NEW s \in Sessions, Calm, UNCHANGED <<tx, phase, dropped>>, TypeOK',
         \A q \in Sessions : q # s => Quiet(q),
         SessionOK(s) => SessionOK(s)',
         place'[s] \in Maps => place[s] \in Maps,
         \/ \A r \in Requests : ~Claims(r, s)
         \/ place'[s] = place[s] /\ opener'[s] = opener[s] /\ cleaner'[s] = cleaner[s]
  PROVE  IndInv'
<1>1. Bounded'
  BY BoundedKept DEF IndInv, Quiet
<1>2. ASSUME NEW q \in Sessions PROVE SessionOK(q)'
  <2>1. SessionOK(q) /\ ClaimsStay(q)
    BY CalmClaims DEF IndInv, SessionInv, ClaimsStay
  <2> QED
    BY <2>1, QuietKept
<1>3. ASSUME NEW r \in Requests
      PROVE  /\ req'[r].pc \notin {"idle", "returning"} => req'[r].s \in Sessions
             /\ req'[r].pc = "reserved" => place'[req'[r].s] = "opening" /\ opener'[req'[r].s] = "none"
             /\ req'[r].pc = "toClose" => place'[req'[r].s] = "closing" /\ cleaner'[req'[r].s] = "none"
             /\ phase' = "draining" => req'[r].pc = "idle"
  <2>1. CASE req[r].pc = "opening" /\ req'[r].pc = "idle"
    BY <2>1
  <2>2. CASE req'[r].pc = req[r].pc /\ req'[r].s = req[r].s
    <3>1. CASE req[r].pc \in {"reserved", "toClose"}
      <4>1. PICK u \in Sessions : u = req[r].s
        BY <3>1 DEF IndInv, CallInv
      <4>2. place'[u] = place[u] /\ opener'[u] = opener[u] /\ cleaner'[u] = cleaner[u]
        BY <3>1, <4>1 DEF Claims, Quiet, Still
      <4> QED
        BY <2>2, <4>1, <4>2 DEF IndInv, CallInv
    <3>2. CASE req[r].pc \notin {"reserved", "toClose"}
      BY <2>2, <3>2 DEF IndInv, CallInv
    <3> QED
      BY <3>1, <3>2
  <2> QED
    BY <2>1, <2>2 DEF Calm
<1>4. CallInv'
  <2>1. \A r, q \in Requests : \A u \in Sessions : Claims(r, u)' /\ Claims(q, u)' => r = q
    BY CalmClaims DEF IndInv, CallInv
  <2> QED
    BY <1>3, <2>1 DEF CallInv
<1> QED
  BY <1>1, <1>2, <1>4 DEF IndInv, SessionInv

\* Nobody claims a session that has a worker, is active, or is gone.
LEMMA Unclaimed ==
  ASSUME IndInv, NEW s \in Sessions,
         \/ place[s] = "opening" /\ opener[s] # "none"
         \/ place[s] = "closing" /\ cleaner[s] # "none"
         \/ place[s] \notin {"opening", "closing"},
         NEW r \in Requests
  PROVE  ~Claims(r, s)
  BY DEF IndInv, CallInv, Claims

\* The owner of session s is cancelled.
LEMMA EndsFacts ==
  ASSUME TypeOK, NEW s \in Sessions
  PROVE  /\ Ends(s) \in [Sessions -> {"none", "open", "ending", "closed"}]
         /\ Ends(s)[s] = (IF owner[s] = "open" THEN "ending" ELSE owner[s])
         /\ \A q \in Sessions : q # s => Ends(s)[q] = owner[q]
  BY DEF TypeOK, Ends

\* open_transaction_owner succeeds or fails.
LEMMA OpenOwnerStep == ASSUME IndInv, NEW s \in Sessions, OpenOwner(s) PROVE IndInv'
<1> TypeOK
  BY DEF IndInv
<1>1. /\ opener[s] = "connect" /\ Calm
      /\ UNCHANGED <<place, stale, tx, cleaner, drainer, req, phase, dropped>>
  BY CalmStill DEF OpenOwner, store
<1>2. /\ owner' \in [Sessions -> {"none", "open", "ending", "closed"}]
      /\ opener' \in [Sessions -> {"none", "connect", "refused", "tell", "prepared", "close", "wait"}]
      /\ \A q \in Sessions : q # s => owner'[q] = owner[q] /\ opener'[q] = opener[q]
      /\ \/ opener'[s] = "prepared" /\ owner'[s] = "open"
         \/ opener'[s] = "refused" /\ owner'[s] \in {"ending", owner[s]}
  BY DEF OpenOwner, TypeOK
<1>3. TypeOK'
  BY <1>1, <1>2 DEF TypeOK
<1>4. SessionOK(s) /\ place[s] = "opening" /\ owner[s] = "none"
  BY <1>1 DEF IndInv, SessionInv, SessionOK, OpenerFits
<1>5. SessionOK(s)'
  BY <1>1, <1>2, <1>4 DEF SessionOK, Fits, OpenerFits, CleanerFits, OwnerKept, SlotKept
<1>6. \A r \in Requests : ~Claims(r, s)
  BY <1>1, <1>4, Unclaimed
<1>7. \A q \in Sessions : q # s => Quiet(q)
  BY <1>1, <1>2 DEF Quiet, Still
<1> QED
  BY <1>1, <1>3, <1>5, <1>6, <1>7, SessionStep

\* The opening worker of session s goes on without its slot; the owner may end.
LEMMA OpenerMoves ==
  ASSUME IndInv, NEW s \in Sessions, Calm, NEW pc \in {"none", "tell", "close", "wait"},
         opener[s] # "none", opener' = [opener EXCEPT ![s] = pc], place' = [place EXCEPT ![s] = "gone"],
         owner' = owner \/ owner' = Ends(s),
         UNCHANGED <<stale, tx, cleaner, drainer, phase, dropped>>,
         pc \in {"tell", "wait"} => owner'[s] # "open",
         pc = "none" => owner[s] # "open"
  PROVE  IndInv'
<1> TypeOK
  BY DEF IndInv
<1>1. /\ owner' \in [Sessions -> {"none", "open", "ending", "closed"}]
      /\ \A q \in Sessions : q # s => owner'[q] = owner[q] /\ opener'[q] = opener[q] /\ place'[q] = place[q]
      /\ owner'[s] = owner[s] \/ (owner[s] = "open" /\ owner'[s] = "ending")
      /\ opener'[s] = pc /\ place'[s] = "gone"
  BY EndsFacts DEF TypeOK
<1>2. TypeOK'
  <2>1. /\ place' \in [Sessions -> Maps \cup {"new", "gone"}]
        /\ opener' \in [Sessions -> {"none", "connect", "refused", "tell", "prepared", "close", "wait"}]
    BY DEF TypeOK
  <2> QED
    BY <1>1, <2>1 DEF TypeOK, Calm, CallStates, Pcs
<1>3. SessionOK(s) /\ place[s] \in {"opening", "gone"}
  BY DEF IndInv, SessionInv, SessionOK, OpenerFits, TypeOK
<1>4. SessionOK(s)'
  <2>1. cleaner[s] = "none"
    BY <1>3 DEF SessionOK, CleanerFits
  <2> QED
    BY <1>1, <1>3, <2>1 DEF SessionOK, Fits, OpenerFits, CleanerFits, OwnerKept, SlotKept
<1>5. \A r \in Requests : ~Claims(r, s)
  BY <1>3, Unclaimed
<1>6. \A q \in Sessions : q # s => Quiet(q)
  BY <1>1 DEF Quiet, Still
<1>7. place'[s] \notin Maps
  BY <1>1 DEF Maps
<1> QED
  BY <1>2, <1>4, <1>5, <1>6, <1>7, SessionStep

\* A worker that was refused, or that nobody waits for, gives the slot up.
LEMMA OpenerGivesUp ==
  ASSUME IndInv, NEW s \in Sessions, OpenerCancels(s) \/ OpenerAbandoned(s)
  PROVE  IndInv'
<1> TypeOK
  BY DEF IndInv
<1>1. SessionOK(s) /\ opener[s] \in {"refused", "prepared"} /\ place[s] = "opening"
  BY DEF IndInv, SessionInv, SessionOK, OpenerFits, OpenerCancels, OpenerAbandoned
<1>2. /\ place' = [place EXCEPT ![s] = "gone"] /\ Calm
      /\ UNCHANGED <<stale, tx, owner, cleaner, drainer, phase, dropped>>
  BY <1>1, CalmStill DEF OpenerCancels, OpenerAbandoned
<1>3. CASE opener[s] = "refused"
  <2>1. opener' = [opener EXCEPT ![s] = "tell"] /\ owner'[s] # "open"
    BY <1>1, <1>2, <1>3 DEF OpenerCancels, OpenerAbandoned, SessionOK, OpenerFits
  <2> QED
    BY <1>1, <1>2, <2>1, OpenerMoves
<1>4. CASE opener[s] = "prepared"
  <2>1. opener' = [opener EXCEPT ![s] = "close"]
    BY <1>4 DEF OpenerCancels, OpenerAbandoned
  <2> QED
    BY <1>1, <1>2, <2>1, OpenerMoves
<1> QED
  BY <1>1, <1>3, <1>4

\* The worker that has given its slot up closes the owner, and is done.
LEMMA OpenerFinishes ==
  ASSUME IndInv, NEW s \in Sessions, OpenerTells(s) \/ OpenerClosesOwner(s) \/ OpenerDone(s)
  PROVE  IndInv'
<1> TypeOK
  BY DEF IndInv
<1>1. SessionOK(s) /\ opener[s] \in {"tell", "close", "wait"} /\ place[s] = "gone"
  BY DEF IndInv, SessionInv, SessionOK, OpenerFits, OpenerTells, OpenerClosesOwner, OpenerDone
<1>2. /\ place' = [place EXCEPT ![s] = "gone"]
      /\ UNCHANGED <<stale, tx, cleaner, drainer, phase, dropped>>
  BY <1>1 DEF OpenerTells, OpenerClosesOwner, OpenerDone, store, TypeOK
<1>3. CASE OpenerTells(s)
  <2>1. Calm
    BY <1>3, ConstantsAssumption DEF OpenerTells, Calm, TypeOK, CallStates, Pcs, Idle
  <2>2. owner[s] # "open" /\ owner' = owner /\ opener' = [opener EXCEPT ![s] = "none"]
    BY <1>1, <1>3 DEF OpenerTells, SessionOK, OpenerFits
  <2> QED
    BY <1>1, <1>2, <2>1, <2>2, OpenerMoves
<1>4. CASE OpenerClosesOwner(s)
  <2>1. Calm /\ owner' = Ends(s) /\ opener' = [opener EXCEPT ![s] = "wait"]
    BY <1>4, CalmStill DEF OpenerClosesOwner
  <2>2. owner'[s] # "open"
    BY <2>1, EndsFacts
  <2> QED
    BY <1>1, <1>2, <2>1, <2>2, OpenerMoves
<1>5. CASE OpenerDone(s)
  <2>1. Calm /\ owner' = owner /\ owner[s] = "closed" /\ opener' = [opener EXCEPT ![s] = "none"]
    BY <1>5, CalmStill DEF OpenerDone
  <2> QED
    BY <1>1, <1>2, <2>1, OpenerMoves
<1> QED
  BY <1>3, <1>4, <1>5

\* The cleanup worker closes the owner of session s and waits for it.
LEMMA CleanOwnerStep == ASSUME IndInv, NEW s \in Sessions, CleanOwner(s) \/ CleanWait(s) PROVE IndInv'
<1> TypeOK
  BY DEF IndInv
<1>1. /\ cleaner[s] \in {"owner", "wait"} /\ Calm
      /\ UNCHANGED <<place, stale, tx, opener, drainer, req, phase, dropped>>
  BY CalmStill DEF CleanOwner, CleanWait, store
<1>2. /\ owner' \in [Sessions -> {"none", "open", "ending", "closed"}]
      /\ cleaner' \in [Sessions -> {"none", "owner", "wait", "pool"}]
      /\ \A q \in Sessions : q # s => owner'[q] = owner[q] /\ cleaner'[q] = cleaner[q]
      /\ owner'[s] = owner[s] \/ (owner[s] = "open" /\ owner'[s] = "ending")
      /\ \/ cleaner'[s] = "wait" /\ owner'[s] # "open"
         \/ cleaner'[s] = "pool" /\ (s \in tx => owner'[s] = "closed")
  <2>1. CASE CleanOwner(s)
    <3>1. owner' = Ends(s) /\ cleaner' = [cleaner EXCEPT ![s] = IF s \in tx THEN "wait" ELSE "pool"]
      BY <2>1 DEF CleanOwner
    <3> QED
      BY <3>1, EndsFacts DEF TypeOK
  <2>2. CASE CleanWait(s)
    BY <2>2 DEF CleanWait, TypeOK
  <2> QED
    BY <2>1, <2>2
<1>3. TypeOK'
  BY <1>1, <1>2 DEF TypeOK
<1>4. SessionOK(s) /\ place[s] = "closing"
  BY <1>1 DEF IndInv, SessionInv, SessionOK, CleanerFits
<1>5. SessionOK(s)'
  BY <1>1, <1>2, <1>4 DEF SessionOK, Fits, OpenerFits, CleanerFits, OwnerKept, SlotKept
<1>6. \A r \in Requests : ~Claims(r, s)
  BY <1>1, <1>4, Unclaimed
<1>7. \A q \in Sessions : q # s => Quiet(q)
  BY <1>1, <1>2 DEF Quiet, Still
<1> QED
  BY <1>1, <1>3, <1>5, <1>6, <1>7, SessionStep

\* The cleaned session leaves the store, or is active again.
LEMMA CleanStoreStep == ASSUME IndInv, NEW s \in Sessions, CleanStore(s) PROVE IndInv'
<1> TypeOK
  BY DEF IndInv
<1>1. /\ cleaner[s] = "pool" /\ cleaner' = [cleaner EXCEPT ![s] = "none"]
      /\ UNCHANGED <<stale, tx, owner, opener, drainer, phase, dropped>>
  BY DEF CleanStore
<1>2. SessionOK(s) /\ place[s] = "closing" /\ (s \in tx => owner[s] = "closed")
  BY <1>1 DEF IndInv, SessionInv, SessionOK, CleanerFits
<1>3. Calm
  <2>1. req \in [Requests -> CallStates] /\ req' = [r \in Requests |-> [req[r] EXCEPT !.waits = @ \ {s}]]
    BY DEF TypeOK, CallStates, Pcs, CleanStore
  <2>2. ASSUME NEW r \in Requests
        PROVE req'[r] \in CallStates /\ req'[r].pc = req[r].pc /\ req'[r].s = req[r].s
    <3>1. PICK c \in CallStates : c = req[r]
      BY <2>1
    <3>2. req'[r] = [c EXCEPT !.waits = c.waits \ {s}]
      BY <2>1, <3>1
    <3> QED
      BY <3>1, <3>2 DEF CallStates
  <2> QED
    BY <2>1, <2>2 DEF Calm
<1>4. place' = [place EXCEPT ![s] = "gone"] \/ (s \notin tx /\ place' = [place EXCEPT ![s] = "active"])
  BY <1>2 DEF CleanStore
<1>5. /\ place'[s] = "gone" \/ (s \notin tx /\ place'[s] = "active")
      /\ cleaner'[s] = "none"
      /\ \A q \in Sessions : q # s => place'[q] = place[q] /\ cleaner'[q] = cleaner[q]
  BY <1>1, <1>4 DEF TypeOK
<1>6. TypeOK'
  <2>1. /\ place' \in [Sessions -> Maps \cup {"new", "gone"}]
        /\ cleaner' \in [Sessions -> {"none", "owner", "wait", "pool"}]
    BY <1>1, <1>4 DEF TypeOK, Maps
  <2> QED
    BY <1>1, <1>3, <2>1 DEF TypeOK, Calm, CallStates, Pcs
<1>7. SessionOK(s)'
  <2>1. opener[s] = "none"
    BY <1>2 DEF SessionOK, OpenerFits, TypeOK
  <2> QED
    BY <1>1, <1>2, <1>5, <2>1 DEF SessionOK, Fits, OpenerFits, CleanerFits, OwnerKept, SlotKept
<1>8. \A r \in Requests : ~Claims(r, s)
  BY <1>1, <1>2, Unclaimed
<1>9. place[s] \in Maps /\ \A q \in Sessions : q # s => Quiet(q)
  BY <1>1, <1>2, <1>5 DEF Quiet, Still, Maps
<1> QED
  BY <1>1, <1>3, <1>6, <1>7, <1>8, <1>9, SessionStep

\* The drain closes an owner, the owner ends on its own, or its cleanup is over.
LEMMA OwnerStep ==
  ASSUME IndInv, NEW s \in Sessions, DrainStep(s) \/ OwnerEnds(s) \/ OwnerCloses(s)
  PROVE  IndInv'
<1> TypeOK
  BY DEF IndInv
<1>1. Calm /\ UNCHANGED <<place, stale, tx, opener, cleaner, req, phase, dropped>>
  BY CalmStill DEF DrainStep, OwnerEnds, OwnerCloses, store, workers
<1>2. SessionOK(s)
  BY DEF IndInv, SessionInv
<1>3. /\ owner' \in [Sessions -> {"none", "open", "ending", "closed"}]
      /\ drainer' \in [Sessions -> {"none", "owner", "wait"}]
      /\ \A q \in Sessions : q # s => owner'[q] = owner[q] /\ drainer'[q] = drainer[q]
      /\ \/ owner'[s] = owner[s]
         \/ owner[s] = "open" /\ owner'[s] = "ending"
         \/ owner[s] = "ending" /\ owner'[s] = "closed"
      /\ \/ drainer'[s] = drainer[s]
         \/ drainer[s] # "none" /\ owner'[s] # "open"
  <2>1. CASE drainer[s] = "owner" /\ DrainStep(s)
    <3>1. owner' = Ends(s) /\ drainer' = [drainer EXCEPT ![s] = IF s \in tx THEN "wait" ELSE "none"]
      BY <2>1 DEF DrainStep
    <3>2. /\ drainer' \in [Sessions -> {"none", "owner", "wait"}]
          /\ \A q \in Sessions : q # s => drainer'[q] = drainer[q]
      BY <3>1 DEF TypeOK
    <3> QED
      BY <2>1, <3>1, <3>2, EndsFacts
  <2>2. CASE drainer[s] # "owner" /\ DrainStep(s)
    BY <2>2 DEF DrainStep, TypeOK
  <2>3. CASE OwnerEnds(s)
    BY <2>3, EndsFacts DEF OwnerEnds, TypeOK, workers
  <2>4. CASE OwnerCloses(s)
    BY <2>4 DEF OwnerCloses, TypeOK, workers
  <2> QED
    BY <2>1, <2>2, <2>3, <2>4
<1>4. TypeOK'
  BY <1>1, <1>3 DEF TypeOK
<1>5. SessionOK(s)'
  <2>1. Fits(s)' /\ OpenerFits(s)' /\ CleanerFits(s)' /\ OwnerKept(s)'
    BY <1>1, <1>2, <1>3 DEF SessionOK, Fits, OpenerFits, CleanerFits, OwnerKept
  <2>2. SlotKept(s)'
    BY <1>1, <1>2, CalmClaims DEF SessionOK, SlotKept
  <2> QED
    BY <2>1, <2>2 DEF SessionOK
<1>6. \A q \in Sessions : q # s => Quiet(q)
  BY <1>1, <1>3 DEF Quiet, Still
<1> QED
  BY <1>1, <1>4, <1>5, <1>6, SessionStep

\* A session becomes stale: nothing else changes.
LEMMA AgeStep == ASSUME IndInv, NEW s \in Sessions, Age(s) PROVE IndInv'
<1> TypeOK
  BY DEF IndInv
<1>1. Calm /\ UNCHANGED <<place, tx, owner, opener, cleaner, drainer, req, phase, dropped>>
  BY CalmStill DEF Age, workers
<1>2. TypeOK'
  BY <1>1 DEF TypeOK, Age
<1>3. \A q \in Sessions : Quiet(q) /\ ClaimsStay(q)
  BY <1>1, CalmClaims DEF Quiet, Still, ClaimsStay
<1>4. SessionOK(s) => SessionOK(s)'
  BY <1>1, <1>3, QuietKept
<1> QED
  BY <1>1, <1>2, <1>3, <1>4, SessionStep

\* Nothing happens.
LEMMA StutterStep == ASSUME IndInv, UNCHANGED vars PROVE IndInv'
<1>1. UNCHANGED <<place, stale, tx, owner, opener, cleaner, drainer, req, phase, dropped>>
  BY DEF vars, store, workers
<1>2. TypeOK' /\ Bounded'
  BY <1>1 DEF IndInv, TypeOK, Bounded, Counted
<1>3. \A s \in Sessions : (SessionOK(s)' <=> SessionOK(s)) /\ \A r \in Requests : Claims(r, s)' <=> Claims(r, s)
  BY <1>1 DEF SessionOK, Fits, OpenerFits, CleanerFits, OwnerKept, SlotKept, Claims
<1>4. SessionInv' /\ CallInv'
  BY <1>1, <1>3 DEF IndInv, SessionInv, CallInv
<1> QED
  BY <1>2, <1>4 DEF IndInv

\* The drain takes every active session out of the store, and gives every session that
\* was active or closing a worker.
LEMMA ShutdownStep == ASSUME IndInv, Shutdown PROVE IndInv'
<1> TypeOK
  BY DEF IndInv
<1>1. /\ \A r \in Requests : req[r].pc = "idle"
      /\ phase = "serving" /\ phase' = "draining" /\ stale' = {}
      /\ UNCHANGED <<tx, owner, opener, cleaner, req, dropped>>
      /\ drainer' = [s \in Sessions |-> IF place[s] \in {"active", "closing"} THEN "owner" ELSE "none"]
      /\ place' = [s \in Sessions |-> IF place[s] = "active" THEN "gone" ELSE place[s]]
  BY DEF Shutdown
<1>2. TypeOK'
  BY <1>1 DEF TypeOK, Maps
<1>3. Bounded'
  BY <1>1, BoundedKept DEF IndInv, Maps
<1>4. ASSUME NEW s \in Sessions PROVE SessionOK(s)'
  <2>1. SessionOK(s)
    BY DEF IndInv, SessionInv
  <2>2. /\ place[s] \in {"active", "closing"} => drainer'[s] = "owner"
        /\ place[s] \notin {"active", "closing"} => drainer'[s] = "none"
        /\ place[s] = "active" => place'[s] = "gone"
        /\ place[s] # "active" => place'[s] = place[s]
    BY <1>1
  <2>3. \A r \in Requests : ~Claims(r, s)
    BY <1>1 DEF Claims
  <2>4. Fits(s)' /\ OpenerFits(s)' /\ CleanerFits(s)'
    BY <1>1, <2>1, <2>2 DEF SessionOK, Fits, OpenerFits, CleanerFits
  <2>5. OwnerKept(s)'
    BY <1>1, <2>1, <2>2 DEF SessionOK, OwnerKept, CleanerFits
  <2>6. SlotKept(s)'
    BY <1>1, <2>1, <2>2, <2>3 DEF SessionOK, SlotKept
  <2> QED
    BY <2>4, <2>5, <2>6 DEF SessionOK
<1>5. CallInv'
  BY <1>1 DEF CallInv, Claims
<1> QED
  BY <1>2, <1>3, <1>4, <1>5 DEF IndInv, SessionInv

-----------------------------------------------------------------------------
\* The inductive invariant holds of every behaviour.
THEOREM Invariance == Spec => []IndInv
<1>1. ASSUME IndInv, [Next]_vars PROVE IndInv'
  <2>1. ASSUME NEW r \in Requests, Call(r) PROVE IndInv'
    BY <1>1, <2>1, OpenRefusedStep, OpenPlainStep, OpenTxStep, ResolveStep, CloseCallStep DEF Call
  <2>2. ASSUME NEW r \in Requests, Continue(r) PROVE IndInv'
    BY <1>1, <2>2, SpawnOpenerStep, PromoteStep, RunStep, SpawnCleanerStep DEF Continue
  <2>3. ASSUME NEW s \in Sessions, WorkerStep(s) PROVE IndInv'
    BY <1>1, <2>3, OpenOwnerStep, OpenerGivesUp, OpenerFinishes, CleanOwnerStep, CleanStoreStep, OwnerStep
    DEF WorkerStep
  <2> QED
    BY <1>1, <2>1, <2>2, <2>3, CancelStep, AgeStep, OwnerStep, ShutdownStep, StutterStep DEF Next
<1> QED
  BY <1>1, InitIndInv, PTL DEF Spec

\* opening, active and closing sessions together never exceed MAX_SESSIONS, whatever
\* expires, fails to close and comes back while others are opened (session_count).
THEOREM CapHolds == Spec => []SessionsBounded
<1>1. IndInv => SessionsBounded
  BY DEF IndInv, SessionsBounded, Bounded, Counted
<1> QED
  BY <1>1, Invariance, PTL

\* Through cancellation, failed openings and the drain at shutdown, a live transaction
\* owner and a reserved slot are always with somebody who will see to them, but for the
\* slots of calls that were cancelled before they had spawned their worker.
THEOREM SessionsAreKept == Spec => []NothingForgotten
<1>1. IndInv => NothingForgotten
  <2> SUFFICES ASSUME IndInv, NEW s \in Sessions
               PROVE  /\ owner[s] = "open" =>
                           \/ phase = "serving" /\ place[s] \in {"active", "closing"}
                           \/ opener[s] # "none" \/ cleaner[s] # "none" \/ drainer[s] # "none"
                      /\ place[s] \in {"opening", "closing"} /\ s \notin dropped =>
                           \/ opener[s] # "none" \/ cleaner[s] # "none"
                           \/ \E r \in Requests : req[r].s = s /\ req[r].pc \in {"reserved", "toClose"}
    BY DEF NothingForgotten
  <2>1. OwnerKept(s) /\ SlotKept(s)
    BY DEF IndInv, SessionInv, SessionOK
  <2> QED
    BY <2>1 DEF OwnerKept, SlotKept, Claims
<1> QED
  BY <1>1, Invariance, PTL

\* A session in the active map has neither an opening nor a cleanup worker, and its
\* owner was handed over, however cancellation meets promote_opening.
THEOREM ActiveSessionsAreServed == Spec => []ActiveIsServed
<1>1. IndInv => ActiveIsServed
  BY DEF IndInv, SessionInv, SessionOK, Fits, ActiveIsServed
<1> QED
  BY <1>1, Invariance, PTL
=============================================================================
