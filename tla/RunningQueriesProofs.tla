------------------------ MODULE RunningQueriesProofs ------------------------
(***************************************************************************)
(* Proofs about the registry of running executions, for any sets of ids    *)
(* and clients and any number of registrations.                            *)
(***************************************************************************)
EXTENDS RunningQueries, TLAPS

Used(r) == phase[r] # "unused"

\* The registration numbers are handed out in order, and nothing has happened
\* to one that was not.
FreshIsFresh ==
  \A r \in Regs :
    /\ Used(r) <=> r <= count
    /\ id[r] \in Ids <=> Used(r)
    /\ ~Used(r) => /\ ~token[r] /\ ~completion[r] /\ slot[r] = NoReg /\ intr[r] = "none"
                   /\ previous[r] = NoReg /\ hand[r] = NoReg

\* The map holds, under its own id, the last registration of that id, whose
\* owner has not released it.
MapHoldsTheLast ==
  \A e \in Ids :
    inner[e] # NoReg => /\ Used(inner[e]) /\ id[inner[e]] = e
                        /\ ~Superseded(inner[e]) /\ ~Released(inner[e])

\* A task that left the map was cancelled, released or displaced, and a tracked
\* one released or displaced.
LeftForAReason ==
  \A r \in Regs :
    Used(r) /\ ~InMap(r) => \/ Released(r) \/ Superseded(r)
                            \/ token[r] /\ kind[r] \notin Tracked

\* A closure lies in a task of the map, of the id it was registered for ...
SlotsInTheMap ==
  \A t \in Regs :
    slot[t] # NoReg => InMap(t) /\ Used(t) /\ id[slot[t]] = id[t] /\ intr[slot[t]] = "stored"

\* ... and every stored closure lies in one.
StoredInASlot ==
  \A r \in Regs : intr[r] = "stored" => inner[id[r]] # NoReg /\ slot[inner[id[r]]] = r

\* A closure that a thread has taken out is not in a task any more.
HeldAreTaken ==
  /\ \A r \in Regs : hand[r] # NoReg => intr[hand[r]] \in {"taken", "run"}
  /\ \A c \in Clients : taken[c] # NoReg => intr[taken[c]] \in {"taken", "run"}

\* An owner displaces an earlier registration of its id.
DisplacedEarlier ==
  \A r \in Regs :
    /\ phase[r] \in {"displace", "complete", "interrupt"} => previous[r] # NoReg
    /\ previous[r] # NoReg => Superseded(previous[r]) /\ Used(previous[r])

\* Of an id that was used once, only the release of its owner drops a closure.
DroppedAtRelease ==
  \A r \in Regs : intr[r] = "dropped" /\ Alone(r) => Released(r)

\* Once an id that was used once is cancelled, its closure is run or about to be.
CancelledIsInterrupted ==
  \A r \in Regs :
    token[r] /\ kind[r] # "child" /\ intr[r] # "none" /\ Alone(r) => intr[r] \in {"taken", "run"}

\* A completion is sent for a task that was released or displaced, or that a
\* cancel took out of the map, which it does with untracked ones only.
CompletionHasCause ==
  /\ \A r \in Regs : completion[r] => Released(r) \/ Superseded(r) \/ kind[r] \notin Tracked
  /\ \A c \in Clients : gone[c] # NoReg => kind[gone[c]] \notin Tracked /\ Used(gone[c])

\* A remembered proof is about the last registration of the id.
ProofIsOfTheLast ==
  \A e \in Ids : completed[e] = "proven" =>
    \A r \in Regs : id[r] = e /\ ~Superseded(r) => db[r] = "ended"

\* A call that was entered with an id and subscribed belongs to that id.
Subscribed ==
  \A c \in Clients :
    /\ pc[c] = "cancel" => target[c] \in Ids
    /\ pc[c] = "loop" => op[c] = "cancel"
    /\ sub[c] # NoReg => /\ Used(sub[c]) /\ id[sub[c]] = target[c]
                         /\ pc[c] # "idle" /\ op[c] # "cancel"

\* What cancel_matching has matched and worked off.
MatchedAreCancelled ==
  \A c \in Clients : \A r \in matched[c] :
    /\ Used(r)
    /\ id[r] \notin todo[c] => token[r] \/ Released(r) \/ Superseded(r)

\* terminal comes from the completion that was subscribed to; in the answer it
\* means that a tracked execution was released.
TerminalIsTrue ==
  \A c \in Clients :
    ans[c].terminal =>
      /\ pc[c] \in {"read", "answered"}
      /\ pc[c] = "read" /\ sub[c] # NoReg => completion[sub[c]]
      /\ pc[c] = "answered" /\ sub[c] # NoReg /\ kind[sub[c]] \in Tracked /\ ~Superseded(sub[c])
           => Released(sub[c])

\* The parts about registrations, closures and clients.
RegInv    == FreshIsFresh /\ MapHoldsTheLast /\ LeftForAReason /\ DisplacedEarlier /\ ProofIsOfTheLast
SlotInv   == SlotsInTheMap /\ StoredInASlot /\ HeldAreTaken /\ DroppedAtRelease /\ CancelledIsInterrupted
ClientInv == CompletionHasCause /\ Subscribed /\ MatchedAreCancelled /\ TerminalIsTrue /\ ProvenMeansEnded

IndInv == TypeOK /\ RegInv /\ SlotInv /\ ClientInv

-----------------------------------------------------------------------------
(* What every step but a registration has in common                        *)

\* Registrations keep their identity, what has happened to them stays so, and
\* nothing happens to one that was not made.
Kept ==
  /\ UNCHANGED <<count, id, kind>>
  /\ \A r \in Regs :
       /\ Used(r)' <=> Used(r)
       /\ token[r] => token'[r]
       /\ completion[r] => completion'[r]
       /\ Released(r) => Released(r)'
       /\ db[r] = "ended" => db'[r] = "ended"
       /\ ~Used(r) => /\ token'[r] = token[r] /\ completion'[r] = completion[r] /\ slot'[r] = slot[r]
                      /\ intr'[r] = intr[r] /\ previous'[r] = previous[r] /\ hand'[r] = hand[r]

\* A task leaves the map when its owner releases it or, untracked, when it is
\* cancelled; a displacement goes on to its end; a proof is about the task in
\* the map.
MapShrinks ==
  /\ \A e \in Ids :
       inner'[e] # inner[e] =>
         /\ inner'[e] = NoReg
         /\ \/ phase'[inner[e]] \in {"notify", "done"}
            \/ token'[inner[e]] /\ kind[inner[e]] \notin Tracked
  /\ \A r \in Regs :
       /\ Released(r)' /\ ~Released(r) => ~InMap(r)'
       /\ previous'[r] \in {previous[r], NoReg}
       /\ phase'[r] \in {"displace", "complete", "interrupt"} =>
            phase[r] \in {"displace", "complete", "interrupt"} /\ previous'[r] = previous[r]
  /\ \A e \in Ids :
       completed'[e] = "proven" =>
         completed[e] = "proven" \/ (inner[e] # NoReg /\ db[inner[e]] = "ended")

\* Closures only leave their tasks: they are taken out by the one who is going
\* to run them, or dropped when the owner of the task releases it.
ClosuresLeave ==
  /\ \A t \in Regs :
       /\ slot'[t] \in {slot[t], NoReg}
       /\ slot'[t] # NoReg => InMap(t)' /\ intr'[slot[t]] = "stored"
       /\ slot[t] # NoReg /\ slot'[t] = NoReg => intr'[slot[t]] # "stored"
       /\ hand'[t] \in {hand[t], NoReg}
  /\ \A g \in Regs :
       /\ intr'[g] = "stored" => intr[g] = "stored"
       /\ intr[g] \in {"taken", "run"} => intr'[g] \in {"taken", "run"}
       /\ intr'[g] = "none" <=> intr[g] = "none"
       /\ intr'[g] = "dropped" => intr[g] = "dropped" \/ \E t \in Regs : slot[t] = g /\ Released(t)'
  /\ \A c \in Clients :
       taken'[c] # NoReg => taken'[c] = taken[c] \/ intr'[taken'[c]] = "taken"

\* A token is cancelled for a cause: the parent's, a later registration, or a
\* cancel by id, which empties the slot.
TokensHaveCause ==
  \A r \in Regs :
    token'[r] /\ ~token[r] =>
      kind[r] = "child" \/ ~Alone(r) \/ (InMap(r) /\ ~Released(r)' /\ slot'[r] = NoReg)

\* So is a completion sent.
CompletionsHaveCause ==
  /\ \A r \in Regs :
       completion'[r] /\ ~completion[r] => Released(r)' \/ Superseded(r) \/ kind[r] \notin Tracked
  /\ \A c \in Clients :
       gone'[c] # NoReg => gone'[c] = gone[c] \/ (kind[gone'[c]] \notin Tracked /\ Used(gone'[c]))

Ordinary == Kept /\ MapShrinks /\ ClosuresLeave /\ TokensHaveCause /\ CompletionsHaveCause

\* Facts about registration numbers.
LEMMA RegFacts ==
  /\ NoReg \notin Regs
  /\ \A r \in Regs : r \in Nat
  /\ \A n \in 0 .. MaxReg : n < MaxReg => n + 1 \in Regs
  BY MaxRegAssumption DEF Regs, NoReg

\* Of two registrations of one id, one is superseded.
LEMMA LastIsUnique ==
  ASSUME NEW q \in Regs, NEW r \in Regs, id[q] = id[r], ~Superseded(q), ~Superseded(r)
  PROVE  q = r
  BY RegFacts DEF Superseded

\* When no registration is made, none is superseded or loses its id to another.
LEMMA SameIds ==
  ASSUME Kept
  PROVE  \A r \in Regs : (Superseded(r)' <=> Superseded(r)) /\ (Alone(r)' <=> Alone(r))
  BY DEF Kept, Superseded, Alone

\* An ordinary step preserves what is said of the registrations.
LEMMA OrdinaryRegInv ==
  ASSUME IndInv, TypeOK', Ordinary
  PROVE  RegInv'
<1> USE SameIds DEF IndInv, RegInv, Ordinary
<1>1. FreshIsFresh'
  BY DEF FreshIsFresh, Kept, Used
<1>2. MapHoldsTheLast'
  <2> SUFFICES ASSUME NEW e \in Ids, inner'[e] # NoReg
               PROVE  /\ Used(inner[e])' /\ id'[inner'[e]] = e
                      /\ ~Superseded(inner[e])' /\ ~Released(inner[e])'
    BY DEF MapHoldsTheLast
  <2>1. inner'[e] = inner[e] /\ inner[e] \in Regs
    BY DEF MapShrinks, TypeOK
  <2>2. InMap(inner[e])'
    BY <2>1 DEF MapHoldsTheLast, InMap, Kept
  <2> QED
    BY <2>1, <2>2 DEF MapHoldsTheLast, Kept, MapShrinks, Used, Released, Superseded
<1>3. LeftForAReason'
  <2> SUFFICES ASSUME NEW r \in Regs, Used(r)', ~InMap(r)'
               PROVE  Released(r)' \/ Superseded(r)' \/ (token'[r] /\ kind'[r] \notin Tracked)
    BY DEF LeftForAReason
  <2>1. CASE ~InMap(r)
    BY <2>1 DEF LeftForAReason, Kept
  <2>2. CASE InMap(r)
    <3>1. id[r] \in Ids /\ inner[id[r]] = r /\ inner'[id[r]] # r
      BY <2>2 DEF InMap, Kept
    <3> QED
      BY <3>1 DEF MapShrinks, Kept, Released
  <2> QED
    BY <2>1, <2>2
<1>4. DisplacedEarlier'
  BY RegFacts DEF DisplacedEarlier, MapShrinks, Kept, TypeOK
<1>5. ProofIsOfTheLast'
  <2> SUFFICES ASSUME NEW e \in Ids, completed'[e] = "proven",
                      NEW r \in Regs, id[r] = e, ~Superseded(r)
               PROVE  db'[r] = "ended"
    BY DEF ProofIsOfTheLast, Kept
  <2>1. CASE completed[e] = "proven"
    BY <2>1 DEF ProofIsOfTheLast, Kept
  <2>2. CASE inner[e] # NoReg /\ db[inner[e]] = "ended"
    BY <2>2, LastIsUnique DEF MapHoldsTheLast, Kept, TypeOK
  <2> QED
    BY <2>1, <2>2 DEF MapShrinks
<1> QED
  BY <1>1, <1>2, <1>3, <1>4, <1>5

\* An ordinary step preserves what is said of the closures.
LEMMA OrdinarySlotInv ==
  ASSUME IndInv, TypeOK', Ordinary, RegInv'
  PROVE  SlotInv'
<1> USE SameIds, RegFacts DEF IndInv, SlotInv, Ordinary
<1>1. SlotsInTheMap'
  BY DEF SlotsInTheMap, ClosuresLeave, Kept, TypeOK
<1>2. StoredInASlot'
  <2> SUFFICES ASSUME NEW r \in Regs, intr'[r] = "stored"
               PROVE  inner'[id[r]] # NoReg /\ slot'[inner'[id[r]]] = r
    BY DEF StoredInASlot, Kept
  <2> DEFINE t == inner[id[r]]
  <2>1. intr[r] = "stored" /\ t # NoReg /\ slot[t] = r
    BY DEF StoredInASlot, ClosuresLeave
  <2>2. id[r] \in Ids /\ t \in Regs /\ id[t] = id[r]
    BY <2>1 DEF RegInv, FreshIsFresh, MapHoldsTheLast, TypeOK
  <2>3. slot'[t] = r
    BY <2>1, <2>2 DEF ClosuresLeave
  <2> QED
    BY <2>2, <2>3 DEF ClosuresLeave, InMap, Kept
<1>3. HeldAreTaken'
  BY DEF HeldAreTaken, ClosuresLeave, TypeOK
<1>4. DroppedAtRelease'
  <2> SUFFICES ASSUME NEW r \in Regs, intr'[r] = "dropped", Alone(r)
               PROVE  Released(r)'
    BY DEF DroppedAtRelease
  <2>1. CASE intr[r] = "dropped"
    BY <2>1 DEF DroppedAtRelease, Kept
  <2>2. ASSUME NEW t \in Regs, slot[t] = r, Released(t)'
        PROVE  Released(r)'
    BY <2>2 DEF SlotsInTheMap, Alone
  <2> QED
    BY <2>1, <2>2 DEF ClosuresLeave
<1>5. CancelledIsInterrupted'
  <2> SUFFICES ASSUME NEW r \in Regs, token'[r], kind[r] # "child", intr'[r] # "none", Alone(r)
               PROVE  intr'[r] \in {"taken", "run"}
    BY DEF CancelledIsInterrupted, Kept
  <2>1. CASE token[r]
    BY <2>1 DEF CancelledIsInterrupted, ClosuresLeave
  <2>2. CASE ~token[r]
    <3>1. InMap(r) /\ ~Released(r)' /\ slot'[r] = NoReg
      BY <2>2 DEF TokensHaveCause
    <3>2. intr'[r] # "dropped"
      BY <1>4, <3>1 DEF DroppedAtRelease
    <3>3. intr'[r] # "stored"
      <4> SUFFICES ASSUME intr'[r] = "stored" PROVE FALSE
        OBVIOUS
      <4>1. inner'[id[r]] # NoReg /\ slot'[inner'[id[r]]] = r
        BY <1>2 DEF StoredInASlot, Kept
      <4>2. inner'[id[r]] = r
        BY <3>1, <4>1 DEF InMap, MapShrinks
      <4> QED
        BY <3>1, <4>1, <4>2
    <3> QED
      BY <3>2, <3>3 DEF TypeOK
  <2> QED
    BY <2>1, <2>2
<1> QED
  BY <1>1, <1>2, <1>3, <1>4, <1>5

\* It sends completions for their causes only.
LEMMA OrdinaryCompletions ==
  ASSUME IndInv, TypeOK', Ordinary
  PROVE  CompletionHasCause'
<1> USE SameIds, RegFacts DEF IndInv, ClientInv, Ordinary
<1>1. ASSUME NEW r \in Regs, completion'[r]
      PROVE  Released(r)' \/ Superseded(r)' \/ kind'[r] \notin Tracked
  <2>1. CASE completion[r]
    BY <2>1 DEF CompletionHasCause, Kept
  <2>2. CASE ~completion[r]
    BY <1>1, <2>2 DEF CompletionsHaveCause, Kept
  <2> QED
    BY <2>1, <2>2
<1>2. ASSUME NEW c \in Clients, gone'[c] # NoReg
      PROVE  kind'[gone'[c]] \notin Tracked /\ Used(gone[c])'
  <2>1. gone'[c] \in Regs /\ kind[gone'[c]] \notin Tracked /\ Used(gone'[c])
    BY <1>2 DEF CompletionHasCause, CompletionsHaveCause, TypeOK
  <2> QED
    BY <2>1 DEF Kept, Used
<1> QED
  BY <1>1, <1>2 DEF CompletionHasCause

\* It leaves the answers true that are given, as long as it gives none.
LEMMA AnswersKept ==
  ASSUME IndInv, Kept, UNCHANGED sub,
         \A c \in Clients : \/ pc'[c] = pc[c] /\ ans'[c] = ans[c]
                            \/ pc'[c] # "answered" /\ ~ans'[c].terminal
  PROVE  TerminalIsTrue' /\ ProvenMeansEnded'
<1> USE SameIds, RegFacts DEF IndInv, ClientInv
<1>1. TerminalIsTrue'
  <2> SUFFICES ASSUME NEW c \in Clients, ans'[c].terminal
               PROVE  /\ pc'[c] \in {"read", "answered"}
                      /\ pc'[c] = "read" /\ sub[c] # NoReg => completion'[sub[c]]
                      /\ pc'[c] = "answered" /\ sub[c] # NoReg /\ kind'[sub[c]] \in Tracked
                         /\ ~(\E q \in Regs : q > sub[c] /\ id'[q] = id'[sub[c]])
                           => phase'[sub[c]] \in {"notify", "done"}
    BY DEF TerminalIsTrue, Superseded, Released
  <2>1. pc'[c] = pc[c] /\ ans'[c] = ans[c]
    OBVIOUS
  <2>2. sub[c] # NoReg => sub[c] \in Regs
    BY DEF TypeOK
  <2> QED
    BY <2>1, <2>2 DEF TerminalIsTrue, Kept, Superseded, Released
<1>2. ProvenMeansEnded'
  <2> SUFFICES ASSUME NEW c \in Clients, pc'[c] = "answered", ans'[c].proven, sub[c] # NoReg,
                      ~(\E q \in Regs : q > sub[c] /\ id'[q] = id'[sub[c]])
               PROVE  db'[sub[c]] = "ended"
    BY DEF ProvenMeansEnded, Superseded
  <2>1. pc'[c] = pc[c] /\ ans'[c] = ans[c] /\ sub[c] \in Regs
    BY DEF TypeOK
  <2> QED
    BY <2>1 DEF ProvenMeansEnded, Kept, Superseded
<1> QED
  BY <1>1, <1>2

\* An ordinary step of an owner preserves what is said of the clients.
LEMMA OrdinaryClientInv ==
  ASSUME IndInv, TypeOK', Ordinary, UNCHANGED clientVars
  PROVE  ClientInv'
<1> USE SameIds, RegFacts DEF IndInv, ClientInv, Ordinary, clientVars
<1>1. CompletionHasCause'
  BY OrdinaryCompletions
<1>2. Subscribed'
  BY DEF Subscribed, Kept, TypeOK
<1>3. MatchedAreCancelled'
  BY DEF MatchedAreCancelled, Kept, TypeOK
<1>4. TerminalIsTrue' /\ ProvenMeansEnded'
  BY AnswersKept
<1> QED
  BY <1>1, <1>2, <1>3, <1>4

-----------------------------------------------------------------------------
(* The owners' steps                                                       *)

\* The displaced task is cancelled; a later registration has superseded it.
LEMMA DisplaceCancelIndInv ==
  ASSUME IndInv, NEW r \in Regs, DisplaceCancel(r)
  PROVE  IndInv'
<1> USE RegFacts DEF IndInv, RegInv, SlotInv, ClientInv, DisplaceCancel, regVars, taskVars, ownerVars
<1>1. TypeOK'
  BY DEF TypeOK, clientVars, Ran
<1>2. Kept
  <2>1. Used(r) /\ previous[r] \in Regs /\ Used(previous[r])
    BY DEF Used, TypeOK, DisplacedEarlier
  <2>2. \A q \in Regs : phase'[q] = IF q = r THEN phase'[r] ELSE phase[q]
    BY DEF TypeOK
  <2>3. \A q \in Regs : ~Used(q) => token'[q] = token[q] /\ completion'[q] = completion[q]
    BY <2>1 DEF TypeOK
  <2>4. \A q \in Regs : (token[q] => token'[q]) /\ (completion[q] => completion'[q])
    BY <2>1 DEF TypeOK
  <2>5. \A q \in Regs : (Used(q)' <=> Used(q)) /\ (Released(q) => Released(q)')
    BY <2>1, <2>2 DEF Used, Released, TypeOK
  <2> QED
    BY <2>3, <2>4, <2>5 DEF Kept
<1>3. MapShrinks
  BY DEF MapShrinks, TypeOK, InMap, Released
<1>4. ClosuresLeave
  BY DEF ClosuresLeave, TypeOK, clientVars, InMap, Ran, SlotsInTheMap, HeldAreTaken
<1>5. TokensHaveCause
  BY DEF TokensHaveCause, TypeOK, Superseded, Alone, DisplacedEarlier
<1>6. CompletionsHaveCause
  BY DEF CompletionsHaveCause, TypeOK, clientVars, Released, DisplacedEarlier
<1> QED
  BY <1>1, <1>2, <1>3, <1>4, <1>5, <1>6, OrdinaryRegInv, OrdinarySlotInv, OrdinaryClientInv DEF Ordinary

\* The watchers of the displaced task are told.
LEMMA DisplaceCompleteIndInv ==
  ASSUME IndInv, NEW r \in Regs, DisplaceComplete(r)
  PROVE  IndInv'
<1> USE RegFacts DEF IndInv, RegInv, SlotInv, ClientInv, DisplaceComplete, regVars, taskVars, ownerVars
<1>1. TypeOK'
  BY DEF TypeOK, clientVars, Ran
<1>2. Kept
  <2>1. Used(r) /\ previous[r] \in Regs /\ Used(previous[r])
    BY DEF Used, TypeOK, DisplacedEarlier
  <2>2. \A q \in Regs : phase'[q] = IF q = r THEN phase'[r] ELSE phase[q]
    BY DEF TypeOK
  <2>3. \A q \in Regs : ~Used(q) => token'[q] = token[q] /\ completion'[q] = completion[q]
    BY <2>1 DEF TypeOK
  <2>4. \A q \in Regs : (token[q] => token'[q]) /\ (completion[q] => completion'[q])
    BY <2>1 DEF TypeOK
  <2>5. \A q \in Regs : (Used(q)' <=> Used(q)) /\ (Released(q) => Released(q)')
    BY <2>1, <2>2 DEF Used, Released, TypeOK
  <2> QED
    BY <2>3, <2>4, <2>5 DEF Kept
<1>3. MapShrinks
  BY DEF MapShrinks, TypeOK, InMap, Released
<1>4. ClosuresLeave
  BY DEF ClosuresLeave, TypeOK, clientVars, InMap, Ran, SlotsInTheMap, HeldAreTaken
<1>5. TokensHaveCause
  BY DEF TokensHaveCause, TypeOK, Superseded, Alone, DisplacedEarlier
<1>6. CompletionsHaveCause
  BY DEF CompletionsHaveCause, TypeOK, clientVars, Released, DisplacedEarlier
<1> QED
  BY <1>1, <1>2, <1>3, <1>4, <1>5, <1>6, OrdinaryRegInv, OrdinarySlotInv, OrdinaryClientInv DEF Ordinary

\* The closure taken out of the displaced task runs.
LEMMA DisplaceInterruptIndInv ==
  ASSUME IndInv, NEW r \in Regs, DisplaceInterrupt(r)
  PROVE  IndInv'
<1> USE RegFacts DEF IndInv, RegInv, SlotInv, ClientInv, DisplaceInterrupt, regVars, taskVars, ownerVars
<1>1. TypeOK'
  BY DEF TypeOK, clientVars, Ran
<1>2. Kept
  BY DEF Kept, TypeOK, Used, Released, FreshIsFresh, DisplacedEarlier, Ran, HeldAreTaken
<1>3. MapShrinks
  BY DEF MapShrinks, TypeOK, InMap, Released
<1>4. ClosuresLeave
  BY DEF ClosuresLeave, TypeOK, clientVars, InMap, Ran, SlotsInTheMap, HeldAreTaken
<1>5. TokensHaveCause
  BY DEF TokensHaveCause, TypeOK, Superseded, Alone, DisplacedEarlier
<1>6. CompletionsHaveCause
  BY DEF CompletionsHaveCause, TypeOK, clientVars, Released, DisplacedEarlier
<1> QED
  BY <1>1, <1>2, <1>3, <1>4, <1>5, <1>6, OrdinaryRegInv, OrdinarySlotInv, OrdinaryClientInv DEF Ordinary

\* A statement that has ended stays ended.
LEMMA EndStatementIndInv ==
  ASSUME IndInv, NEW r \in Regs, EndStatement(r)
  PROVE  IndInv'
<1> USE RegFacts DEF IndInv, RegInv, SlotInv, ClientInv, EndStatement, regVars, taskVars, ownerVars
<1>1. TypeOK'
  BY DEF TypeOK, clientVars, Ran
<1>2. Kept
  BY DEF Kept, TypeOK, Used, Released, FreshIsFresh, DisplacedEarlier, Ran, HeldAreTaken
<1>3. MapShrinks
  BY DEF MapShrinks, TypeOK, InMap, Released
<1>4. ClosuresLeave
  BY DEF ClosuresLeave, TypeOK, clientVars, InMap, Ran, SlotsInTheMap, HeldAreTaken
<1>5. TokensHaveCause
  BY DEF TokensHaveCause, TypeOK, Superseded, Alone, DisplacedEarlier
<1>6. CompletionsHaveCause
  BY DEF CompletionsHaveCause, TypeOK, clientVars, Released, DisplacedEarlier
<1> QED
  BY <1>1, <1>2, <1>3, <1>4, <1>5, <1>6, OrdinaryRegInv, OrdinarySlotInv, OrdinaryClientInv DEF Ordinary

\* A detached registration keeps its entry.
LEMMA DetachIndInv ==
  ASSUME IndInv, NEW r \in Regs, Detach(r)
  PROVE  IndInv'
<1> USE RegFacts DEF IndInv, RegInv, SlotInv, ClientInv, Detach, regVars, taskVars, ownerVars
<1>1. TypeOK'
  BY DEF TypeOK, clientVars, Ran
<1>2. Kept
  BY DEF Kept, TypeOK, Used, Released, FreshIsFresh, DisplacedEarlier, Ran, HeldAreTaken
<1>3. MapShrinks
  BY DEF MapShrinks, TypeOK, InMap, Released
<1>4. ClosuresLeave
  BY DEF ClosuresLeave, TypeOK, clientVars, InMap, Ran, SlotsInTheMap, HeldAreTaken
<1>5. TokensHaveCause
  BY DEF TokensHaveCause, TypeOK, Superseded, Alone, DisplacedEarlier
<1>6. CompletionsHaveCause
  BY DEF CompletionsHaveCause, TypeOK, clientVars, Released, DisplacedEarlier
<1> QED
  BY <1>1, <1>2, <1>3, <1>4, <1>5, <1>6, OrdinaryRegInv, OrdinarySlotInv, OrdinaryClientInv DEF Ordinary

\* The watchers of a removed task are told; its owner has released it.
LEMMA RemoveNotifyIndInv ==
  ASSUME IndInv, NEW r \in Regs, RemoveNotify(r)
  PROVE  IndInv'
<1>2. Kept
  <2>1. /\ phase[r] = "notify" /\ completion' = [completion EXCEPT ![r] = TRUE] /\ phase' = [phase EXCEPT ![r] = "done"]
        /\ UNCHANGED <<count, id, kind, token, slot, intr, previous, hand, db>>
    BY DEF RemoveNotify, regVars
  <2>2. /\ phase'[r] = "done" /\ completion'[r]
        /\ \A q \in Regs : q # r => phase'[q] = phase[q] /\ completion'[q] = completion[q]
    BY <2>1 DEF IndInv, TypeOK
  <2> QED
    BY <2>1, <2>2 DEF Kept, Used, Released
<1> USE RegFacts DEF IndInv, RegInv, SlotInv, ClientInv, RemoveNotify, regVars, taskVars, ownerVars
<1>1. TypeOK'
  BY DEF TypeOK, clientVars, Ran
<1>3. MapShrinks
  BY DEF MapShrinks, TypeOK, InMap, Released
<1>4. ClosuresLeave
  BY DEF ClosuresLeave, TypeOK, clientVars, InMap, Ran, SlotsInTheMap, HeldAreTaken
<1>5. TokensHaveCause
  BY DEF TokensHaveCause, TypeOK, Superseded, Alone, DisplacedEarlier
<1>6. CompletionsHaveCause
  BY DEF CompletionsHaveCause, TypeOK, clientVars, Released, DisplacedEarlier
<1> QED
  BY <1>1, <1>2, <1>3, <1>4, <1>5, <1>6, OrdinaryRegInv, OrdinarySlotInv, OrdinaryClientInv DEF Ordinary

\* A parent token cancels a child without the registry.
LEMMA ParentCancelIndInv ==
  ASSUME IndInv, NEW r \in Regs, ParentCancel(r)
  PROVE  IndInv'
<1>2. Kept
  <2>1. /\ phase[r] # "unused" /\ token' = [token EXCEPT ![r] = TRUE]
        /\ UNCHANGED <<count, id, kind, completion, slot, intr, phase, previous, hand, db>>
    BY DEF ParentCancel, regVars, ownerVars
  <2>2. token'[r] /\ \A q \in Regs : q # r => token'[q] = token[q]
    BY <2>1 DEF IndInv, TypeOK
  <2> QED
    BY <2>1, <2>2 DEF Kept, Used, Released
<1> USE RegFacts DEF IndInv, RegInv, SlotInv, ClientInv, ParentCancel, regVars, taskVars, ownerVars
<1>1. TypeOK'
  BY DEF TypeOK, clientVars, Ran
<1>3. MapShrinks
  BY DEF MapShrinks, TypeOK, InMap, Released
<1>4. ClosuresLeave
  BY DEF ClosuresLeave, TypeOK, clientVars, InMap, Ran, SlotsInTheMap, HeldAreTaken
<1>5. TokensHaveCause
  BY DEF TokensHaveCause, TypeOK, Superseded, Alone, DisplacedEarlier
<1>6. CompletionsHaveCause
  BY DEF CompletionsHaveCause, TypeOK, clientVars, Released, DisplacedEarlier
<1> QED
  BY <1>1, <1>2, <1>3, <1>4, <1>5, <1>6, OrdinaryRegInv, OrdinarySlotInv, OrdinaryClientInv DEF Ordinary

\* remove, however the owner comes to call it, preserves the invariant, as long
\* as what it remembers as proven is.
LEMMA RemoveIndInv ==
  ASSUME IndInv, NEW r \in Regs, NEW proven \in BOOLEAN,
         phase[r] \in {"running", "detached"}, proven => db[r] = "ended",
         Remove(r, proven),
         UNCHANGED <<count, id, kind, token, completion, previous, hand, db>>, UNCHANGED clientVars
  PROVE  IndInv'
<1> DEFINE e == id[r]
           g == slot[r]
<1> USE RegFacts DEF IndInv, RegInv, SlotInv, ClientInv
<1>1. CASE inner[e] # r
  <2> USE <1>1 DEF Remove
  <2>1. phase' = [phase EXCEPT ![r] = "done"] /\ UNCHANGED <<inner, completed, slot, intr>>
    OBVIOUS
  <2>2. TypeOK'
    BY <2>1 DEF TypeOK, clientVars
  <2>3. Kept
    BY <2>1 DEF Kept, TypeOK, Used, Released
  <2>4. MapShrinks
    BY <2>1 DEF MapShrinks, TypeOK, InMap, Released
  <2>5. ClosuresLeave
    BY <2>1 DEF ClosuresLeave, TypeOK, clientVars, InMap, SlotsInTheMap, HeldAreTaken
  <2>6. TokensHaveCause /\ CompletionsHaveCause
    BY <2>1 DEF TokensHaveCause, CompletionsHaveCause, clientVars
  <2> QED
    BY <2>2, <2>3, <2>4, <2>5, <2>6, OrdinaryRegInv, OrdinarySlotInv, OrdinaryClientInv DEF Ordinary
<1>2. CASE inner[e] = r
  <2>0. Used(r) /\ e \in Ids
    BY DEF Used, FreshIsFresh
  <2>1. /\ phase' = [phase EXCEPT ![r] = "notify"]
        /\ inner' = [inner EXCEPT ![e] = NoReg]
        /\ slot' = [slot EXCEPT ![r] = NoReg]
        /\ intr' = IF g = NoReg THEN intr ELSE [intr EXCEPT ![g] = "dropped"]
        /\ completed' = IF kind[r] \in Tracked
                          THEN [completed EXCEPT ![e] = IF proven THEN "proven" ELSE "unproven"]
                          ELSE completed
    BY <1>2 DEF Remove
  <2>2. TypeOK'
    BY <2>1 DEF TypeOK, clientVars
  <2>3. Kept
    BY <2>0, <2>1 DEF Kept, TypeOK, Used, Released, FreshIsFresh, SlotsInTheMap
  <2>4. MapShrinks
    BY <1>2, <2>0, <2>1 DEF MapShrinks, TypeOK, InMap, Released
  <2>5. ClosuresLeave
    BY <1>2, <2>0, <2>1 DEF ClosuresLeave, TypeOK, clientVars, InMap, SlotsInTheMap, Released
  <2>6. TokensHaveCause /\ CompletionsHaveCause
    BY DEF TokensHaveCause, CompletionsHaveCause, clientVars
  <2> QED
    BY <2>2, <2>3, <2>4, <2>5, <2>6, OrdinaryRegInv, OrdinarySlotInv, OrdinaryClientInv DEF Ordinary
<1> QED
  BY <1>1, <1>2

\* So do the three ways an owner lets go, and the end of a grace period.
LEMMA ReleaseIndInv ==
  ASSUME IndInv, NEW r \in Regs, FinishWithDatabaseResult(r) \/ DropGuard(r) \/ Reclaim(r)
  PROVE  IndInv'
  BY RemoveIndInv DEF FinishWithDatabaseResult, DropGuard, Reclaim

\* Forgetting a completed entry forgets a proof, and makes none.
LEMMA ExpireCompletedIndInv ==
  ASSUME IndInv, NEW e \in Ids, ExpireCompleted(e)
  PROVE  IndInv'
<1> USE RegFacts DEF IndInv, RegInv, SlotInv, ClientInv, ExpireCompleted, taskVars, ownerVars
<1>1. TypeOK'
  BY DEF TypeOK, clientVars
<1>2. Kept
  BY DEF Kept, Used, Released
<1>3. MapShrinks
  BY DEF MapShrinks, TypeOK, InMap, Released
<1>4. ClosuresLeave
  BY DEF ClosuresLeave, TypeOK, clientVars, InMap, SlotsInTheMap
<1>5. TokensHaveCause /\ CompletionsHaveCause
  BY DEF TokensHaveCause, CompletionsHaveCause, clientVars
<1> QED
  BY <1>1, <1>2, <1>3, <1>4, <1>5, OrdinaryRegInv, OrdinarySlotInv, OrdinaryClientInv DEF Ordinary

\* register_interrupt stores its closure in the task that holds the id, or runs it.
LEMMA RegisterInterruptIndInv ==
  ASSUME IndInv, NEW r \in Regs, RegisterInterrupt(r)
  PROVE  IndInv'
<1> DEFINE t == inner[id[r]]
           stored == t # NoReg /\ ~token[t]
<1>a. intr \in [Regs -> {"none", "stored", "taken", "run", "dropped"}]
  BY DEF IndInv, TypeOK
<1>b. [intr EXCEPT ![r] = "run"] \in [Regs -> {"none", "stored", "taken", "run", "dropped"}]
  BY <1>a
<1> USE RegFacts DEF IndInv, RegInv, SlotInv, ClientInv
<1>0. /\ Used(r) /\ id[r] \in Ids /\ intr[r] = "none" /\ phase[r] = "running"
      /\ t # NoReg => t \in Regs /\ id[t] = id[r] /\ InMap(t) /\ Used(t)
  BY DEF RegisterInterrupt, Used, FreshIsFresh, MapHoldsTheLast, InMap, TypeOK
<1>1. UNCHANGED <<token, completion>> /\ UNCHANGED <<regVars, ownerVars, clientVars>>
  BY DEF RegisterInterrupt
<1>2. IF stored
        THEN /\ slot' = [slot EXCEPT ![t] = r]
             /\ intr' = [q \in Regs |-> CASE q = r -> "stored"
                                         [] q = slot[t] /\ q # r -> "dropped"
                                         [] OTHER -> intr[q]]
        ELSE slot' = slot /\ intr' = [intr EXCEPT ![r] = "run"]
  BY DEF RegisterInterrupt
<1>3. TypeOK'
  <2>1. intr' \in [Regs -> {"none", "stored", "taken", "run", "dropped"}]
    <3>1. CASE stored
      <4>1. \A q \in Regs : (CASE q = r -> "stored" [] q = slot[t] /\ q # r -> "dropped" [] OTHER -> intr[q])
                               \in {"none", "stored", "taken", "run", "dropped"}
        BY DEF TypeOK
      <4> QED
        BY <3>1, <4>1, <1>2
    <3>2. CASE ~stored
      BY <3>2, <1>2, <1>b
    <3> QED
      BY <3>1, <3>2
  <2>2. slot' \in [Regs -> Regs \cup {NoReg}]
    BY <1>2 DEF TypeOK
  <2> QED
    BY <1>1, <2>1, <2>2 DEF TypeOK, regVars, ownerVars, clientVars
<1>4. \A q \in Regs : (Superseded(q)' <=> Superseded(q)) /\ (Alone(q)' <=> Alone(q))
                      /\ (Used(q)' <=> Used(q)) /\ (Released(q)' <=> Released(q))
                      /\ (InMap(q)' <=> InMap(q))
  BY <1>1 DEF Superseded, Alone, Used, Released, InMap, regVars, ownerVars
<1>5. \A q \in Regs : q # r /\ (stored => q # slot[t]) => intr'[q] = intr[q]
  BY <1>2 DEF TypeOK
<1>6. /\ \A q \in Regs : q # t => slot'[q] = slot[q]
      /\ stored => slot'[t] = r /\ intr'[r] = "stored"
      /\ stored /\ slot[t] # NoReg => slot[t] # r /\ intr'[slot[t]] = "dropped"
      /\ ~stored => slot' = slot /\ intr'[r] = "run"
  BY <1>0, <1>2 DEF TypeOK, SlotsInTheMap
<1>7. RegInv'
  <2>1. FreshIsFresh'
    BY <1>0, <1>1, <1>4, <1>5, <1>6 DEF FreshIsFresh, regVars, ownerVars, SlotsInTheMap, TypeOK
  <2>2. MapHoldsTheLast' /\ LeftForAReason' /\ DisplacedEarlier' /\ ProofIsOfTheLast'
    BY <1>1, <1>4 DEF MapHoldsTheLast, LeftForAReason, DisplacedEarlier, ProofIsOfTheLast, Used,
       Superseded, Released, regVars, ownerVars
  <2> QED
    BY <2>1, <2>2
<1>8. ClientInv'
  BY <1>1 DEF CompletionHasCause, Subscribed, MatchedAreCancelled, TerminalIsTrue, ProvenMeansEnded,
     Used, Superseded, Released, regVars, ownerVars, clientVars
<1>9. SlotsInTheMap'
  <2> SUFFICES ASSUME NEW q \in Regs, slot'[q] # NoReg
               PROVE  InMap(q)' /\ Used(q)' /\ id'[slot'[q]] = id'[q] /\ intr'[slot'[q]] = "stored"
    BY DEF SlotsInTheMap
  <2>1. CASE stored /\ q = t
    BY <2>1, <1>0, <1>1, <1>4, <1>6 DEF regVars
  <2>2. CASE ~(stored /\ q = t)
    <3>1. slot'[q] = slot[q] /\ slot[q] \in Regs
      BY <2>2, <1>6 DEF TypeOK
    <3>2. slot[q] # r /\ InMap(q) /\ Used(q) /\ id[slot[q]] = id[q] /\ intr[slot[q]] = "stored"
      BY <3>1, <1>0 DEF SlotsInTheMap
    <3>3. stored => slot[q] # slot[t]
      BY <2>2, <3>1, <3>2, <1>0 DEF SlotsInTheMap, InMap
    <3> QED
      BY <3>1, <3>2, <3>3, <1>1, <1>4, <1>5 DEF regVars
  <2> QED
    BY <2>1, <2>2
<1>10. StoredInASlot'
  <2> SUFFICES ASSUME NEW q \in Regs, intr'[q] = "stored"
               PROVE  inner[id[q]] # NoReg /\ slot'[inner[id[q]]] = q
    BY <1>1 DEF StoredInASlot, regVars
  <2>1. CASE q = r
    BY <2>1, <1>6
  <2>2. CASE q # r
    <3>1. intr[q] = "stored" /\ (stored => q # slot[t])
      BY <2>2, <1>5, <1>6 DEF TypeOK
    <3>2. inner[id[q]] # NoReg /\ slot[inner[id[q]]] = q
      BY <3>1 DEF StoredInASlot
    <3>3. inner[id[q]] \in Regs
      BY <3>1, <3>2, <1>0 DEF TypeOK, FreshIsFresh
    <3> QED
      BY <3>1, <3>2, <3>3, <1>6
  <2> QED
    BY <2>1, <2>2
<1>11. HeldAreTaken'
  <2>1. \A q \in Regs : intr[q] \in {"taken", "run"} => intr'[q] = intr[q]
    BY <1>0, <1>5 DEF SlotsInTheMap
  <2>2. /\ \A q \in Regs : hand'[q] = hand[q] /\ (hand[q] # NoReg => hand[q] \in Regs)
        /\ \A c \in Clients : taken'[c] = taken[c] /\ (taken[c] # NoReg => taken[c] \in Regs)
    BY <1>1 DEF TypeOK, ownerVars, clientVars
  <2> QED
    BY <2>1, <2>2 DEF HeldAreTaken
<1>12. DroppedAtRelease'
  <2> SUFFICES ASSUME NEW q \in Regs, intr'[q] = "dropped", Alone(q)
               PROVE  Released(q)
    BY <1>4 DEF DroppedAtRelease
  <2>1. q # r
    BY <1>6
  <2>2. CASE stored /\ q = slot[t]
    BY <2>1, <2>2, <1>0 DEF SlotsInTheMap, Alone
  <2>3. CASE ~(stored /\ q = slot[t])
    BY <2>1, <2>3, <1>5 DEF DroppedAtRelease
  <2> QED
    BY <2>2, <2>3
<1>13. CancelledIsInterrupted'
  <2> SUFFICES ASSUME NEW q \in Regs, token[q], kind[q] # "child", intr'[q] # "none", Alone(q)
               PROVE  intr'[q] \in {"taken", "run"}
    BY <1>1, <1>4 DEF CancelledIsInterrupted, regVars
  <2>1. CASE q = r
    BY <2>1, <1>0, <1>6 DEF Alone
  <2>2. CASE q # r /\ stored /\ q = slot[t]
    BY <2>2, <1>0 DEF SlotsInTheMap, Alone
  <2>3. CASE q # r /\ ~(stored /\ q = slot[t])
    BY <2>3, <1>5 DEF CancelledIsInterrupted
  <2> QED
    BY <2>1, <2>2, <2>3
<1> QED
  BY <1>3, <1>7, <1>8, <1>9, <1>10, <1>11, <1>12, <1>13

\* A registration takes the next number, displaces the task that holds its id,
\* and takes the closure out of it.
LEMMA RegisterIndInv ==
  ASSUME IndInv, NEW e \in Ids, NEW k \in Kinds, Register(e, k)
  PROVE  IndInv'
<1> USE RegFacts, NoIdAssumption, KindsAssumption DEF IndInv, RegInv, SlotInv, ClientInv
<1>a. PICK r \in Regs : r = count + 1
  BY DEF Register, TypeOK
<1>b. PICK p \in Regs \cup {NoReg} : p = inner[e]
  BY DEF TypeOK
<1>c. PICK g \in Regs \cup {NoReg} : g = IF p = NoReg THEN NoReg ELSE slot[p]
  BY DEF TypeOK
<1>1. count \in Nat /\ r = count + 1 /\ count' = r /\ ~Used(r)
  BY <1>a DEF Register, TypeOK, FreshIsFresh
<1>2. /\ id[r] \notin Ids /\ ~token[r] /\ ~completion[r] /\ slot[r] = NoReg /\ intr[r] = "none"
      /\ previous[r] = NoReg /\ hand[r] = NoReg
  BY <1>1 DEF FreshIsFresh
<1>3. p # NoReg => p \in Regs /\ p # r /\ Used(p) /\ id[p] = e /\ ~Superseded(p)
  BY <1>1, <1>b DEF MapHoldsTheLast, TypeOK
<1>4. /\ g # NoReg => g \in Regs /\ intr[g] = "stored" /\ id[g] = e /\ slot[p] = g /\ g # r
  BY <1>2, <1>3, <1>c DEF SlotsInTheMap, TypeOK
<1>5. /\ UNCHANGED <<token, completion, db>> /\ UNCHANGED clientVars
      /\ completed' = [completed EXCEPT ![e] = "none"]
      /\ inner' = [inner EXCEPT ![e] = r]
      /\ id' = [id EXCEPT ![r] = e]
      /\ kind' = [kind EXCEPT ![r] = k]
      /\ previous' = [previous EXCEPT ![r] = p]
      /\ hand' = [hand EXCEPT ![r] = g]
      /\ slot' = IF p = NoReg THEN slot ELSE [slot EXCEPT ![p] = NoReg]
      /\ intr' = IF g = NoReg THEN intr ELSE [intr EXCEPT ![g] = "taken"]
      /\ phase' = [phase EXCEPT ![r] = IF p = NoReg THEN "running" ELSE "displace"]
  BY <1>a, <1>b, <1>c DEF Register, Took
<1>6. TypeOK'
  <2>1. count' \in 0 .. MaxReg
    BY <1>1, MaxRegAssumption DEF Register
  <2>2. /\ inner' \in [Ids -> Regs \cup {NoReg}]
        /\ completed' \in [Ids -> {"none", "unproven", "proven"}]
        /\ id' \in [Regs -> Ids \cup {NoId}]
        /\ kind' \in [Regs -> AllKinds]
    BY <1>5 DEF TypeOK
  <2>3. /\ slot' \in [Regs -> Regs \cup {NoReg}]
        /\ intr' \in [Regs -> {"none", "stored", "taken", "run", "dropped"}]
        /\ previous' \in [Regs -> Regs \cup {NoReg}]
        /\ hand' \in [Regs -> Regs \cup {NoReg}]
        /\ phase' \in [Regs -> {"unused", "displace", "complete", "interrupt",
                                 "running", "detached", "notify", "done"}]
    BY <1>5 DEF TypeOK
  <2> QED
    BY <1>5, <2>1, <2>2, <2>3 DEF TypeOK, clientVars
<1>7. \A q \in Regs \ {r} : /\ id'[q] = id[q] /\ kind'[q] = kind[q] /\ phase'[q] = phase[q]
                            /\ previous'[q] = previous[q] /\ hand'[q] = hand[q]
                            /\ (Used(q)' <=> Used(q)) /\ (Released(q)' <=> Released(q))
  BY <1>1, <1>5 DEF TypeOK, Used, Released
<1>8. id'[r] = e /\ previous'[r] = p /\ hand'[r] = g /\ Used(r)' /\ ~Released(r)'
  BY <1>1, <1>5 DEF TypeOK, Used, Released
<1>9. \A q \in Regs : Used(q) => q < r /\ id[q] \in Ids
  BY <1>1 DEF FreshIsFresh
<1>10. /\ \A q \in Regs \ {r} : Superseded(q)' <=> Superseded(q) \/ (id[q] = e /\ q < r)
       /\ ~Superseded(r)'
  <2>1. \A q \in Regs \ {r} : id'[q] = id[q]
    BY <1>7
  <2>2. \A q \in Regs : q > r => id'[q] \notin Ids
    BY <1>1, <2>1 DEF FreshIsFresh
  <2>3. ~Superseded(r)'
    BY <1>8, <2>2 DEF Superseded
  <2>4. ASSUME NEW q \in Regs \ {r}
        PROVE  Superseded(q)' <=> Superseded(q) \/ (id[q] = e /\ q < r)
    <3>1. Superseded(q) => \E s \in Regs \ {r} : s > q /\ id[s] = id[q]
      <4> SUFFICES ASSUME NEW s \in Regs, s > q, id[s] = id[q] PROVE s # r
        BY DEF Superseded
      <4>1. s = r => id[q] \notin Ids
        BY <1>2
      <4>2. id[q] \notin Ids => ~(q <= count)
        BY DEF FreshIsFresh
      <4> QED
        BY <1>1, <4>1, <4>2
    <3> QED
      BY <1>1, <1>8, <2>1, <3>1 DEF Superseded
  <2> QED
    BY <2>3, <2>4
<1>11. \A q \in Regs : Used(q) /\ Alone(q)' => Alone(q)
  <2> SUFFICES ASSUME NEW q \in Regs, Used(q), Alone(q)', NEW s \in Regs \ {q}
               PROVE  id[s] # id[q]
    BY DEF Alone
  <2>1. q # r /\ id[q] \in Ids
    BY <1>1, <1>9
  <2> QED
    BY <2>1, <1>2, <1>7 DEF Alone
<1>12. \A d \in Ids \ {e} : inner'[d] = inner[d]
  BY <1>5 DEF TypeOK
<1>13. inner'[e] = r
  BY <1>5 DEF TypeOK
<1>14. /\ \A q \in Regs : q # p => slot'[q] = slot[q]
       /\ p # NoReg => slot'[p] = NoReg
       /\ \A q \in Regs : q # g => intr'[q] = intr[q]
       /\ g # NoReg => intr'[g] = "taken"
  BY <1>3, <1>4, <1>5 DEF TypeOK
<1>15. RegInv'
  <2>1. FreshIsFresh'
    <3> SUFFICES ASSUME NEW q \in Regs
                 PROVE  /\ Used(q)' <=> q <= r
                        /\ id'[q] \in Ids <=> Used(q)'
                        /\ ~Used(q)' => /\ ~token[q] /\ ~completion[q] /\ slot'[q] = NoReg
                                        /\ intr'[q] = "none" /\ previous'[q] = NoReg /\ hand'[q] = NoReg
      BY <1>1, <1>5 DEF FreshIsFresh
    <3>1. CASE q = r
      BY <3>1, <1>1, <1>8
    <3>2. CASE q # r
      <4>1. q <= r <=> q <= count
        BY <3>2, <1>1
      <4>2. ~Used(q) => q # p /\ q # g
        BY <1>3, <1>4 DEF FreshIsFresh
      <4> QED
        BY <3>2, <4>1, <4>2, <1>7, <1>14 DEF FreshIsFresh
    <3> QED
      BY <3>1, <3>2
  <2>2. MapHoldsTheLast'
    <3> SUFFICES ASSUME NEW d \in Ids, inner'[d] # NoReg
                 PROVE  /\ Used(inner[d])' /\ id'[inner'[d]] = d
                        /\ ~Superseded(inner[d])' /\ ~Released(inner[d])'
      BY DEF MapHoldsTheLast
    <3>1. CASE d = e
      BY <3>1, <1>8, <1>10, <1>13 DEF Used, Released, Superseded
    <3>2. CASE d # e
      <4>1. /\ inner'[d] = inner[d] /\ inner[d] \in Regs /\ inner[d] # r
            /\ Used(inner[d]) /\ id[inner[d]] = d /\ ~Superseded(inner[d]) /\ ~Released(inner[d])
        BY <3>2, <1>1, <1>12 DEF MapHoldsTheLast, TypeOK
      <4> QED
        BY <3>2, <4>1, <1>7, <1>10 DEF Used, Released, Superseded
    <3> QED
      BY <3>1, <3>2
  <2>3. LeftForAReason'
    <3> SUFFICES ASSUME NEW q \in Regs, Used(q)', ~InMap(q)'
                 PROVE  Released(q)' \/ Superseded(q)' \/ (token'[q] /\ kind'[q] \notin Tracked)
      BY DEF LeftForAReason
    <3>1. q # r
      BY <1>8, <1>13 DEF InMap
    <3>2. CASE ~InMap(q)
      BY <3>1, <3>2, <1>5, <1>7, <1>10 DEF LeftForAReason
    <3>3. CASE InMap(q)
      BY <3>1, <3>3, <1>7, <1>9, <1>10, <1>12 DEF InMap
    <3> QED
      BY <3>2, <3>3
  <2>4. DisplacedEarlier'
    <3> SUFFICES ASSUME NEW q \in Regs
                 PROVE  /\ phase'[q] \in {"displace", "complete", "interrupt"} => previous'[q] # NoReg
                        /\ previous'[q] # NoReg => Superseded(previous[q])' /\ Used(previous[q])'
      BY DEF DisplacedEarlier
    <3>1. CASE q = r
      <4>1. phase'[q] = IF p = NoReg THEN "running" ELSE "displace"
        BY <3>1, <1>1, <1>5 DEF TypeOK
      <4>2. p # NoReg => (\E s \in Regs : s > p /\ id'[s] = id'[p]) /\ phase'[p] # "unused"
        BY <1>3, <1>7, <1>8, <1>9, <1>1 DEF Used
      <4> QED
        BY <3>1, <4>1, <4>2, <1>8 DEF Superseded, Used
    <3>2. CASE q # r
      <4>1. previous'[q] = previous[q] /\ phase'[q] = phase[q]
        BY <3>2, <1>7
      <4>2. previous[q] # NoReg => previous[q] \in Regs \ {r} /\ Superseded(previous[q]) /\ Used(previous[q])
        BY <1>1 DEF DisplacedEarlier, TypeOK
      <4>3. previous[q] # NoReg => (\E s \in Regs : s > previous[q] /\ id'[s] = id'[previous[q]])
        BY <4>2, <1>10 DEF Superseded
      <4> QED
        BY <4>1, <4>2, <4>3, <1>7 DEF DisplacedEarlier, Superseded, Used
    <3> QED
      BY <3>1, <3>2
  <2>5. ProofIsOfTheLast'
    <3> SUFFICES ASSUME NEW d \in Ids, completed'[d] = "proven",
                        NEW q \in Regs, id'[q] = d, ~Superseded(q)'
                 PROVE  db[q] = "ended"
      BY <1>5 DEF ProofIsOfTheLast
    <3>1. d # e /\ completed[d] = "proven"
      BY <1>5 DEF TypeOK
    <3> QED
      BY <3>1, <1>7, <1>8, <1>10 DEF ProofIsOfTheLast
  <2> QED
    BY <2>1, <2>2, <2>3, <2>4, <2>5
<1>16. SlotsInTheMap'
  <2> SUFFICES ASSUME NEW q \in Regs, slot'[q] # NoReg
               PROVE  InMap(q)' /\ Used(q)' /\ id'[slot'[q]] = id'[q] /\ intr'[slot'[q]] = "stored"
    BY DEF SlotsInTheMap
  <2>1. /\ q # p /\ q # r /\ slot'[q] = slot[q] /\ slot[q] \in Regs /\ InMap(q) /\ Used(q)
        /\ id[slot[q]] = id[q] /\ intr[slot[q]] = "stored"
    BY <1>2, <1>14 DEF SlotsInTheMap, TypeOK
  <2>2. id[q] # e /\ slot[q] # g /\ slot[q] # r
    BY <1>b, <1>2, <1>4, <2>1 DEF InMap
  <2> QED
    BY <2>1, <2>2, <1>7, <1>12, <1>14 DEF InMap
<1>17. StoredInASlot'
  <2> SUFFICES ASSUME NEW q \in Regs, intr'[q] = "stored"
               PROVE  inner'[id'[q]] # NoReg /\ slot'[inner'[id'[q]]] = q
    BY DEF StoredInASlot
  <2>1. q # g /\ q # r /\ intr[q] = "stored" /\ inner[id[q]] # NoReg /\ slot[inner[id[q]]] = q
    BY <1>2, <1>4, <1>14 DEF StoredInASlot
  <2>2. id[q] \in Ids /\ id[q] # e
    BY <2>1, <1>b, <1>c, <1>3 DEF FreshIsFresh
  <2>3. inner[id[q]] \in Regs /\ inner[id[q]] # p
    BY <2>1, <2>2, <1>3 DEF TypeOK, MapHoldsTheLast
  <2> QED
    BY <2>1, <2>2, <2>3, <1>7, <1>12, <1>14
<1>18. HeldAreTaken'
  <2>1. \A q \in Regs : intr[q] \in {"taken", "run"} => intr'[q] = intr[q]
    BY <1>4, <1>14
  <2>2. \A q \in Regs : hand'[q] # NoReg => intr'[hand'[q]] \in {"taken", "run"}
    BY <2>1, <1>7, <1>8, <1>14 DEF HeldAreTaken, TypeOK
  <2>3. \A c \in Clients : taken'[c] # NoReg => intr'[taken'[c]] \in {"taken", "run"}
    BY <2>1, <1>5 DEF HeldAreTaken, TypeOK, clientVars
  <2> QED
    BY <2>2, <2>3 DEF HeldAreTaken
<1>19. \A q \in Regs : intr'[q] # "none" => Used(q) /\ q # r
  BY <1>1, <1>2, <1>4, <1>14 DEF FreshIsFresh
<1>20. DroppedAtRelease' /\ CancelledIsInterrupted'
  BY <1>5, <1>7, <1>11, <1>14, <1>19 DEF DroppedAtRelease, CancelledIsInterrupted
<1>21. \A q \in Regs : q # r /\ Superseded(q) => Superseded(q)'
  BY <1>10
<1>22. ClientInv'
  <2> USE <1>5 DEF clientVars
  <2>1. CompletionHasCause'
    <3>1. \A q \in Regs : completion[q] => q # r
      BY <1>2
    <3>2. \A c \in Clients : gone[c] # NoReg => gone[c] \in Regs \ {r}
      BY <1>1 DEF CompletionHasCause, TypeOK
    <3> QED
      BY <3>1, <3>2, <1>7, <1>21 DEF CompletionHasCause
  <2>2. \A c \in Clients : sub[c] # NoReg => sub[c] \in Regs \ {r}
    BY <1>1 DEF Subscribed, TypeOK
  <2>3. \A c \in Clients : \A q \in matched[c] : q \in Regs \ {r}
    BY <1>1 DEF MatchedAreCancelled, TypeOK
  <2>4. Subscribed'
    BY <2>2, <1>7 DEF Subscribed, Used
  <2>5. MatchedAreCancelled'
    BY <2>3, <1>7, <1>21 DEF MatchedAreCancelled
  <2>6. TerminalIsTrue'
    BY <2>2, <1>7, <1>21 DEF TerminalIsTrue, Superseded, Released
  <2>7. ProvenMeansEnded'
    BY <2>2, <1>7, <1>21 DEF ProvenMeansEnded, Superseded
  <2> QED
    BY <2>1, <2>4, <2>5, <2>6, <2>7
<1> QED
  BY <1>6, <1>15, <1>16, <1>17, <1>18, <1>20, <1>22

-----------------------------------------------------------------------------
(* The clients' steps                                                      *)

\* A step that leaves the registry and the owners alone is an ordinary one.
LEMMA ClientFrame ==
  ASSUME IndInv, UNCHANGED <<regVars, taskVars, ownerVars, taken, gone>>
  PROVE  /\ Ordinary
         /\ \A r \in Regs : Superseded(r)' = Superseded(r) /\ Released(r)' = Released(r) /\ Used(r)' = Used(r)
<1> USE DEF IndInv, RegInv, SlotInv, ClientInv, regVars, taskVars, ownerVars
<1>1. Kept /\ TokensHaveCause /\ CompletionsHaveCause
  BY DEF Kept, TokensHaveCause, CompletionsHaveCause, Used, Released
<1>2. MapShrinks
  BY DEF MapShrinks, InMap, Released
<1>3. ClosuresLeave
  BY DEF ClosuresLeave, SlotsInTheMap, InMap
<1> QED
  BY <1>1, <1>2, <1>3 DEF Ordinary, Used, Released, Superseded

\* What cancel_matching selects is in the map.
LEMMA CancelMatchingIndInv ==
  ASSUME IndInv, NEW c \in Clients, CancelMatching(c)
  PROVE  IndInv'
<1> USE RegFacts DEF IndInv, RegInv, SlotInv, ClientInv, CancelMatching, Enter, NoAnswer
<1>1. UNCHANGED <<regVars, taskVars, ownerVars, taken, gone>>
  OBVIOUS
<1>2. TypeOK'
  BY DEF TypeOK, regVars, taskVars, ownerVars
<1>3. Subscribed'
  BY <1>1, ClientFrame DEF Subscribed, TypeOK, Used, MapHoldsTheLast, regVars, ownerVars
<1>4. MatchedAreCancelled'
  BY <1>1, ClientFrame DEF MatchedAreCancelled, TypeOK, MapHoldsTheLast, regVars, taskVars, ownerVars
<1>5. TerminalIsTrue'
  BY <1>1, ClientFrame DEF TerminalIsTrue, TypeOK, CompletionHasCause, Superseded, Released, regVars, taskVars, ownerVars
<1>6. ProvenMeansEnded'
  BY <1>1, ClientFrame DEF ProvenMeansEnded, TypeOK, Superseded, regVars, ownerVars
<1> QED
  BY <1>1, <1>2, <1>3, <1>4, <1>5, <1>6, ClientFrame, OrdinaryRegInv, OrdinarySlotInv,
     OrdinaryCompletions

\* A cancel returns.
LEMMA CancelReturnIndInv ==
  ASSUME IndInv, NEW c \in Clients, CancelReturn(c)
  PROVE  IndInv'
<1> USE RegFacts DEF IndInv, RegInv, SlotInv, ClientInv, CancelReturn, Enter, NoAnswer
<1>1. UNCHANGED <<regVars, taskVars, ownerVars, taken, gone>>
  OBVIOUS
<1>2. TypeOK'
  BY DEF TypeOK, regVars, taskVars, ownerVars
<1>3. Subscribed'
  BY <1>1, ClientFrame DEF Subscribed, TypeOK, Used, MapHoldsTheLast, regVars, ownerVars
<1>4. MatchedAreCancelled'
  BY <1>1, ClientFrame DEF MatchedAreCancelled, TypeOK, MapHoldsTheLast, regVars, taskVars, ownerVars
<1>5. TerminalIsTrue'
  BY <1>1, ClientFrame DEF TerminalIsTrue, TypeOK, CompletionHasCause, Superseded, Released, regVars, taskVars, ownerVars
<1>6. ProvenMeansEnded'
  BY <1>1, ClientFrame DEF ProvenMeansEnded, TypeOK, Superseded, regVars, ownerVars
<1> QED
  BY <1>1, <1>2, <1>3, <1>4, <1>5, <1>6, ClientFrame, OrdinaryRegInv, OrdinarySlotInv,
     OrdinaryCompletions

\* A wait that ends on completion has seen the completion.
LEMMA WaitCompletedIndInv ==
  ASSUME IndInv, NEW c \in Clients, WaitCompleted(c)
  PROVE  IndInv'
<1> USE RegFacts DEF IndInv, RegInv, SlotInv, ClientInv, WaitCompleted, Enter, NoAnswer
<1>1. UNCHANGED <<regVars, taskVars, ownerVars, taken, gone>>
  OBVIOUS
<1>2. TypeOK'
  BY DEF TypeOK, regVars, taskVars, ownerVars
<1>3. Subscribed'
  BY <1>1, ClientFrame DEF Subscribed, TypeOK, Used, MapHoldsTheLast, regVars, ownerVars
<1>4. MatchedAreCancelled'
  BY <1>1, ClientFrame DEF MatchedAreCancelled, TypeOK, MapHoldsTheLast, regVars, taskVars, ownerVars
<1>5. TerminalIsTrue'
  BY <1>1, ClientFrame DEF TerminalIsTrue, TypeOK, CompletionHasCause, Superseded, Released, regVars, taskVars, ownerVars
<1>6. ProvenMeansEnded'
  BY <1>1, ClientFrame DEF ProvenMeansEnded, TypeOK, Superseded, regVars, ownerVars
<1> QED
  BY <1>1, <1>2, <1>3, <1>4, <1>5, <1>6, ClientFrame, OrdinaryRegInv, OrdinarySlotInv,
     OrdinaryCompletions

\* A wait that times out has seen nothing.
LEMMA WaitTimeoutIndInv ==
  ASSUME IndInv, NEW c \in Clients, WaitTimeout(c)
  PROVE  IndInv'
<1> USE RegFacts DEF IndInv, RegInv, SlotInv, ClientInv, WaitTimeout, Enter, NoAnswer
<1>1. UNCHANGED <<regVars, taskVars, ownerVars, taken, gone>>
  OBVIOUS
<1>2. TypeOK'
  BY DEF TypeOK, regVars, taskVars, ownerVars
<1>3. Subscribed'
  BY <1>1, ClientFrame DEF Subscribed, TypeOK, Used, MapHoldsTheLast, regVars, ownerVars
<1>4. MatchedAreCancelled'
  BY <1>1, ClientFrame DEF MatchedAreCancelled, TypeOK, MapHoldsTheLast, regVars, taskVars, ownerVars
<1>5. TerminalIsTrue'
  BY <1>1, ClientFrame DEF TerminalIsTrue, TypeOK, CompletionHasCause, Superseded, Released, regVars, taskVars, ownerVars
<1>6. ProvenMeansEnded'
  BY <1>1, ClientFrame DEF ProvenMeansEnded, TypeOK, Superseded, regVars, ownerVars
<1> QED
  BY <1>1, <1>2, <1>3, <1>4, <1>5, <1>6, ClientFrame, OrdinaryRegInv, OrdinarySlotInv,
     OrdinaryCompletions

\* The answer is terminal or proven because the registry says so of this id.
LEMMA ReadResultIndInv ==
  ASSUME IndInv, NEW c \in Clients, ReadResult(c)
  PROVE  IndInv'
<1>p. /\ ans'[c].terminal => (ans[c].requested /\ ans[c].terminal) \/ inner[target[c]] = NoReg
      /\ ans'[c].proven => inner[target[c]] = NoReg /\ completed[target[c]] = "proven"
  <2>1. ans'[c] = [requested |-> ans[c].requested,
                   terminal |-> IF ans[c].requested THEN ans[c].terminal
                                ELSE inner[target[c]] = NoReg /\ completed[target[c]] # "none",
                   proven |-> inner[target[c]] = NoReg /\ completed[target[c]] = "proven"]
    BY DEF ReadResult, IndInv, TypeOK
  <2>2. ans'[c].terminal = IF ans[c].requested THEN ans[c].terminal
                           ELSE inner[target[c]] = NoReg /\ completed[target[c]] # "none"
    BY <2>1
  <2>3. ans'[c].proven = (inner[target[c]] = NoReg /\ completed[target[c]] = "proven")
    BY <2>1
  <2> QED
    BY <2>2, <2>3, Zenon
<1>q. /\ pc[c] = "read" /\ pc'[c] = "answered" /\ UNCHANGED <<sub, target>>
      /\ \A d \in Clients \ {c} : pc'[d] = pc[d] /\ ans'[d] = ans[d]
  BY DEF ReadResult, IndInv, TypeOK
<1> USE RegFacts DEF IndInv, RegInv, SlotInv, ClientInv, ReadResult, Enter, NoAnswer
<1>1. UNCHANGED <<regVars, taskVars, ownerVars, taken, gone>>
  OBVIOUS
<1>2. TypeOK'
  BY DEF TypeOK, regVars, taskVars, ownerVars
<1>3. Subscribed'
  BY <1>1, ClientFrame DEF Subscribed, TypeOK, Used, MapHoldsTheLast, regVars, ownerVars
<1>4. MatchedAreCancelled'
  BY <1>1, ClientFrame DEF MatchedAreCancelled, TypeOK, MapHoldsTheLast, regVars, taskVars, ownerVars
<1>b. sub[c] # NoReg => sub[c] \in Regs /\ Used(sub[c]) /\ id[sub[c]] = target[c] /\ target[c] \in Ids
  BY DEF Subscribed, TypeOK, FreshIsFresh
<1>5. TerminalIsTrue'
  <2>1. ASSUME ans'[c].terminal, sub[c] # NoReg, kind[sub[c]] \in Tracked, ~Superseded(sub[c])
        PROVE  Released(sub[c])
    <3>1. CASE ans[c].terminal
      BY <2>1, <3>1, <1>p, <1>q, <1>b DEF TerminalIsTrue, CompletionHasCause
    <3>2. CASE inner[target[c]] = NoReg
      BY <2>1, <3>2, <1>b DEF LeftForAReason, InMap
    <3> QED
      BY <2>1, <3>1, <3>2, <1>p, <1>q
  <2>2. ASSUME NEW d \in Clients \ {c}, ans'[d].terminal
        PROVE  /\ pc'[d] \in {"read", "answered"}
               /\ pc'[d] = "read" /\ sub'[d] # NoReg => completion'[sub'[d]]
               /\ pc'[d] = "answered" /\ sub'[d] # NoReg /\ kind'[sub'[d]] \in Tracked /\ ~Superseded(sub[d])'
                    => Released(sub[d])'
    BY <2>2, <1>1, <1>p, <1>q DEF TerminalIsTrue, Superseded, Released, regVars, taskVars, ownerVars
  <2> QED
    BY <2>1, <2>2, <1>1, <1>p, <1>q DEF TerminalIsTrue, Superseded, Released, regVars, ownerVars
<1>6. ProvenMeansEnded'
  <2>1. ASSUME ans'[c].proven, sub[c] # NoReg, ~Superseded(sub[c])
        PROVE  db[sub[c]] = "ended"
    BY <2>1, <1>p, <1>q, <1>b DEF ProofIsOfTheLast
  <2> QED
    BY <2>1, <1>1, <1>p, <1>q DEF ProvenMeansEnded, Superseded, regVars, ownerVars
<1> QED
  BY <1>1, <1>2, <1>3, <1>4, <1>5, <1>6, ClientFrame, OrdinaryRegInv, OrdinarySlotInv,
     OrdinaryCompletions

\* The answer is consumed.
LEMMA ConsumeIndInv ==
  ASSUME IndInv, NEW c \in Clients, Consume(c)
  PROVE  IndInv'
<1> USE RegFacts DEF IndInv, RegInv, SlotInv, ClientInv, Consume, Enter, NoAnswer
<1>1. UNCHANGED <<regVars, taskVars, ownerVars, taken, gone>>
  OBVIOUS
<1>2. TypeOK'
  BY DEF TypeOK, regVars, taskVars, ownerVars
<1>3. Subscribed'
  BY <1>1, ClientFrame DEF Subscribed, TypeOK, Used, MapHoldsTheLast, regVars, ownerVars
<1>4. MatchedAreCancelled'
  BY <1>1, ClientFrame DEF MatchedAreCancelled, TypeOK, MapHoldsTheLast, regVars, taskVars, ownerVars
<1>5. TerminalIsTrue'
  BY <1>1, ClientFrame DEF TerminalIsTrue, TypeOK, CompletionHasCause, Superseded, Released, regVars, taskVars, ownerVars
<1>6. ProvenMeansEnded'
  BY <1>1, ClientFrame DEF ProvenMeansEnded, TypeOK, Superseded, regVars, ownerVars
<1> QED
  BY <1>1, <1>2, <1>3, <1>4, <1>5, <1>6, ClientFrame, OrdinaryRegInv, OrdinarySlotInv,
     OrdinaryCompletions

\* A caller subscribes to the task in the map.
LEMMA SubscribeIndInv ==
  ASSUME IndInv, NEW c \in Clients, NEW o \in {"cancel_and_wait", "wait_for_completion"}, NEW e \in Ids, Subscribe(c, o, e)
  PROVE  IndInv'
<1> USE RegFacts DEF IndInv, RegInv, SlotInv, ClientInv, Subscribe, Enter, NoAnswer
<1>1. UNCHANGED <<regVars, taskVars, ownerVars, taken, gone>>
  OBVIOUS
<1>2. TypeOK'
  BY DEF TypeOK, regVars, taskVars, ownerVars
<1>3. Subscribed'
  BY <1>1, ClientFrame DEF Subscribed, TypeOK, Used, MapHoldsTheLast, regVars, ownerVars
<1>4. MatchedAreCancelled'
  BY <1>1, ClientFrame DEF MatchedAreCancelled, TypeOK, MapHoldsTheLast, regVars, taskVars, ownerVars
<1>5. TerminalIsTrue'
  BY <1>1, ClientFrame DEF TerminalIsTrue, TypeOK, CompletionHasCause, Superseded, Released, regVars, taskVars, ownerVars
<1>6. ProvenMeansEnded'
  BY <1>1, ClientFrame DEF ProvenMeansEnded, TypeOK, Superseded, regVars, ownerVars
<1> QED
  BY <1>1, <1>2, <1>3, <1>4, <1>5, <1>6, ClientFrame, OrdinaryRegInv, OrdinarySlotInv,
     OrdinaryCompletions

\* The locked part of a cancel is an ordinary step.
LEMMA CancelLockedFrame ==
  ASSUME IndInv, NEW c \in Clients, NEW e \in Ids, inner[e] # NoReg, CancelLocked(c, e),
         UNCHANGED <<count, completed, id, kind, completion>>, UNCHANGED ownerVars
  PROVE  /\ Ordinary
         /\ inner' \in [Ids -> Regs \cup {NoReg}] /\ token' \in [Regs -> BOOLEAN]
         /\ slot' \in [Regs -> Regs \cup {NoReg}]
         /\ intr' \in [Regs -> {"none", "stored", "taken", "run", "dropped"}]
         /\ taken' \in [Clients -> Regs \cup {NoReg}] /\ gone' \in [Clients -> Regs \cup {NoReg}]
         /\ token'[inner[e]]
<1> USE RegFacts DEF IndInv, RegInv, SlotInv, ClientInv
<1>a. PICK r \in Regs : r = inner[e]
  BY DEF TypeOK
<1>b. PICK g \in Regs \cup {NoReg} : g = slot[r]
  BY DEF TypeOK
<1>1. InMap(r) /\ Used(r) /\ ~Released(r) /\ id[r] = e
  BY <1>a DEF MapHoldsTheLast, InMap
<1>2. /\ token' = [token EXCEPT ![r] = TRUE]
      /\ slot' = [slot EXCEPT ![r] = NoReg]
      /\ intr' = IF g = NoReg THEN intr ELSE [intr EXCEPT ![g] = "taken"]
      /\ taken' = [taken EXCEPT ![c] = g]
      /\ inner' = IF kind[r] \in Tracked THEN inner ELSE [inner EXCEPT ![e] = NoReg]
      /\ gone' = IF kind[r] \in Tracked THEN gone ELSE [gone EXCEPT ![c] = r]
  BY <1>a, <1>b DEF CancelLocked, Took
<1>3. /\ inner' \in [Ids -> Regs \cup {NoReg}] /\ token' \in [Regs -> BOOLEAN]
      /\ slot' \in [Regs -> Regs \cup {NoReg}]
      /\ intr' \in [Regs -> {"none", "stored", "taken", "run", "dropped"}]
      /\ taken' \in [Clients -> Regs \cup {NoReg}] /\ gone' \in [Clients -> Regs \cup {NoReg}]
  BY <1>2 DEF TypeOK
<1>4. g # NoReg => intr[g] = "stored" /\ g \in Regs /\ Used(g)
  BY <1>b DEF SlotsInTheMap, FreshIsFresh
<1>5. /\ token'[r] /\ \A q \in Regs \ {r} : token'[q] = token[q] /\ slot'[q] = slot[q]
      /\ slot'[r] = NoReg
      /\ \A q \in Regs : q # g => intr'[q] = intr[q]
      /\ g # NoReg => intr'[g] = "taken"
      /\ \A d \in Ids \ {e} : inner'[d] = inner[d]
      /\ inner'[e] = IF kind[r] \in Tracked THEN r ELSE NoReg
      /\ \A d \in Clients \ {c} : taken'[d] = taken[d] /\ gone'[d] = gone[d]
      /\ taken'[c] = g /\ gone'[c] = IF kind[r] \in Tracked THEN gone[c] ELSE r
  BY <1>a, <1>2 DEF TypeOK
<1>6. Kept
  BY <1>1, <1>4, <1>5 DEF Kept, Used, Released, ownerVars
<1>7. MapShrinks
  BY <1>a, <1>5 DEF MapShrinks, Released, ownerVars
<1>8. ClosuresLeave
  <2>1. ASSUME NEW t \in Regs, slot'[t] # NoReg
        PROVE  InMap(t)' /\ intr'[slot[t]] = "stored"
    <3>1. t # r /\ slot[t] = slot'[t] /\ InMap(t) /\ intr[slot[t]] = "stored" /\ id[slot[t]] = id[t]
      BY <2>1, <1>5 DEF SlotsInTheMap
    <3>2. id[t] # e
      BY <3>1, <1>a DEF InMap
    <3>3. slot[t] # g
      BY <3>1, <3>2, <2>1, <1>b, <1>1 DEF SlotsInTheMap
    <3> QED
      BY <2>1, <3>1, <3>2, <3>3, <1>5 DEF InMap, TypeOK
  <2>2. \A t \in Regs : slot'[t] \in {slot[t], NoReg} /\ hand'[t] \in {hand[t], NoReg}
    BY <1>5 DEF ownerVars
  <2>3. \A t \in Regs : slot[t] # NoReg /\ slot'[t] = NoReg => intr'[slot[t]] # "stored"
    BY <1>b, <1>5
  <2>4. \A q \in Regs : /\ intr'[q] = "stored" => intr[q] = "stored"
                        /\ intr[q] \in {"taken", "run"} => intr'[q] \in {"taken", "run"}
                        /\ intr'[q] = "none" <=> intr[q] = "none"
                        /\ intr'[q] = "dropped" => intr[q] = "dropped"
    BY <1>4, <1>5
  <2> QED
    BY <2>1, <2>2, <2>3, <2>4, <1>5 DEF ClosuresLeave
<1>9. TokensHaveCause
  BY <1>1, <1>5 DEF TokensHaveCause, Released, ownerVars
<1>10. CompletionsHaveCause
  BY <1>1, <1>5 DEF CompletionsHaveCause
<1> QED
  BY <1>a, <1>3, <1>5, <1>6, <1>7, <1>8, <1>9, <1>10 DEF Ordinary

\* One id of cancel_matching is worked off.
LEMMA CancelNextIndInv ==
  ASSUME IndInv, NEW c \in Clients, CancelNext(c)
  PROVE  IndInv'
<1> USE RegFacts DEF IndInv, RegInv, SlotInv, ClientInv
<1>a. PICK e \in Ids :
        /\ e \in todo[c]
        /\ todo' = [todo EXCEPT ![c] = @ \ {e}]
        /\ IF inner[e] = NoReg
             THEN UNCHANGED <<token, slot, intr, taken, inner, gone, pc>>
             ELSE /\ CancelLocked(c, e)
                  /\ pc' = [pc EXCEPT ![c] = After(c, taken'[c], gone'[c])]
  BY DEF CancelNext, TypeOK
<1>b. /\ UNCHANGED <<count, completed, id, kind, completion, op, target, matched, sub, ans>>
      /\ UNCHANGED ownerVars /\ pc[c] = "loop" /\ op[c] = "cancel" /\ ~ans[c].terminal
  BY DEF CancelNext, Subscribed, TerminalIsTrue
<1>1. /\ Ordinary
      /\ inner[e] # NoReg => token'[inner[e]]
      /\ TypeOK'
      /\ pc' \in [Clients -> {"idle", "cancel", "loop", "interrupt", "complete", "wait", "read", "answered"}]
      /\ \A d \in Clients \ {c} : pc'[d] = pc[d]
      /\ pc'[c] \in {"loop", "interrupt", "complete"}
  <2>1. CASE inner[e] = NoReg
    BY <2>1, <1>a, <1>b, ClientFrame DEF TypeOK, regVars, taskVars, ownerVars
  <2>2. CASE inner[e] # NoReg
    <3>1. pc' = [pc EXCEPT ![c] = After(c, taken'[c], gone'[c])]
          /\ After(c, taken'[c], gone'[c]) \in {"loop", "interrupt", "complete"}
      BY <2>2, <1>a, <1>b DEF After, Back
    <3>2. CancelLocked(c, e)
      BY <2>2, <1>a
    <3> QED
      BY <2>2, <3>1, <3>2, <1>a, <1>b, CancelLockedFrame DEF TypeOK, ownerVars
  <2> QED
    BY <2>1, <2>2
<1>2. Kept /\ RegInv' /\ SlotInv' /\ CompletionHasCause'
  BY <1>1, OrdinaryRegInv, OrdinarySlotInv, OrdinaryCompletions DEF Ordinary
<1>3. Subscribed'
  BY <1>1, <1>2, <1>b DEF Subscribed, Kept, TypeOK
<1>4. MatchedAreCancelled'
  <2> SUFFICES ASSUME NEW d \in Clients, NEW r \in matched[d]
               PROVE  /\ Used(r)'
                      /\ id[r] \notin todo'[d] => token'[r] \/ Released(r)' \/ Superseded(r)'
    BY <1>2, <1>b DEF MatchedAreCancelled, Kept
  <2>1. r \in Regs /\ Used(r) /\ Used(r)'
    BY <1>2 DEF MatchedAreCancelled, Kept, TypeOK
  <2>2. CASE id[r] \notin todo[d]
    BY <2>1, <2>2, <1>2, SameIds DEF MatchedAreCancelled, Kept
  <2>3. CASE d = c /\ id[r] = e
    <3>1. CASE InMap(r)
      BY <2>1, <2>3, <3>1, <1>1 DEF InMap
    <3>2. CASE ~InMap(r)
      BY <2>1, <2>3, <3>2, <1>2, SameIds DEF LeftForAReason, Kept
    <3> QED
      BY <3>1, <3>2
  <2>4. CASE id[r] \in todo[d] /\ ~(d = c /\ id[r] = e)
    BY <2>1, <2>4, <1>a DEF TypeOK
  <2> QED
    BY <2>2, <2>3, <2>4
<1>5. TerminalIsTrue' /\ ProvenMeansEnded'
  BY <1>1, <1>2, <1>b, AnswersKept
<1> QED
  BY <1>1, <1>2, <1>3, <1>4, <1>5

\* cancel_and_wait cancels whichever task holds the id by then.
LEMMA CancelSubscribedIndInv ==
  ASSUME IndInv, NEW c \in Clients, CancelSubscribed(c)
  PROVE  IndInv'
<1> USE RegFacts DEF IndInv, RegInv, SlotInv, ClientInv
<1>a. PICK e \in Ids : e = target[c]
  BY DEF CancelSubscribed, Subscribed
<1>b. /\ UNCHANGED <<count, completed, id, kind, completion, op, target, todo, matched, sub>>
      /\ UNCHANGED ownerVars /\ pc[c] = "cancel" /\ ~ans[c].terminal
  BY DEF CancelSubscribed, TerminalIsTrue
<1>1. /\ Ordinary
      /\ TypeOK'
      /\ \A d \in Clients \ {c} : pc'[d] = pc[d] /\ ans'[d] = ans[d]
      /\ pc'[c] \in {"read", "loop", "wait", "interrupt", "complete"} /\ ~ans'[c].terminal
      /\ pc'[c] = "loop" => op[c] = "cancel"
  <2>1. CASE inner[e] = NoReg
    <3>1. pc' = [pc EXCEPT ![c] = "read"] /\ UNCHANGED <<token, slot, intr, taken, inner, gone, ans>>
      BY <2>1, <1>a DEF CancelSubscribed
    <3> QED
      BY <3>1, <1>b, ClientFrame DEF TypeOK, regVars, taskVars, ownerVars
  <2>2. CASE inner[e] # NoReg
    <3>1. /\ CancelLocked(c, e)
          /\ pc' = [pc EXCEPT ![c] = After(c, taken'[c], gone'[c])]
          /\ ans' = [ans EXCEPT ![c] = [requested |-> TRUE, terminal |-> FALSE, proven |-> FALSE]]
      BY <2>2, <1>a DEF CancelSubscribed
    <3>2. After(c, taken'[c], gone'[c]) \in {"loop", "wait", "interrupt", "complete"}
          /\ (After(c, taken'[c], gone'[c]) = "loop" => op[c] = "cancel")
      BY DEF After, Back
    <3> QED
      BY <2>2, <3>1, <3>2, <1>b, CancelLockedFrame DEF TypeOK, ownerVars
  <2> QED
    BY <2>1, <2>2
<1>2. Kept /\ RegInv' /\ SlotInv' /\ CompletionHasCause'
  BY <1>1, OrdinaryRegInv, OrdinarySlotInv, OrdinaryCompletions DEF Ordinary
<1>3. Subscribed'
  BY <1>1, <1>2, <1>b DEF Subscribed, Kept, TypeOK
<1>4. MatchedAreCancelled'
  BY <1>2, <1>b, SameIds DEF MatchedAreCancelled, Kept, TypeOK
<1>5. TerminalIsTrue' /\ ProvenMeansEnded'
  BY <1>1, <1>2, <1>b, AnswersKept
<1> QED
  BY <1>1, <1>2, <1>3, <1>4, <1>5

\* The closure a cancel took runs.
LEMMA CancelInterruptIndInv ==
  ASSUME IndInv, NEW c \in Clients, CancelInterrupt(c)
  PROVE  IndInv'
<1> USE RegFacts DEF IndInv, RegInv, SlotInv, ClientInv
<1>a. /\ UNCHANGED <<token, completion, slot, op, target, todo, matched, sub, gone, ans>>
      /\ UNCHANGED <<regVars, ownerVars>>
      /\ intr' = (IF taken[c] = NoReg THEN intr ELSE [intr EXCEPT ![taken[c]] = "run"])
      /\ taken' = [taken EXCEPT ![c] = NoReg]
      /\ pc' = [pc EXCEPT ![c] = After(c, NoReg, gone[c])]
      /\ ~ans[c].terminal
  BY DEF CancelInterrupt, Ran, TerminalIsTrue
<1>b. /\ pc'[c] \in {"loop", "wait", "complete"}
      /\ pc'[c] = "loop" => op[c] = "cancel"
      /\ \A d \in Clients \ {c} : pc'[d] = pc[d]
      /\ pc' \in [Clients -> {"idle", "cancel", "loop", "interrupt", "complete", "wait", "read", "answered"}]
  BY <1>a DEF TypeOK, After, Back
<1>1. TypeOK'
  BY <1>a, <1>b DEF TypeOK, regVars, ownerVars
<1>2. Kept
  BY <1>a DEF Kept, TypeOK, Used, Released, HeldAreTaken, CompletionHasCause, FreshIsFresh, regVars, ownerVars
<1>3. MapShrinks
  BY <1>a DEF MapShrinks, InMap, Released, regVars, ownerVars
<1>4. ClosuresLeave
  BY <1>a DEF ClosuresLeave, TypeOK, InMap, SlotsInTheMap, HeldAreTaken, regVars, ownerVars
<1>5. TokensHaveCause /\ CompletionsHaveCause
  BY <1>a DEF TokensHaveCause, CompletionsHaveCause, CompletionHasCause, TypeOK
<1>6. Ordinary
  BY <1>2, <1>3, <1>4, <1>5 DEF Ordinary
<1>7. RegInv' /\ SlotInv' /\ CompletionHasCause'
  BY <1>1, <1>6, OrdinaryRegInv, OrdinarySlotInv, OrdinaryCompletions
<1>8. Subscribed'
  BY <1>a, <1>b, <1>2 DEF Subscribed, Kept, TypeOK
<1>9. MatchedAreCancelled'
  BY <1>a, <1>2, SameIds DEF MatchedAreCancelled, Kept, TypeOK
<1>10. TerminalIsTrue' /\ ProvenMeansEnded'
  BY <1>a, <1>b, <1>2, AnswersKept
<1> QED
  BY <1>1, <1>7, <1>8, <1>9, <1>10

\* The watchers of a task that a cancel removed are told; it was untracked.
LEMMA CancelCompleteIndInv ==
  ASSUME IndInv, NEW c \in Clients, CancelComplete(c)
  PROVE  IndInv'
<1>c. \A q \in Regs : (q # gone[c] => completion'[q] = completion[q]) /\ (q = gone[c] => completion'[q])
  <2>1. completion' = [completion EXCEPT ![gone[c]] = TRUE] /\ completion \in [Regs -> BOOLEAN]
    BY DEF CancelComplete, IndInv, TypeOK
  <2> QED
    BY <2>1
<1> USE RegFacts DEF IndInv, RegInv, SlotInv, ClientInv
<1>a. /\ UNCHANGED <<token, slot, intr, op, target, todo, matched, sub, taken, ans>>
      /\ UNCHANGED <<regVars, ownerVars>>
      /\ completion' = [completion EXCEPT ![gone[c]] = TRUE]
      /\ gone' = [gone EXCEPT ![c] = NoReg]
      /\ pc' = [pc EXCEPT ![c] = Back(c)]
      /\ ~ans[c].terminal
  BY DEF CancelComplete, TerminalIsTrue
<1>b. /\ pc'[c] \in {"loop", "wait", "complete"}
      /\ pc'[c] = "loop" => op[c] = "cancel"
      /\ \A d \in Clients \ {c} : pc'[d] = pc[d]
      /\ pc' \in [Clients -> {"idle", "cancel", "loop", "interrupt", "complete", "wait", "read", "answered"}]
  BY <1>a DEF TypeOK, After, Back
<1>1. TypeOK'
  BY <1>a, <1>b DEF TypeOK, regVars, ownerVars
<1>2. Kept
  <2>a. PICK g \in Regs \cup {NoReg} : g = gone[c] /\ (g # NoReg => Used(g))
    BY DEF TypeOK, CompletionHasCause
  <2>b. \A q \in Regs : (q # g => completion'[q] = completion[q]) /\ (q = g => completion'[q])
    BY <1>c, <2>a
  <2>1. \A q \in Regs : /\ ~Used(q) => completion'[q] = completion[q]
                        /\ completion[q] => completion'[q]
    BY <2>a, <2>b DEF TypeOK
  <2> QED
    BY <1>a, <2>1 DEF Kept, Used, Released, regVars, ownerVars
<1>3. MapShrinks
  BY <1>a DEF MapShrinks, InMap, Released, regVars, ownerVars
<1>4. ClosuresLeave
  BY <1>a DEF ClosuresLeave, TypeOK, InMap, SlotsInTheMap, HeldAreTaken, regVars, ownerVars
<1>5. TokensHaveCause /\ CompletionsHaveCause
  BY <1>a DEF TokensHaveCause, CompletionsHaveCause, CompletionHasCause, TypeOK
<1>6. Ordinary
  BY <1>2, <1>3, <1>4, <1>5 DEF Ordinary
<1>7. RegInv' /\ SlotInv' /\ CompletionHasCause'
  BY <1>1, <1>6, OrdinaryRegInv, OrdinarySlotInv, OrdinaryCompletions
<1>8. Subscribed'
  <2>1. \A d \in Clients : sub[d] # NoReg => sub[d] \in Regs
    BY DEF TypeOK
  <2>2. \A d \in Clients : pc'[d] = pc[d] \/ (pc'[d] \notin {"cancel", "idle"} /\ (pc'[d] = "loop" => op[d] = "cancel"))
    BY <1>b
  <2> QED
    BY <1>a, <2>1, <2>2 DEF Subscribed, Used, regVars, ownerVars
<1>9. MatchedAreCancelled'
  BY <1>a, <1>2, SameIds DEF MatchedAreCancelled, Kept, TypeOK
<1>10. TerminalIsTrue' /\ ProvenMeansEnded'
  BY <1>a, <1>b, <1>2, AnswersKept
<1> QED
  BY <1>1, <1>7, <1>8, <1>9, <1>10

-----------------------------------------------------------------------------
\* The empty registry satisfies the invariant.
LEMMA InitIndInv == Init => IndInv
<1> SUFFICES ASSUME Init PROVE IndInv
  OBVIOUS
<1> USE RegFacts, MaxRegAssumption, NoIdAssumption DEF Init
<1>1. TypeOK
  BY DEF TypeOK, AllKinds, NoAnswer
<1>2. \A r \in Regs : ~(r <= count)
  BY DEF Regs
<1>3. RegInv
  BY <1>2 DEF RegInv, FreshIsFresh, MapHoldsTheLast, LeftForAReason, DisplacedEarlier, ProofIsOfTheLast, Used
<1>4. SlotInv
  BY DEF SlotInv, SlotsInTheMap, StoredInASlot, HeldAreTaken, DroppedAtRelease, CancelledIsInterrupted
<1>5. ClientInv
  BY DEF ClientInv, CompletionHasCause, Subscribed, MatchedAreCancelled, TerminalIsTrue, ProvenMeansEnded,
         NoAnswer
<1> QED
  BY <1>1, <1>3, <1>4, <1>5 DEF IndInv

\* Every step preserves it.
LEMMA NextIndInv == IndInv /\ [Next]_vars => IndInv'
<1> SUFFICES ASSUME IndInv, [Next]_vars PROVE IndInv'
  OBVIOUS
<1>1. CASE OwnerNext
  BY <1>1, RegisterIndInv, DisplaceCancelIndInv, DisplaceCompleteIndInv, DisplaceInterruptIndInv,
     EndStatementIndInv, RegisterInterruptIndInv, ReleaseIndInv, DetachIndInv, RemoveNotifyIndInv,
     ParentCancelIndInv, ExpireCompletedIndInv DEF OwnerNext
<1>2. CASE ClientNext
  BY <1>2, CancelMatchingIndInv, CancelNextIndInv, CancelReturnIndInv, CancelInterruptIndInv,
     CancelCompleteIndInv, SubscribeIndInv, CancelSubscribedIndInv, WaitCompletedIndInv,
     WaitTimeoutIndInv, ReadResultIndInv, ConsumeIndInv DEF ClientNext
<1>3. CASE UNCHANGED vars
  <2>1. UNCHANGED <<regVars, taskVars, ownerVars, taken, gone>> /\ UNCHANGED clientVars
    BY <1>3 DEF vars, clientVars
  <2>2. TypeOK'
    BY <2>1 DEF IndInv, TypeOK, regVars, taskVars, ownerVars, clientVars
  <2> QED
    BY <2>1, <2>2, ClientFrame, OrdinaryRegInv, OrdinarySlotInv, OrdinaryClientInv DEF IndInv
<1> QED
  BY <1>1, <1>2, <1>3 DEF Next

\* The inductive invariant holds in every reachable state.
THEOREM Invariance == Spec => []IndInv
  BY InitIndInv, NextIndInv, PTL DEF Spec

\* cancel_and_wait and wait_for_completion tell the caller "terminal" of a
\* tracked execution only once its owner has released it, however many cancel,
\* wait and register at the same time, unless the id was used again.
THEOREM TerminalAnswersAreTrue == Spec => []TerminalMeansReleased
<1>1. IndInv => TerminalMeansReleased
  BY DEF IndInv, ClientInv, TerminalIsTrue, TerminalMeansReleased
<1> QED
  BY <1>1, Invariance, PTL

\* database_terminal in an answer means that the statement the caller waited for
\* has ended at the database.
THEOREM ProvenAnswersAreTrue == Spec => []ProvenMeansEnded
<1>1. IndInv => ProvenMeansEnded
  BY DEF IndInv, ClientInv
<1> QED
  BY <1>1, Invariance, PTL

\* A stored interrupt lies in a task of the map, where a cancel finds it, and a
\* tracked execution stays in the map until it is released or displaced.
THEOREM NothingOutOfReach == Spec => []StoredInterruptReachable
<1>1. IndInv => StoredInterruptReachable
  BY DEF IndInv, RegInv, SlotInv, LeftForAReason, StoredInASlot, StoredInterruptReachable, Used
<1> QED
  BY <1>1, Invariance, PTL

\* A cancel takes hold of what it matched, and of the interrupt of what it
\* cancelled.
THEOREM CancelsTakeHold == Spec => []CancelReachesInterrupt
<1>1. IndInv => CancelReachesInterrupt
  BY DEF IndInv, ClientInv, SlotInv, MatchedAreCancelled, CancelledIsInterrupted, CancelReachesInterrupt
<1> QED
  BY <1>1, Invariance, PTL

\* No stale guard, timer or cancel takes a task out of the map that is not its
\* own: an entry leaves by its owner's release, a replacement or a cancel.
THEOREM EntriesLeaveByOwnHand == Spec => EntryLeavesByOwnHand
<1> DEFINE Own == \A e \in Ids :
                    inner[e] # NoReg /\ inner'[e] # inner[e] =>
                      \/ phase'[inner[e]] = "notify"
                      \/ inner'[e] > inner[e]
                      \/ inner'[e] = NoReg /\ token'[inner[e]]
<1>1. IndInv /\ [Next]_vars => [Own]_vars
  <2> SUFFICES ASSUME IndInv, Next PROVE Own
    OBVIOUS
  <2> USE RegFacts DEF IndInv, TypeOK
  <2>1. CASE UNCHANGED inner
    BY <2>1
  <2>2. ASSUME NEW e \in Ids, NEW k \in Kinds, Register(e, k) PROVE Own
    <3>1. inner[e] # NoReg => inner[e] \in Regs /\ inner[e] <= count
      BY DEF RegInv, FreshIsFresh, MapHoldsTheLast
    <3> QED
      BY <2>2, <3>1 DEF Register
  <2>3. ASSUME NEW r \in Regs, NEW proven \in BOOLEAN, Remove(r, proven), id[r] \in Ids PROVE Own
    BY <2>3 DEF Remove
  <2>4. ASSUME NEW r \in Regs, FinishWithDatabaseResult(r) \/ DropGuard(r) \/ Reclaim(r) PROVE Own
    <3>1. id[r] \in Ids
      BY <2>4 DEF RegInv, FreshIsFresh, Used, FinishWithDatabaseResult, DropGuard, Reclaim
    <3> QED
      BY <2>3, <2>4, <3>1 DEF FinishWithDatabaseResult, DropGuard, Reclaim
  <2>5. ASSUME NEW c \in Clients, NEW e \in Ids, inner[e] # NoReg, CancelLocked(c, e) PROVE Own
    BY <2>5 DEF CancelLocked
  <2>6. ASSUME NEW c \in Clients, CancelNext(c) \/ CancelSubscribed(c) PROVE Own
    <3>1. CASE CancelNext(c)
      BY <2>5, <3>1 DEF CancelNext
    <3>2. CASE CancelSubscribed(c)
      BY <2>5, <3>2 DEF CancelSubscribed, ClientInv, Subscribed
    <3> QED
      BY <2>6, <3>1, <3>2
  <2>7. CASE OwnerNext
    BY <2>1, <2>2, <2>4, <2>7 DEF OwnerNext, DisplaceCancel, DisplaceComplete, DisplaceInterrupt,
       EndStatement, RegisterInterrupt, Detach, RemoveNotify, ParentCancel, ExpireCompleted, regVars
  <2>8. CASE ClientNext
    BY <2>1, <2>6, <2>8 DEF ClientNext, CancelMatching, CancelReturn, CancelInterrupt, CancelComplete,
       Subscribe, WaitCompleted, WaitTimeout, ReadResult, Consume, regVars
  <2> QED
    BY <2>7, <2>8 DEF Next
<1> QED
  BY <1>1, Invariance, PTL DEF Spec, EntryLeavesByOwnHand
=============================================================================
