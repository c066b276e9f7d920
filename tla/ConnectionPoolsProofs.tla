----------------------- MODULE ConnectionPoolsProofs -----------------------
(***************************************************************************)
(* Proofs about the pools of one key, for any number of workers, pools,    *)
(* publications, keepalive tasks and operations.                           *)
(***************************************************************************)
EXTENDS ConnectionPools, TLAPS

\* Where a worker has a pool of its own.  A worker that closes may have none.
Holding == {"recheck", "check", "pubwait", "publish", "finish", "clear", "forget", "disconnecting", "restore"}

\* Where a reclamation may be.
Reclaiming == {"halted", "take", "restart", "forget", "disconnecting", "restore", "closing"}

\* Where the shutdown is, once the supervisor accepts no tasks.
Refusing == {"takeTasks", "join", "joined", "down", "cutOff"}

\* Where the shutdown may have a pool that it has removed.
Removing == {"refuse", "takeTasks", "join", "joined"}

\* Where a request checks the pool that it has found.
Checking == {"validate", "probe", "removeStale"}

\* What the fields of a worker say about each other.
WorkerOK(r) ==
  /\ r.mine # 0 => r.pc \in Holding \cup Removing \cup {"closing"}
  /\ r.pc \in Holding => r.mine # 0
  /\ r.then \in {"idle", "connect", "touch", "wait1", "ready"} /\ (r.pc = "idle" => r.then = "idle")
  /\ r.pc \in Checking => r.then \in {"touch", "connect"}
  /\ r.op = "reclaim" => r.pc \in Reclaiming /\ r.then = "idle"
  /\ r.op = "shutdown" => r.pc \in Refusing \cup {"strip", "unroute", "refuse"}
  /\ r.pc \in Refusing \cup {"refuse"} => r.op = "shutdown"
  /\ r.pc \in {"halted", "join", "cutOff"} => r.checked \in 0..MaxTasks
  /\ r.pc = "probe" => r.handle # 0

WorkersOK == \A w \in Workers : WorkerOK(me[w])

\* A connected pool has an owner ...
OpenIsOwned ==
  \A p \in Pools : life[p] = "open" =>
    \/ \E w \in Workers : me[w].mine = p
    \/ \E t \in Tasks : taken[t] = p
    \/ route = p
    \/ p \in bg

\* ... who owns nothing else ...
OwnedIsOpen ==
  /\ \A w \in Workers : me[w].mine # 0 => life[me[w].mine] = "open"
  /\ \A t \in Tasks : taken[t] # 0 => life[taken[t]] = "open"
  /\ route # 0 => life[route] = "open"
  /\ \A p \in bg : life[p] = "open"

\* ... and shares it with nobody.
Apart ==
  /\ \A w, v \in Workers : me[w].mine # 0 /\ me[w].mine = me[v].mine => w = v
  /\ \A t, u \in Tasks : taken[t] # 0 /\ taken[t] = taken[u] => t = u
  /\ \A w \in Workers, t \in Tasks : me[w].mine # 0 => me[w].mine # taken[t]
  /\ \A w \in Workers : me[w].mine # 0 => me[w].mine # route /\ me[w].mine \notin bg
  /\ \A t \in Tasks : taken[t] # 0 => taken[t] # route /\ taken[t] \notin bg
  /\ route \notin bg

OwnersOK == OpenIsOwned /\ OwnedIsOpen /\ Apart

\* A pool that does not work any more.
Dead(p) == p \in broken \/ life[p] # "open"

\* A keepalive task holds a pool exactly between detaching and closing it, probes a pool
\* that was connected, and has given up only one that is dead.
KeepaliveOK ==
  \A t \in Tasks :
    /\ taken[t] # 0 <=> ka[t] \in {"removed", "clearing"}
    /\ ka[t] # "none" => target[t] # 0 /\ life[target[t]] # "unborn"
    /\ ka[t] = "failed" => Dead(target[t])

\* There is one shutdown, and what it has done lasts.
ShutdownOK ==
  /\ \A w, v \in Workers : me[w].op = "shutdown" /\ me[v].op = "shutdown" => w = v
  /\ \A w \in Workers :
       /\ me[w].pc \in Refusing => ~accepting
       /\ me[w].pc \in {"join", "joined", "down", "cutOff"} => task = 0
       /\ me[w].pc \in {"joined", "down"} => bg = {}

\* Keepalive task t runs.
Live(t) == ka[t] \notin {"none", "ended"}

\* A keepalive task that runs is registered, aborted, or awaited by the shutdown, which
\* may have been cut off.
LiveIsKnown ==
  \A t \in Tasks : Live(t) =>
    t = task \/ t \in aborted \/ \E w \in Workers : me[w].pc \in {"join", "cutOff"} /\ me[w].checked = t

\* As long as nothing has been published since a health check began, the routed pool is
\* the one it checks, and after the check a broken one.
ProbeOK(w) ==
  me[w].pc \in {"probe", "removeStale"} =>
    /\ me[w].checked <= publication
    /\ me[w].checked = publication /\ route # 0 =>
         /\ me[w].pc = "probe" => me[w].handle = route
         /\ me[w].pc = "removeStale" => route \in broken

ProbesOK == \A w \in Workers : ProbeOK(w)

\* The inductive invariant.
IndInv ==
  /\ TypeOK /\ WorkersOK /\ OwnersOK /\ KeepaliveOK
  /\ ShutdownOK /\ LiveIsKnown /\ WaitersHaveWakers /\ ProbesOK

-----------------------------------------------------------------------------
\* Nothing is connected, nothing runs and nobody waits.
LEMMA InitIndInv == Init => IndInv
<1> SUFFICES ASSUME Init PROVE IndInv
  OBVIOUS
<1>1. Idle \in Worker /\ WorkerOK(Idle)
  BY ConstantsAssumption
  DEF Idle, Worker, Places, AllOps, WorkerOK, Holding, Reclaiming, Refusing, Removing, Checking
<1>2. TypeOK
  <2>1. 0 \in 0..MaxPools /\ 0 \in 0..MaxPub /\ 0 \in 0..MaxTasks /\ 0 \in 0..MaxOps
    BY ConstantsAssumption
  <2>2. me \in [Workers -> Worker]
    BY <1>1 DEF Init
  <2> QED
    BY <2>1, <2>2 DEF Init, TypeOK
<1>3. \A w \in Workers : me[w] = Idle
  BY DEF Init
<1>4. WorkersOK
  BY <1>1, <1>3 DEF WorkersOK
<1>5. \A w \in Workers : me[w].mine = 0 /\ me[w].pc = "idle" /\ me[w].op = "get"
  BY <1>3 DEF Idle
<1>6. OwnersOK
  BY <1>5 DEF Init, OwnersOK, OpenIsOwned, OwnedIsOpen, Apart, Pools
<1>7. KeepaliveOK /\ LiveIsKnown
  BY DEF Init, KeepaliveOK, LiveIsKnown, Live
<1>8. ShutdownOK /\ WaitersHaveWakers /\ ProbesOK
  BY <1>5 DEF Init, ShutdownOK, WaitersHaveWakers, ProbesOK, ProbeOK, Refusing, At
<1> QED
  BY <1>2, <1>4, <1>6, <1>7, <1>8 DEF IndInv

-----------------------------------------------------------------------------
(* How the steps change the workers.                                       *)

\* Only worker w does anything.
Moves(w) == me' \in [Workers -> Worker] /\ \A v \in Workers \ {w} : me'[v] = me[v]

\* Worker w keeps everything but its place and the pool it owns.
Keeps(w) ==
  /\ me'[w].op = me[w].op /\ me'[w].then = me[w].then
  /\ me'[w].handle = me[w].handle /\ me'[w].checked = me[w].checked

\* The worker is at place, or idle with nothing remembered.
LEMMA GotoFacts ==
  ASSUME TypeOK, NEW w \in Workers, NEW place \in Places, Goto(w, place)
  PROVE  /\ Moves(w) /\ me'[w].pc = place
         /\ place # "idle" => Keeps(w) /\ me'[w].mine = me[w].mine
         /\ place = "idle" => me'[w] = Idle
<1> DEFINE r == IF place = "idle" THEN Idle ELSE [me[w] EXCEPT !.pc = place]
<1>1. me[w] \in Worker /\ me \in [Workers -> Worker]
  BY DEF TypeOK
<1>2. Idle \in Worker /\ Idle.pc = "idle"
  BY ConstantsAssumption DEF Idle, Worker, Places, AllOps
<1>3. r \in Worker /\ r.pc = place
  BY <1>1, <1>2 DEF Worker
<1>4. place # "idle" => /\ r.op = me[w].op /\ r.then = me[w].then /\ r.mine = me[w].mine
                        /\ r.handle = me[w].handle /\ r.checked = me[w].checked
  BY <1>1 DEF Worker
<1>5. me' = [me EXCEPT ![w] = r]
  BY DEF Goto
<1> HIDE DEF r
<1>6. me'[w] = r /\ Moves(w)
  BY <1>1, <1>3, <1>5 DEF Moves
<1>7. place = "idle" => r = Idle
  BY DEF r
<1> QED
  BY <1>3, <1>4, <1>6, <1>7 DEF Keeps

\* The worker is at place and owns p.
LEMMA HoldFacts ==
  ASSUME TypeOK, NEW w \in Workers, NEW place \in Places, NEW p \in 0..MaxPools, Hold(w, p, place)
  PROVE  Moves(w) /\ Keeps(w) /\ me'[w].pc = place /\ me'[w].mine = p
<1> DEFINE r == [me[w] EXCEPT !.mine = p, !.pc = place]
<1>1. me[w] \in Worker /\ me \in [Workers -> Worker]
  BY DEF TypeOK
<1>2. /\ r \in Worker /\ r.pc = place /\ r.mine = p
      /\ r.op = me[w].op /\ r.then = me[w].then
      /\ r.handle = me[w].handle /\ r.checked = me[w].checked
  BY <1>1 DEF Worker
<1>3. me' = [me EXCEPT ![w] = r]
  BY <1>1 DEF Hold
<1> HIDE DEF r
<1> QED
  BY <1>1, <1>2, <1>3 DEF Moves, Keeps

\* The worker owns p, which it closes before it goes on.
LEMMA CloseThenFacts ==
  ASSUME TypeOK, NEW w \in Workers, NEW place \in Places, NEW p \in 0..MaxPools, CloseThen(w, p, place)
  PROVE  /\ Moves(w) /\ me'[w].pc = "closing" /\ me'[w].mine = p /\ me'[w].then = place
         /\ me'[w].op = me[w].op /\ me'[w].handle = me[w].handle
<1> DEFINE r == [me[w] EXCEPT !.mine = p, !.then = place, !.checked = 0, !.pc = "closing"]
<1>1. /\ me[w] \in Worker /\ me \in [Workers -> Worker] /\ "closing" \in Places
      /\ 0 \in 0..(1 + MaxPub + MaxTasks)
  BY ConstantsAssumption DEF TypeOK, Places
<1>2. /\ r \in Worker /\ r.pc = "closing" /\ r.mine = p /\ r.then = place
      /\ r.op = me[w].op /\ r.handle = me[w].handle
  BY <1>1 DEF Worker
<1>3. me' = [me EXCEPT ![w] = r]
  BY <1>1 DEF CloseThen
<1> HIDE DEF r
<1> QED
  BY <1>1, <1>2, <1>3 DEF Moves

\* What the idle worker is.
LEMMA IdleFacts ==
  /\ Idle \in Worker /\ WorkerOK(Idle)
  /\ Idle.pc = "idle" /\ Idle.mine = 0 /\ Idle.op = "get" /\ Idle.then = "idle" /\ Idle.handle = 0
  BY ConstantsAssumption DEF Idle, Worker, Places, AllOps, WorkerOK, Holding, Reclaiming, Refusing, Removing, Checking

\* The numbers of pools and tasks, and what the variables hold of them.
LEMMA Numbers ==
  /\ 0 \notin Pools /\ 0 \notin Tasks
  /\ Pools \subseteq 0..MaxPools /\ Tasks \subseteq 0..MaxTasks
  /\ \A q \in 0..MaxPools : q # 0 => q \in Pools
  /\ \A q \in 0..MaxTasks : q # 0 => q \in Tasks
  BY ConstantsAssumption DEF Pools, Tasks

\* What the type invariant says of the owners.
LEMMA OwnersTyped ==
  ASSUME TypeOK
  PROVE  /\ \A v \in Workers : me[v].mine \in 0..MaxPools
         /\ route \in 0..MaxPools /\ bg \subseteq Pools
         /\ \A t \in Tasks : taken[t] \in 0..MaxPools
  BY DEF TypeOK, Worker

-----------------------------------------------------------------------------
(* What each part of the invariant needs of a step.                        *)

\* The others are as they were, and so is what the mover says about itself.
LEMMA WorkersStay ==
  ASSUME WorkersOK, NEW w \in Workers, Moves(w), WorkerOK(me'[w])
  PROVE  WorkersOK'
  BY DEF WorkersOK, Moves

\* Nobody takes or gives a pool.
LEMMA OwnersStay ==
  ASSUME OwnersOK, UNCHANGED <<life, route, taken, bg>>, \A v \in Workers : me'[v].mine = me[v].mine
  PROVE  OwnersOK'
<1>1. OpenIsOwned'
  BY DEF OwnersOK, OpenIsOwned
<1>2. OwnedIsOpen'
  BY DEF OwnersOK, OwnedIsOpen
<1>3. Apart'
  BY DEF OwnersOK, Apart
<1> QED
  BY <1>1, <1>2, <1>3 DEF OwnersOK

\* A worker without a pool connects one.
LEMMA OwnersConnect ==
  ASSUME OwnersOK, TypeOK, NEW w \in Workers, Moves(w), NEW p \in Pools,
         me[w].mine = 0, me'[w].mine = p, life[p] = "unborn",
         life'[p] = "open", \A q \in Pools \ {p} : life'[q] = life[q],
         UNCHANGED <<route, taken, bg>>
  PROVE  OwnersOK'
<1>1. /\ \A v \in Workers \ {w} : me'[v].mine = me[v].mine
      /\ \A v \in Workers : me[v].mine \in 0..MaxPools
      /\ route \in 0..MaxPools /\ \A t \in Tasks : taken[t] \in 0..MaxPools
      /\ bg \subseteq Pools /\ p # 0 /\ \A q \in 0..MaxPools : q # 0 => q \in Pools
  BY Numbers, OwnersTyped DEF Moves
<1>2. /\ \A v \in Workers : me[v].mine # p
      /\ \A t \in Tasks : taken[t] # p
      /\ route # p /\ p \notin bg
  BY <1>1 DEF OwnersOK, OwnedIsOpen
<1>3. OpenIsOwned'
  <2> SUFFICES ASSUME NEW q \in Pools, life'[q] = "open"
               PROVE  \/ \E v \in Workers : me'[v].mine = q
                      \/ \E t \in Tasks : taken[t] = q
                      \/ route = q
                      \/ q \in bg
    BY DEF OpenIsOwned
  <2>1. CASE q = p
    BY <2>1
  <2>2. CASE q # p
    <3>1. \/ \E v \in Workers : me[v].mine = q
          \/ \E t \in Tasks : taken[t] = q
          \/ route = q
          \/ q \in bg
      BY <2>2 DEF OwnersOK, OpenIsOwned
    <3> QED
      BY <1>1, <3>1, Numbers
  <2> QED
    BY <2>1, <2>2
<1>4. OwnedIsOpen'
  BY <1>1, <1>2 DEF OwnersOK, OwnedIsOpen
<1>5. Apart'
  BY <1>1, <1>2 DEF OwnersOK, Apart
<1> QED
  BY <1>3, <1>4, <1>5 DEF OwnersOK

\* A worker and the registry exchange what they have.
LEMMA OwnersSwap ==
  ASSUME OwnersOK, TypeOK, NEW w \in Workers, Moves(w),
         me'[w].mine = route, route' = me[w].mine, UNCHANGED <<life, taken, bg>>
  PROVE  OwnersOK'
<1>1. /\ \A v \in Workers \ {w} : me'[v].mine = me[v].mine
      /\ \A v \in Workers : me[v].mine \in 0..MaxPools
      /\ route \in 0..MaxPools /\ bg \subseteq Pools /\ 0 \notin Pools
  BY Numbers, OwnersTyped DEF Moves
<1>2. OpenIsOwned'
  <2> SUFFICES ASSUME NEW p \in Pools, life[p] = "open"
               PROVE  \/ \E v \in Workers : me'[v].mine = p
                      \/ \E t \in Tasks : taken[t] = p
                      \/ route' = p
                      \/ p \in bg
    BY DEF OpenIsOwned
  <2>1. \/ \E v \in Workers : me[v].mine = p
        \/ \E t \in Tasks : taken[t] = p
        \/ route = p
        \/ p \in bg
    BY DEF OwnersOK, OpenIsOwned
  <2> QED
    BY <1>1, <2>1
<1>3. OwnedIsOpen'
  BY <1>1 DEF OwnersOK, OwnedIsOpen
<1>4. Apart'
  BY <1>1 DEF OwnersOK, Apart
<1> QED
  BY <1>2, <1>3, <1>4 DEF OwnersOK

\* The pools S are no longer open, the others are as they were.
Gone(S) ==
  /\ \A p \in Pools : p \in S => life'[p] \in {"closed", "dropped"}
  /\ \A p \in Pools : p \notin S => life'[p] = life[p]

\* The pools S are handed to a close task, or are no longer open.
GivenUp(S) == (bg' = bg \cup S /\ life' = life) \/ (bg' = bg /\ Gone(S))

\* A worker gives its pool up.
LEMMA OwnersWorkerGives ==
  ASSUME OwnersOK, TypeOK, NEW w \in Workers, Moves(w),
         me'[w].mine = 0, GivenUp({me[w].mine} \ {0}), UNCHANGED <<route, taken>>
  PROVE  OwnersOK'
<1> DEFINE m == me[w].mine
<1>1. /\ \A v \in Workers \ {w} : me'[v].mine = me[v].mine
      /\ \A v \in Workers : me[v].mine \in 0..MaxPools
      /\ route \in 0..MaxPools /\ \A t \in Tasks : taken[t] \in 0..MaxPools
      /\ bg \subseteq Pools /\ 0 \notin Pools /\ \A q \in 0..MaxPools : q # 0 => q \in Pools
  BY Numbers, OwnersTyped DEF Moves
<1>2. m # 0 => /\ \A v \in Workers \ {w} : me[v].mine # m
               /\ \A t \in Tasks : taken[t] # m
               /\ route # m /\ m \notin bg
  BY DEF OwnersOK, Apart
<1>3. OpenIsOwned'
  <2> SUFFICES ASSUME NEW p \in Pools, life'[p] = "open"
               PROVE  \/ \E v \in Workers : me'[v].mine = p
                      \/ \E t \in Tasks : taken[t] = p
                      \/ route = p
                      \/ p \in bg'
    BY DEF OpenIsOwned
  <2>1. life[p] = "open" /\ (p = m => p \in bg') /\ (p \in bg => p \in bg')
    BY DEF GivenUp, Gone, Pools
  <2>2. \/ \E v \in Workers : me[v].mine = p
        \/ \E t \in Tasks : taken[t] = p
        \/ route = p
        \/ p \in bg
    BY <2>1 DEF OwnersOK, OpenIsOwned
  <2> QED
    BY <1>1, <2>1, <2>2
<1>4. OwnedIsOpen'
  BY <1>1, <1>2 DEF OwnersOK, OwnedIsOpen, GivenUp, Gone
<1>5. Apart'
  BY <1>1, <1>2 DEF OwnersOK, Apart, GivenUp
<1> QED
  BY <1>3, <1>4, <1>5 DEF OwnersOK

\* A keepalive task gives the pool up that it has detached.
LEMMA OwnersTaskGives ==
  ASSUME OwnersOK, TypeOK, NEW t \in Tasks, taken' = [taken EXCEPT ![t] = 0],
         GivenUp({taken[t]} \ {0}), UNCHANGED <<route, me>>
  PROVE  OwnersOK'
<1> DEFINE m == taken[t]
<1>1. /\ taken'[t] = 0 /\ \A u \in Tasks \ {t} : taken'[u] = taken[u]
      /\ \A v \in Workers : me[v].mine \in 0..MaxPools
      /\ route \in 0..MaxPools /\ \A u \in Tasks : taken[u] \in 0..MaxPools
      /\ bg \subseteq Pools /\ 0 \notin Pools /\ \A q \in 0..MaxPools : q # 0 => q \in Pools
  BY Numbers, OwnersTyped DEF TypeOK
<1>2. m # 0 => /\ \A v \in Workers : me[v].mine # m
               /\ \A u \in Tasks \ {t} : taken[u] # m
               /\ route # m /\ m \notin bg
  BY DEF OwnersOK, Apart
<1>3. OpenIsOwned'
  <2> SUFFICES ASSUME NEW p \in Pools, life'[p] = "open"
               PROVE  \/ \E v \in Workers : me[v].mine = p
                      \/ \E u \in Tasks : taken'[u] = p
                      \/ route = p
                      \/ p \in bg'
    BY DEF OpenIsOwned
  <2>1. life[p] = "open" /\ (p = m => p \in bg') /\ (p \in bg => p \in bg')
    BY DEF GivenUp, Gone, Pools
  <2>2. \/ \E v \in Workers : me[v].mine = p
        \/ \E u \in Tasks : taken[u] = p
        \/ route = p
        \/ p \in bg
    BY <2>1 DEF OwnersOK, OpenIsOwned
  <2> QED
    BY <1>1, <2>1, <2>2
<1>4. OwnedIsOpen'
  BY <1>1, <1>2 DEF OwnersOK, OwnedIsOpen, GivenUp, Gone
<1>5. Apart'
  BY <1>1, <1>2 DEF OwnersOK, Apart, GivenUp
<1> QED
  BY <1>3, <1>4, <1>5 DEF OwnersOK

\* The registry gives its pool up.
LEMMA OwnersRouteGives ==
  ASSUME OwnersOK, TypeOK, \A v \in Workers : me'[v].mine = me[v].mine,
         route' = 0, GivenUp({route} \ {0}), UNCHANGED taken
  PROVE  OwnersOK'
<1>1. /\ \A v \in Workers : me[v].mine \in 0..MaxPools
      /\ route \in 0..MaxPools /\ \A t \in Tasks : taken[t] \in 0..MaxPools
      /\ bg \subseteq Pools /\ 0 \notin Pools /\ \A q \in 0..MaxPools : q # 0 => q \in Pools
  BY Numbers, OwnersTyped DEF TypeOK
<1>2. route # 0 => /\ \A v \in Workers : me[v].mine # route
                   /\ \A t \in Tasks : taken[t] # route
                   /\ route \notin bg
  BY DEF OwnersOK, Apart
<1>3. OpenIsOwned'
  <2> SUFFICES ASSUME NEW p \in Pools, life'[p] = "open"
               PROVE  \/ \E v \in Workers : me[v].mine = p
                      \/ \E t \in Tasks : taken[t] = p
                      \/ p \in bg'
    BY DEF OpenIsOwned
  <2>1. life[p] = "open" /\ (p = route => p \in bg') /\ (p \in bg => p \in bg')
    BY DEF GivenUp, Gone, Pools
  <2>2. \/ \E v \in Workers : me[v].mine = p
        \/ \E t \in Tasks : taken[t] = p
        \/ route = p
        \/ p \in bg
    BY <2>1 DEF OwnersOK, OpenIsOwned
  <2> QED
    BY <2>1, <2>2
<1>4. OwnedIsOpen'
  BY <1>1, <1>2 DEF OwnersOK, OwnedIsOpen, GivenUp, Gone
<1>5. Apart'
  BY <1>1, <1>2 DEF OwnersOK, Apart, GivenUp
<1> QED
  BY <1>3, <1>4, <1>5 DEF OwnersOK

\* A keepalive task detaches the routed pool.
LEMMA OwnersTaskTakes ==
  ASSUME OwnersOK, TypeOK, NEW t \in Tasks, taken[t] = 0, taken' = [taken EXCEPT ![t] = route],
         route' = 0, UNCHANGED <<life, bg, me>>
  PROVE  OwnersOK'
<1>1. /\ taken'[t] = route /\ \A u \in Tasks \ {t} : taken'[u] = taken[u]
      /\ \A v \in Workers : me[v].mine \in 0..MaxPools
      /\ bg \subseteq Pools /\ 0 \notin Pools
  BY Numbers, OwnersTyped DEF TypeOK
<1>2. OpenIsOwned'
  <2> SUFFICES ASSUME NEW p \in Pools, life[p] = "open"
               PROVE  \/ \E v \in Workers : me[v].mine = p
                      \/ \E u \in Tasks : taken'[u] = p
                      \/ p \in bg
    BY DEF OpenIsOwned
  <2>1. \/ \E v \in Workers : me[v].mine = p
        \/ \E u \in Tasks : taken[u] = p
        \/ route = p
        \/ p \in bg
    BY DEF OwnersOK, OpenIsOwned
  <2> QED
    BY <1>1, <2>1 DEF Pools
<1>3. OwnedIsOpen'
  BY <1>1 DEF OwnersOK, OwnedIsOpen
<1>4. Apart'
  BY <1>1 DEF OwnersOK, Apart
<1> QED
  BY <1>2, <1>3, <1>4 DEF OwnersOK

\* Close tasks end.
LEMMA OwnersTasksClose ==
  ASSUME OwnersOK, TypeOK, NEW S, S \subseteq bg, bg' = bg \ S, Gone(S),
         \A v \in Workers : me'[v].mine = me[v].mine, UNCHANGED <<route, taken>>
  PROVE  OwnersOK'
<1>1. /\ \A v \in Workers : me[v].mine \in 0..MaxPools
      /\ route \in 0..MaxPools /\ \A t \in Tasks : taken[t] \in 0..MaxPools
      /\ bg \subseteq Pools /\ 0 \notin Pools /\ \A q \in 0..MaxPools : q # 0 => q \in Pools
  BY Numbers, OwnersTyped DEF TypeOK
<1>2. OpenIsOwned'
  BY <1>1 DEF OwnersOK, OpenIsOwned, Gone
<1>3. OwnedIsOpen'
  BY <1>1 DEF OwnersOK, OwnedIsOpen, Apart, Gone
<1>4. Apart'
  BY <1>1 DEF OwnersOK, Apart
<1> QED
  BY <1>2, <1>3, <1>4 DEF OwnersOK

\* No connected pool becomes unborn, and no dead one comes to life.
LifeGoesOn ==
  \A p \in Pools : life[p] # "unborn" => life'[p] # "unborn" /\ (Dead(p) => Dead(p)')

\* The keepalive tasks do nothing.
LEMMA KeepaliveStays ==
  ASSUME TypeOK, KeepaliveOK, LifeGoesOn, UNCHANGED <<taken, ka, target>>
  PROVE  KeepaliveOK'
<1> SUFFICES ASSUME NEW t \in Tasks
             PROVE  /\ taken[t] # 0 <=> ka[t] \in {"removed", "clearing"}
                    /\ ka[t] # "none" => target[t] # 0 /\ life'[target[t]] # "unborn"
                    /\ ka[t] = "failed" => Dead(target[t])'
  BY DEF KeepaliveOK
<1>1. /\ taken[t] # 0 <=> ka[t] \in {"removed", "clearing"}
      /\ ka[t] # "none" => target[t] # 0 /\ life[target[t]] # "unborn"
      /\ ka[t] = "failed" => Dead(target[t])
  BY DEF KeepaliveOK
<1>2. target[t] # 0 => target[t] \in Pools
  BY Numbers DEF TypeOK
<1> QED
  BY <1>1, <1>2 DEF LifeGoesOn, Dead

\* What is asked of the keepalive tasks: an ended one stays so, an aborted one stays so
\* until it ends, and one that is taken out of the supervisor is aborted.
TasksGoOn ==
  \A t \in Tasks :
    /\ ka[t] = "ended" => ka'[t] = "ended"
    /\ t \in aborted => t \in aborted' \/ ka'[t] = "ended"
    /\ t = task => t = task' \/ t \in aborted' \/ ka'[t] = "ended"
    /\ Live(t)' => Live(t) \/ t = task'

\* Nothing happens to the tasks.
LEMMA TasksStay ==
  ASSUME UNCHANGED <<ka, task, aborted>>
  PROVE  TasksGoOn
  BY DEF TasksGoOn, Live

\* TaskSupervisor::stop aborts what it takes out.
LEMMA StopFacts ==
  ASSUME TypeOK, StopKeepalive, UNCHANGED ka
  PROVE  TasksGoOn /\ aborted' \subseteq Tasks /\ task' \in 0..MaxTasks
<1>1. aborted' = aborted \cup {t \in {task} \ {0} : ka[t] # "ended"} /\ task' = 0
  BY DEF StopKeepalive, AbortKeepalive
<1>2. aborted \subseteq Tasks /\ task \in 0..MaxTasks /\ 0 \in 0..MaxTasks
  BY ConstantsAssumption DEF TypeOK
<1> QED
  BY <1>1, <1>2, Numbers DEF TasksGoOn, Live

\* A keepalive task for a connected pool is spawned, or the old one only stopped.
LEMMA SpawnFacts ==
  ASSUME TypeOK, KeepaliveOK, NEW p \in Pools, life[p] = "open", SpawnKeepalive(p),
         UNCHANGED <<life, broken, taken>>
  PROVE  /\ KeepaliveOK' /\ TasksGoOn
         /\ aborted' \subseteq Tasks /\ task' \in 0..MaxTasks
         /\ ka' \in [Tasks -> {"none", "loop", "failed", "removed", "clearing", "ended"}]
         /\ target' \in [Tasks -> 0..MaxPools]
         /\ ~accepting => task' = 0
<1>1. aborted' = aborted \cup {t \in {task} \ {0} : ka[t] # "ended"}
  BY DEF SpawnKeepalive, AbortKeepalive
<1>2. aborted \subseteq Tasks /\ task \in 0..MaxTasks /\ 0 \in 0..MaxTasks /\ p \in 0..MaxPools
  BY ConstantsAssumption, Numbers DEF TypeOK
<1>3. aborted' \subseteq Tasks
  BY <1>1, <1>2, Numbers
<1>4. \A t \in Tasks : /\ t \in aborted => t \in aborted'
                       /\ t = task => t \in aborted' \/ ka[t] = "ended"
  BY <1>1, Numbers
<1>5. CASE accepting
  <2>1. PICK t \in Tasks : /\ ka[t] = "none"
                           /\ ka' = [ka EXCEPT ![t] = "loop"]
                           /\ target' = [target EXCEPT ![t] = p]
                           /\ task' = t
    BY <1>5 DEF SpawnKeepalive, NewKeepalive
  <2>2. /\ ka'[t] = "loop" /\ target'[t] = p
        /\ \A u \in Tasks \ {t} : ka'[u] = ka[u] /\ target'[u] = target[u]
    BY <2>1 DEF TypeOK
  <2>3. /\ ka' \in [Tasks -> {"none", "loop", "failed", "removed", "clearing", "ended"}]
        /\ target' \in [Tasks -> 0..MaxPools] /\ task' \in 0..MaxTasks
    BY <1>2, <2>1, Numbers DEF TypeOK
  <2>4. TasksGoOn
    BY <1>4, <2>1, <2>2 DEF TasksGoOn, Live
  <2>5. KeepaliveOK'
    <3> SUFFICES ASSUME NEW u \in Tasks
                 PROVE  /\ taken[u] # 0 <=> ka'[u] \in {"removed", "clearing"}
                        /\ ka'[u] # "none" => target'[u] # 0 /\ life[target'[u]] # "unborn"
                        /\ ka'[u] = "failed" => Dead(target'[u])
      BY DEF KeepaliveOK, Dead
    <3>1. CASE u = t
      BY <2>1, <2>2, <3>1, Numbers DEF KeepaliveOK
    <3>2. CASE u # t
      BY <2>2, <3>2 DEF KeepaliveOK
    <3> QED
      BY <3>1, <3>2
  <2> QED
    BY <1>3, <1>5, <2>3, <2>4, <2>5
<1>6. CASE ~accepting
  <2>1. UNCHANGED <<ka, target>> /\ task' = 0
    BY <1>6 DEF SpawnKeepalive
  <2>2. TasksGoOn
    BY <1>4, <2>1 DEF TasksGoOn, Live
  <2>3. KeepaliveOK'
    BY <2>1 DEF KeepaliveOK, Dead
  <2> QED
    BY <1>2, <1>3, <2>1, <2>2, <2>3 DEF TypeOK
<1> QED
  BY <1>5, <1>6

\* Worker w begins no shutdown and goes no further in one, ...
ShutdownPlain(w) ==
  (me'[w].op = "shutdown" => me[w].op = "shutdown") /\ me'[w].pc \notin Refusing

\* ... is not the shutdown waiting for the tasks, ...
JoinPlain(w) == me[w].pc \notin {"join", "cutOff"}

\* ... begins no wait for a keepalive task, and lifts the drain of a reclamation that it
\* ends, ...
WaitPlain(w) ==
  me'[w].pc # "halted" /\ (me[w].op = "reclaim" => me'[w].op = "reclaim" \/ draining' = None)

\* ... and is not at a health check.
ProbePlain(w) == me'[w].pc \notin {"probe", "removeStale"}

Plain(w) == ShutdownPlain(w) /\ JoinPlain(w) /\ WaitPlain(w) /\ ProbePlain(w)

\* A refusing supervisor gets no tasks.
SupervisorGoesOn ==
  accepting' = accepting /\ (~accepting => (task' = task \/ task' = 0) /\ bg' \subseteq bg)

\* What a step may do to the registry without a health check noticing.
RouteGoesOn ==
  \/ /\ publication' = publication
     /\ route' = route \/ route' = 0
     /\ route # 0 /\ route \in broken /\ route' = route => route \in broken'
  \/ publication' = publication + 1

\* What the shutdown has done lasts.
LEMMA ShutdownStays ==
  ASSUME IndInv, \A v \in Workers : me'[v] = me[v] \/ ShutdownPlain(v), SupervisorGoesOn
  PROVE  ShutdownOK'
<1>1. /\ \A v \in Workers : me'[v].op = "shutdown" => me[v].op = "shutdown"
      /\ \A v \in Workers : me'[v].pc \in Refusing => me'[v].pc = me[v].pc
  BY DEF ShutdownPlain
<1>2. \A w, v \in Workers : me'[w].op = "shutdown" /\ me'[v].op = "shutdown" => w = v
  BY <1>1 DEF IndInv, ShutdownOK
<1>3. \A w \in Workers :
        /\ me'[w].pc \in Refusing => ~accepting'
        /\ me'[w].pc \in {"join", "joined", "down", "cutOff"} => task' = 0
        /\ me'[w].pc \in {"joined", "down"} => bg' = {}
  <2> SUFFICES ASSUME NEW w \in Workers, me'[w].pc \in Refusing
               PROVE  /\ ~accepting'
                      /\ me'[w].pc \in {"join", "joined", "down", "cutOff"} => task' = 0
                      /\ me'[w].pc \in {"joined", "down"} => bg' = {}
    BY DEF Refusing
  <2>1. me'[w].pc = me[w].pc
    BY <1>1
  <2>2. ~accepting' /\ ~accepting
    BY <2>1 DEF IndInv, ShutdownOK, SupervisorGoesOn
  <2>3. (task' = task \/ task' = 0) /\ bg' \subseteq bg
    BY <2>2 DEF SupervisorGoesOn
  <2> QED
    BY <2>1, <2>2, <2>3 DEF IndInv, ShutdownOK
<1> QED
  BY <1>2, <1>3 DEF ShutdownOK

\* Running tasks stay known.
LEMMA LiveStays ==
  ASSUME IndInv, \A v \in Workers : me'[v] = me[v] \/ JoinPlain(v), TasksGoOn
  PROVE  LiveIsKnown'
<1> SUFFICES ASSUME NEW t \in Tasks, Live(t)'
             PROVE  t = task' \/ t \in aborted'
                      \/ \E w \in Workers : me'[w].pc \in {"join", "cutOff"} /\ me'[w].checked = t
  BY DEF LiveIsKnown
<1>1. ka'[t] # "ended"
  BY DEF Live
<1>2. CASE Live(t)
  BY <1>1, <1>2 DEF IndInv, LiveIsKnown, TasksGoOn, JoinPlain
<1> QED
  BY <1>2 DEF TasksGoOn

\* Who waits still has a waker.
LEMMA WaitersStay ==
  ASSUME IndInv, \A v \in Workers : me'[v] = me[v] \/ WaitPlain(v),
         TasksGoOn, draining' = draining \/ draining' = None
  PROVE  WaitersHaveWakers'
<1>1. draining' # None => draining' \in Workers /\ me[draining'].op = "reclaim"
  BY DEF IndInv, TypeOK, WaitersHaveWakers
<1>2. draining' # None => me'[draining'].op = "reclaim"
  BY <1>1 DEF WaitPlain
<1>3. ASSUME NEW w \in Workers, me'[w].pc = "halted", me'[w].checked # 0
      PROVE  ka'[me'[w].checked] = "ended" \/ me'[w].checked \in aborted'
  <2>1. me'[w] = me[w]
    BY <1>3 DEF WaitPlain
  <2>2. me[w].checked \in Tasks
    BY <1>3, <2>1, Numbers DEF IndInv, WorkersOK, WorkerOK
  <2>3. ka[me[w].checked] = "ended" \/ me[w].checked \in aborted
    BY <1>3, <2>1 DEF IndInv, WaitersHaveWakers, At
  <2> QED
    BY <2>1, <2>2, <2>3 DEF TasksGoOn
<1> QED
  BY <1>2, <1>3 DEF WaitersHaveWakers, At

\* A health check that was up to date still is, or has been overtaken.
LEMMA ProbesStay ==
  ASSUME IndInv, \A v \in Workers : me'[v] = me[v] \/ ProbePlain(v), RouteGoesOn
  PROVE  ProbesOK'
<1> SUFFICES ASSUME NEW w \in Workers, me'[w].pc \in {"probe", "removeStale"}
             PROVE  ProbeOK(w)'
  BY DEF ProbesOK, ProbeOK
<1>1. me'[w] = me[w]
  BY DEF ProbePlain
<1>2. ProbeOK(w) /\ me[w].checked \in Nat /\ publication \in Nat
  BY ConstantsAssumption DEF IndInv, ProbesOK, TypeOK, Worker
<1>3. CASE publication' = publication + 1
  BY <1>1, <1>2, <1>3 DEF ProbeOK
<1>4. CASE publication' = publication /\ (route' = route \/ route' = 0)
           /\ (route # 0 /\ route \in broken /\ route' = route => route \in broken')
  BY <1>1, <1>2, <1>4 DEF ProbeOK
<1> QED
  BY <1>3, <1>4 DEF RouteGoesOn

\* The parts of the invariant that most steps hardly touch.
LEMMA RestStays ==
  ASSUME IndInv, \A v \in Workers : me'[v] = me[v] \/ Plain(v),
         TasksGoOn, RouteGoesOn, SupervisorGoesOn, draining' = draining \/ draining' = None
  PROVE  ShutdownOK' /\ LiveIsKnown' /\ WaitersHaveWakers' /\ ProbesOK'
  BY ShutdownStays, LiveStays, WaitersStay, ProbesStay DEF Plain

-----------------------------------------------------------------------------
(* Steps of a worker that change nothing that others look at.              *)

\* The invariant from its parts, for a step of worker w.
LEMMA StepKeeps ==
  ASSUME IndInv, NEW w \in Workers, Moves(w), Plain(w), WorkerOK(me'[w]), TypeOK', OwnersOK', KeepaliveOK',
         TasksGoOn, RouteGoesOn, SupervisorGoesOn, draining' = draining \/ draining' = None
  PROVE  IndInv'
<1>1. \A v \in Workers : me'[v] = me[v] \/ Plain(v)
  BY DEF Moves
<1>2. WorkersOK'
  BY WorkersStay DEF IndInv
<1>3. ShutdownOK' /\ LiveIsKnown' /\ WaitersHaveWakers' /\ ProbesOK'
  BY <1>1, RestStays
<1> QED
  BY <1>2, <1>3 DEF IndInv

\* Nothing happens but to the records and to the mover.
Quiet ==
  /\ UNCHANGED <<config, registry, pools, draining, tasks>>
  /\ activity' \in {"none", "fresh", "old"} /\ preserved' \in BOOLEAN
  /\ attempt' \in Workers \cup {None} /\ begun' \in 0..MaxOps

\* Most parts of the invariant do not notice.
LEMMA QuietFacts ==
  ASSUME IndInv, Quiet, NEW w \in Workers, Moves(w), me'[w].mine = me[w].mine
  PROVE  /\ TypeOK' /\ OwnersOK' /\ KeepaliveOK' /\ TasksGoOn
         /\ RouteGoesOn /\ SupervisorGoesOn /\ draining' = draining
<1>1. /\ UNCHANGED <<config, route, publication, life, broken, draining>>
      /\ UNCHANGED <<task, target, ka, taken, aborted, bg, accepting>>
  BY DEF Quiet, registry, pools, tasks
<1>2. TypeOK /\ OwnersOK /\ KeepaliveOK
  BY DEF IndInv
<1>3. TypeOK'
  BY <1>1, <1>2 DEF TypeOK, Quiet, Moves
<1>4. \A v \in Workers : me'[v].mine = me[v].mine
  BY DEF Moves
<1>5. OwnersOK'
  BY <1>1, <1>2, <1>4, OwnersStay
<1>6. LifeGoesOn
  BY <1>1 DEF LifeGoesOn, Dead
<1>7. KeepaliveOK'
  BY <1>1, <1>2, <1>6, KeepaliveStays
<1>8. TasksGoOn
  BY <1>1, TasksStay
<1>9. RouteGoesOn /\ SupervisorGoesOn
  BY <1>1 DEF RouteGoesOn, SupervisorGoesOn
<1> QED
  BY <1>1, <1>3, <1>5, <1>7, <1>8, <1>9

\* Places where a worker owns no pool and neither reclaims nor shuts down.
Free ==
  {"idle", "wait1", "wait2", "look1", "look2", "connect", "touch", "ready", "running",
   "unlisted", "drop", "sweepIdle", "sweepActive"}

\* A worker at such a place.
LEMMA FreeFacts ==
  ASSUME IndInv, NEW w \in Workers, me[w].pc \in Free \cup Checking \cup {"detach"}
  PROVE  me[w].mine = 0 /\ me[w].op \notin {"reclaim", "shutdown"}
  BY DEF IndInv, WorkersOK, WorkerOK, Free, Holding, Reclaiming, Refusing, Removing, Checking

\* What a worker must be like after a step from such a place to another one.
LEMMA FreeKept ==
  ASSUME IndInv, NEW w \in Workers, me[w].pc \in Free, me'[w].pc \in (Free \ {"idle"}) \cup {"strip"},
         me'[w].op = me[w].op, me'[w].mine = me[w].mine, me'[w].then = me[w].then
  PROVE  WorkerOK(me'[w]) /\ Plain(w)
<1>1. me[w].mine = 0 /\ me[w].op \notin {"reclaim", "shutdown"}
  BY FreeFacts
<1>2. WorkerOK(me[w])
  BY DEF IndInv, WorkersOK
<1>3. me'[w].pc \notin Holding \cup Refusing \cup Checking \cup {"closing", "halted", "refuse", "cutOff"}
  BY DEF Free, Holding, Refusing, Checking
<1>4. WorkerOK(me'[w])
  BY <1>1, <1>2, <1>3 DEF WorkerOK, Refusing, Checking
<1>5. me[w].pc \notin {"join", "cutOff"}
  BY DEF Free
<1> QED
  BY <1>1, <1>3, <1>4, <1>5 DEF Plain, ShutdownPlain, JoinPlain, WaitPlain, ProbePlain, Checking

\* A worker walks between such places.
LEMMA WalkKeeps ==
  ASSUME IndInv, Quiet, NEW w \in Workers, me[w].pc \in Free,
         NEW place \in Free \cup {"strip"}, Goto(w, place)
  PROVE  IndInv'
<1>1. place \in Places /\ TypeOK
  BY DEF Free, Places, IndInv
<1>2. /\ Moves(w) /\ me'[w].pc = place
      /\ place # "idle" => Keeps(w) /\ me'[w].mine = me[w].mine
      /\ place = "idle" => me'[w] = Idle
  BY <1>1, GotoFacts
<1>3. me[w].mine = 0 /\ me[w].op \notin {"reclaim", "shutdown"}
  BY FreeFacts DEF Free
<1>4. me'[w].mine = me[w].mine
  BY <1>2, <1>3, IdleFacts
<1>5. WorkerOK(me'[w]) /\ Plain(w)
  <2>1. CASE place = "idle"
    BY <1>2, <1>3, <2>1, IdleFacts
    DEF Plain, ShutdownPlain, JoinPlain, WaitPlain, ProbePlain, Free, Refusing
  <2>2. CASE place # "idle"
    BY <1>2, <2>2, FreeKept DEF Keeps
  <2> QED
    BY <2>1, <2>2
<1> QED
  BY <1>2, <1>4, <1>5, QuietFacts, StepKeeps

\* Worker w has the handle h, remembers c and is at place.
HasHandle(w, h, c, place) ==
  me' = [me EXCEPT ![w] = [@ EXCEPT !.handle = h, !.checked = c, !.pc = place]]

\* A worker takes or lets go of a handle.
LEMMA HandleFacts ==
  ASSUME TypeOK, NEW w \in Workers, NEW place \in Places, NEW h \in 0..MaxPools,
         NEW c \in 0..(1 + MaxPub + MaxTasks),
         HasHandle(w, h, c, place)
  PROVE  /\ Moves(w) /\ me'[w].pc = place /\ me'[w].handle = h /\ me'[w].checked = c
         /\ me'[w].op = me[w].op /\ me'[w].mine = me[w].mine /\ me'[w].then = me[w].then
<1> DEFINE r == [me[w] EXCEPT !.handle = h, !.checked = c, !.pc = place]
<1>1. me[w] \in Worker /\ me \in [Workers -> Worker]
  BY DEF TypeOK
<1>2. /\ r \in Worker /\ r.pc = place /\ r.handle = h /\ r.checked = c
      /\ r.op = me[w].op /\ r.mine = me[w].mine /\ r.then = me[w].then
  BY <1>1 DEF Worker
<1>3. me' = [me EXCEPT ![w] = r]
  BY <1>1 DEF HasHandle
<1> HIDE DEF r
<1> QED
  BY <1>1, <1>2, <1>3 DEF Moves

\* What a worker remembers is a publication, a task or a flag.
LEMMA CheckedTyped ==
  ASSUME TypeOK
  PROVE  /\ \A w \in Workers : me[w].checked \in 0..(1 + MaxPub + MaxTasks)
         /\ \A w \in Workers : me[w].handle \in 0..MaxPools
         /\ publication \in 0..(1 + MaxPub + MaxTasks) /\ task \in 0..(1 + MaxPub + MaxTasks)
         /\ 0 \in 0..(1 + MaxPub + MaxTasks) /\ 1 \in 0..(1 + MaxPub + MaxTasks) /\ 0 \in 0..MaxPools
<1>1. \A w \in Workers : me[w].checked \in 0..(1 + MaxPub + MaxTasks) /\ me[w].handle \in 0..MaxPools
  BY DEF TypeOK, Worker
<1> QED
  BY <1>1, ConstantsAssumption DEF TypeOK

\* A step that leaves everything but the workers alone.
LEMMA SilentIsQuiet ==
  ASSUME IndInv, UNCHANGED <<config, registry, pools, records, draining, attempts, tasks>>
  PROVE  Quiet
<1>1. UNCHANGED <<activity, preserved, attempt, begun>>
  BY DEF records, attempts
<1> QED
  BY <1>1 DEF Quiet, IndInv, TypeOK

\* A worker that owns a pool keeps it on its way.
LEMMA HoldingKept ==
  ASSUME IndInv, NEW w \in Workers, me[w].pc \in Holding, NEW place \in Holding, Goto(w, place),
         me[w].op = "reclaim" => place \in Reclaiming
  PROVE  Moves(w) /\ WorkerOK(me'[w]) /\ Plain(w) /\ me'[w].mine = me[w].mine
<1>1. place \in Places /\ TypeOK /\ place # "idle"
  BY DEF Holding, Places, IndInv
<1>2. Moves(w) /\ me'[w].pc = place /\ Keeps(w) /\ me'[w].mine = me[w].mine
  BY <1>1, GotoFacts
<1>3. WorkerOK(me[w])
  BY DEF IndInv, WorkersOK
<1>4. me[w].op # "shutdown" /\ me[w].mine # 0
  BY <1>3 DEF WorkerOK, Holding, Refusing
<1>5. place \notin Refusing \cup Checking \cup {"idle", "refuse", "halted", "join", "cutOff"}
      /\ me[w].pc \notin {"join", "cutOff"}
  BY DEF Holding, Refusing, Checking
<1>6. WorkerOK(me'[w])
  BY <1>2, <1>3, <1>4, <1>5 DEF WorkerOK, Keeps, Holding, Reclaiming, Checking
<1> QED
  BY <1>2, <1>4, <1>5, <1>6
  DEF Plain, ShutdownPlain, JoinPlain, WaitPlain, ProbePlain, Keeps, Checking

\* wait_for_pool_drain
LEMMA WaitForPoolDrainKeeps ==
  ASSUME IndInv, NEW w \in Workers, WaitForPoolDrain(w)
  PROVE  IndInv'
<1>1. Quiet
  BY SilentIsQuiet DEF WaitForPoolDrain
<1>2. CASE me[w].pc = "wait1"
  <2>1. Goto(w, "look1")
    BY <1>2 DEF WaitForPoolDrain, At
  <2> QED
    BY <1>1, <1>2, <2>1, WalkKeeps DEF Free
<1>3. CASE me[w].pc = "wait2"
  <2>1. Goto(w, "look2")
    BY <1>3 DEF WaitForPoolDrain, At
  <2> QED
    BY <1>1, <1>3, <2>1, WalkKeeps DEF Free
<1>4. CASE me[w].pc = "pubwait"
  <2>1. Goto(w, "publish") /\ me[w].op # "reclaim"
    BY <1>4 DEF WaitForPoolDrain, At, IndInv, WorkersOK, WorkerOK, Reclaiming
  <2>2. Moves(w) /\ WorkerOK(me'[w]) /\ Plain(w) /\ me'[w].mine = me[w].mine
    BY <1>4, <2>1, HoldingKept DEF Holding
  <2> QED
    BY <1>1, <2>2, QuietFacts, StepKeeps
<1> QED
  BY <1>2, <1>3, <1>4 DEF WaitForPoolDrain

\* Worker w is at place and then wants to go on at next, has handle h and remembers c.
Turns(w, h, c, place, next) ==
  me' = [me EXCEPT ![w] = [@ EXCEPT !.handle = h, !.checked = c, !.pc = place, !.then = next]]

\* A worker turns to a health check, or away from it.
LEMMA TurnsFacts ==
  ASSUME TypeOK, NEW w \in Workers, NEW place \in Places, NEW next \in Places, NEW h \in 0..MaxPools,
         NEW c \in 0..(1 + MaxPub + MaxTasks), Turns(w, h, c, place, next)
  PROVE  /\ Moves(w) /\ me'[w].pc = place /\ me'[w].then = next
         /\ me'[w].op = me[w].op /\ me'[w].mine = me[w].mine
<1> DEFINE r == [me[w] EXCEPT !.handle = h, !.checked = c, !.pc = place, !.then = next]
<1>1. me[w] \in Worker /\ me \in [Workers -> Worker]
  BY DEF TypeOK
<1>2. /\ r \in Worker /\ r.pc = place /\ r.then = next
      /\ r.op = me[w].op /\ r.mine = me[w].mine
  BY <1>1 DEF Worker
<1>3. me' = [me EXCEPT ![w] = r]
  BY <1>1 DEF Turns
<1> HIDE DEF r
<1> QED
  BY <1>1, <1>2, <1>3 DEF Moves

\* To a health check with two ways to go on, or away from one
LEMMA TurnsKeeps ==
  ASSUME IndInv, Quiet, NEW w \in Workers, me[w].pc \in Free \cup Checking,
         NEW place, NEW next, NEW h \in 0..MaxPools, NEW c \in 0..(1 + MaxPub + MaxTasks),
         Turns(w, h, c, place, next),
         \/ place = "validate" /\ next \in {"touch", "connect"}
         \/ place \in {"touch", "connect"} /\ next = "idle"
  PROVE  IndInv'
<1>1. place \in Places /\ next \in Places /\ TypeOK
  BY DEF Places, IndInv
<1>2. /\ Moves(w) /\ me'[w].pc = place /\ me'[w].then = next
      /\ me'[w].op = me[w].op /\ me'[w].mine = me[w].mine
  BY <1>1, TurnsFacts
<1>3. me[w].mine = 0 /\ me[w].op \notin {"reclaim", "shutdown"}
  BY FreeFacts
<1>4. WorkerOK(me'[w])
  BY <1>2, <1>3 DEF WorkerOK, Holding, Refusing, Checking
<1>5. Plain(w)
  BY <1>2, <1>3 DEF Plain, ShutdownPlain, JoinPlain, WaitPlain, ProbePlain, Free, Refusing, Checking
<1> QED
  BY <1>2, <1>4, <1>5, QuietFacts, StepKeeps

\* The pool that was found is not removed.
LEMMA GoOnKeeps ==
  ASSUME IndInv, Quiet, NEW w \in Workers, me[w].pc \in Checking, GoOn(w)
  PROVE  IndInv'
<1>1. me[w] \in Worker /\ me \in [Workers -> Worker] /\ TypeOK
  BY DEF IndInv, TypeOK
<1>2. Turns(w, 0, 0, me[w].then, "idle")
  BY <1>1 DEF GoOn, Turns, Worker
<1>3. me[w].then \in {"touch", "connect"}
  BY DEF IndInv, WorkersOK, WorkerOK
<1> QED
  BY <1>1, <1>2, <1>3, CheckedTyped, TurnsKeeps

\* The two looks at the registry
LEMMA LookUpKeeps ==
  ASSUME IndInv, NEW w \in Workers, LookUp(w)
  PROVE  IndInv'
<1>1. Quiet
  BY SilentIsQuiet DEF LookUp
<1>2. me[w].pc \in Free
  BY DEF LookUp, At, Free
<1>3. CASE \E place \in Free : Goto(w, place)
  BY <1>1, <1>2, <1>3, WalkKeeps
<1>4. ASSUME NEW next \in {"touch", "connect"}, Validate(w, next)
      PROVE  IndInv'
  <2>1. me[w] \in Worker /\ me \in [Workers -> Worker] /\ TypeOK
    BY DEF IndInv, TypeOK
  <2>2. Turns(w, me[w].handle, me[w].checked, "validate", next)
    BY <1>4, <2>1 DEF Validate, Turns, Worker
  <2> QED
    BY <1>1, <1>2, <2>1, <2>2, CheckedTyped, TurnsKeeps
<1> QED
  BY <1>3, <1>4 DEF LookUp, Free

\* The worker is given a handle and goes to a place that is not a health check.
LEMMA HandleKeeps ==
  ASSUME IndInv, Quiet, NEW w \in Workers, NEW place \in Free \ {"idle"}, NEW h \in 0..MaxPools,
         NEW c \in 0..(1 + MaxPub + MaxTasks), me[w].pc \in Free,
         HasHandle(w, h, c, place)
  PROVE  IndInv'
<1>1. place \in Places /\ TypeOK
  BY DEF Free, Places, IndInv
<1>2. /\ Moves(w) /\ me'[w].pc = place /\ me'[w].handle = h /\ me'[w].checked = c
      /\ me'[w].op = me[w].op /\ me'[w].mine = me[w].mine /\ me'[w].then = me[w].then
  BY <1>1, HandleFacts
<1>3. me[w].mine = 0 /\ me[w].op \notin {"reclaim", "shutdown"} /\ WorkerOK(me[w])
  BY FreeFacts DEF IndInv, WorkersOK
<1>4. place \notin Holding \cup Refusing \cup Checking \cup {"closing", "halted", "refuse"}
      /\ me[w].pc \notin {"join", "cutOff"}
  BY DEF Free, Holding, Refusing, Checking
<1>5. WorkerOK(me'[w])
  BY <1>2, <1>3, <1>4 DEF WorkerOK, Refusing, Checking
<1>6. Plain(w)
  BY <1>2, <1>3, <1>4 DEF Plain, ShutdownPlain, JoinPlain, WaitPlain, ProbePlain, Checking
<1> QED
  BY <1>2, <1>5, <1>6, QuietFacts, StepKeeps

\* The worker begins or continues a health check.
LEMMA ProbeMoves ==
  ASSUME IndInv, Quiet, NEW w \in Workers, NEW place \in {"probe", "removeStale"}, NEW h \in 0..MaxPools,
         NEW c \in 0..(1 + MaxPub + MaxTasks), me[w].pc \in {"validate", "probe"},
         place = "probe" => h # 0,
         HasHandle(w, h, c, place),
         ProbeOK(w)'
  PROVE  IndInv'
<1>1. place \in Places /\ TypeOK
  BY DEF Places, IndInv
<1>2. /\ Moves(w) /\ me'[w].pc = place /\ me'[w].handle = h /\ me'[w].checked = c
      /\ me'[w].op = me[w].op /\ me'[w].mine = me[w].mine /\ me'[w].then = me[w].then
  BY <1>1, HandleFacts
<1>3. me[w].mine = 0 /\ me[w].op \notin {"reclaim", "shutdown"} /\ WorkerOK(me[w])
  BY FreeFacts DEF IndInv, WorkersOK, Checking
<1>4. place \notin Holding \cup Refusing \cup {"closing", "halted", "refuse"} /\ me[w].pc \notin {"join", "cutOff"}
  BY DEF Free, Holding, Refusing
<1>5. WorkerOK(me'[w])
  BY <1>2, <1>3, <1>4 DEF WorkerOK, Refusing, Checking
<1>6. ShutdownPlain(w) /\ JoinPlain(w) /\ WaitPlain(w)
  BY <1>2, <1>3, <1>4 DEF ShutdownPlain, JoinPlain, WaitPlain
<1>7. /\ TypeOK' /\ OwnersOK' /\ KeepaliveOK' /\ TasksGoOn
      /\ RouteGoesOn /\ SupervisorGoesOn /\ draining' = draining
  BY <1>2, QuietFacts
<1>8. WorkersOK'
  BY <1>2, <1>5, WorkersStay DEF IndInv
<1>9. \A v \in Workers : v # w => me'[v] = me[v]
  BY <1>2 DEF Moves
<1>10. ShutdownOK' /\ LiveIsKnown' /\ WaitersHaveWakers'
  BY <1>6, <1>7, <1>9, ShutdownStays, LiveStays, WaitersStay
<1>11. UNCHANGED <<publication, route, broken>>
  BY DEF Quiet, registry, pools
<1>12. ProbesOK'
  BY <1>9, <1>11 DEF IndInv, ProbesOK, ProbeOK
<1> QED
  BY <1>7, <1>8, <1>10, <1>12 DEF IndInv

\* remove_stale_connection_pool
LEMMA StaleCheckKeeps ==
  ASSUME IndInv, NEW w \in Workers, StaleCheck(w)
  PROVE  IndInv'
<1>1. Quiet /\ me[w].pc = "validate" /\ TypeOK
  BY SilentIsQuiet DEF StaleCheck, At, IndInv
<1>2. CASE GoOn(w)
  BY <1>1, <1>2, GoOnKeeps DEF Checking
<1>3. CASE ~GoOn(w)
  <2>1. /\ me' = [me EXCEPT ![w].handle = route, ![w].checked = publication, ![w].pc = "probe"]
        /\ route # 0
    BY <1>3 DEF StaleCheck
  <2>2. HasHandle(w, route, publication, "probe")
    BY <2>1 DEF HasHandle
  <2>3. route \in 0..MaxPools /\ publication \in 0..(1 + MaxPub + MaxTasks)
    BY <1>1, CheckedTyped, OwnersTyped
  <2>4. /\ me'[w].pc = "probe" /\ me'[w].handle = route /\ me'[w].checked = publication
    <3>1. "probe" \in Places
      BY DEF Places
    <3> QED
      BY <1>1, <2>2, <2>3, <3>1, HandleFacts
  <2>5. publication' = publication /\ route' = route /\ publication \in Nat
    BY <1>1, ConstantsAssumption DEF Quiet, registry, TypeOK
  <2>6. ProbeOK(w)'
    BY <2>4, <2>5 DEF ProbeOK
  <2> QED
    BY <1>1, <2>1, <2>2, <2>3, <2>6, ProbeMoves
<1> QED
  BY <1>2, <1>3

\* The health check
LEMMA HealthCheckKeeps ==
  ASSUME IndInv, NEW w \in Workers, HealthCheck(w)
  PROVE  IndInv'
<1> DEFINE h == me[w].handle
           c == me[w].checked
<1>1. Quiet /\ me[w].pc = "probe" /\ TypeOK
  BY SilentIsQuiet DEF HealthCheck, At, IndInv
<1>2. me[w] \in Worker /\ me \in [Workers -> Worker]
  BY <1>1 DEF TypeOK
<1>4. c \in 0..(1 + MaxPub + MaxTasks) /\ 0 \in 0..MaxPools
  BY <1>1, CheckedTyped
<1>5. CASE GoOn(w)
  BY <1>1, <1>5, GoOnKeeps DEF Checking
<1>6. CASE ~GoOn(w)
  <2>7. /\ me' = [me EXCEPT ![w].handle = 0, ![w].pc = "removeStale"]
        /\ h \in broken \/ life[h] # "open"
    BY <1>6 DEF HealthCheck
  <2>8. HasHandle(w, 0, c, "removeStale")
    BY <1>2, <2>7 DEF HasHandle, Worker
  <2>1. /\ me'[w].pc = "removeStale" /\ me'[w].checked = c
    <3>1. "removeStale" \in Places
      BY DEF Places
    <3> QED
      BY <1>1, <1>4, <2>8, <3>1, HandleFacts
  <2>2. publication' = publication /\ route' = route /\ broken' = broken
    BY <1>1 DEF Quiet, registry, pools
  <2>3. c <= publication /\ (c = publication /\ route # 0 => h = route)
    BY <1>1 DEF IndInv, ProbesOK, ProbeOK
  <2>4. route # 0 => life[route] = "open"
    BY DEF IndInv, OwnersOK, OwnedIsOpen
  <2>5. c = publication /\ route # 0 => route \in broken
    BY <2>7, <2>3, <2>4
  <2>6. ProbeOK(w)'
    BY <2>1, <2>2, <2>3, <2>5 DEF ProbeOK
  <2> QED
    BY <1>1, <1>4, <2>8, <2>6, ProbeMoves
<1> QED
  BY <1>5, <1>6

\* The attempt's check after the connection
LEMMA CheckAttemptKeeps ==
  ASSUME IndInv, NEW w \in Workers, CheckAttempt(w)
  PROVE  IndInv'
<1>1. Quiet /\ me[w].pc = "check" /\ TypeOK
  BY SilentIsQuiet DEF CheckAttempt, At, IndInv
<1>2. me[w].op \notin {"reclaim", "shutdown"} /\ me[w].mine \in 0..MaxPools /\ WorkerOK(me[w])
  BY <1>1, OwnersTyped DEF IndInv, WorkersOK, WorkerOK, Reclaiming, Refusing
<1>3. CASE \E place \in {"publish", "pubwait"} : Goto(w, place)
  <2>1. PICK place \in {"publish", "pubwait"} : Goto(w, place)
    BY <1>3
  <2>2. Moves(w) /\ WorkerOK(me'[w]) /\ Plain(w) /\ me'[w].mine = me[w].mine
    BY <1>1, <1>2, <2>1, HoldingKept DEF Holding
  <2> QED
    BY <1>1, <2>2, QuietFacts, StepKeeps
<1>4. CASE CloseThen(w, me[w].mine, "idle")
  <2>1. /\ Moves(w) /\ me'[w].pc = "closing" /\ me'[w].mine = me[w].mine /\ me'[w].then = "idle"
        /\ me'[w].op = me[w].op /\ me'[w].handle = me[w].handle
    BY <1>1, <1>2, <1>4, CloseThenFacts DEF Places
  <2>2. WorkerOK(me'[w])
    BY <1>2, <2>1 DEF WorkerOK, Holding, Refusing, Checking
  <2>3. Plain(w)
    BY <1>1, <1>2, <2>1 DEF Plain, ShutdownPlain, JoinPlain, WaitPlain, ProbePlain, Refusing
  <2> QED
    BY <1>1, <2>1, <2>2, <2>3, QuietFacts, StepKeeps
<1> QED
  BY <1>3, <1>4 DEF CheckAttempt

\* MongoDB's second look
LEMMA MongoRecheckKeeps ==
  ASSUME IndInv, NEW w \in Workers, MongoRecheck(w)
  PROVE  IndInv'
<1>1. Quiet /\ me[w].pc = "recheck" /\ TypeOK
  BY SilentIsQuiet DEF MongoRecheck, At, IndInv
<1>2. me[w].op \notin {"reclaim", "shutdown"} /\ me[w].mine \in 0..MaxPools /\ WorkerOK(me[w])
  BY <1>1, OwnersTyped DEF IndInv, WorkersOK, WorkerOK, Reclaiming, Refusing
<1>3. CASE Goto(w, "check")
  <2>1. Moves(w) /\ WorkerOK(me'[w]) /\ Plain(w) /\ me'[w].mine = me[w].mine
    BY <1>1, <1>2, <1>3, HoldingKept DEF Holding
  <2> QED
    BY <1>1, <2>1, QuietFacts, StepKeeps
<1>4. CASE CloseThen(w, me[w].mine, "ready")
  <2>1. /\ Moves(w) /\ me'[w].pc = "closing" /\ me'[w].mine = me[w].mine /\ me'[w].then = "ready"
        /\ me'[w].op = me[w].op /\ me'[w].handle = me[w].handle
    BY <1>1, <1>2, <1>4, CloseThenFacts DEF Places
  <2>2. WorkerOK(me'[w])
    BY <1>2, <2>1 DEF WorkerOK, Holding, Refusing, Checking
  <2>3. Plain(w)
    BY <1>1, <1>2, <2>1 DEF Plain, ShutdownPlain, JoinPlain, WaitPlain, ProbePlain, Refusing
  <2> QED
    BY <1>1, <2>1, <2>2, <2>3, QuietFacts, StepKeeps
<1> QED
  BY <1>3, <1>4 DEF MongoRecheck

-----------------------------------------------------------------------------
(* Steps that move pools.                                                  *)

\* Pools are closed or let go.
LEMMA EndFacts ==
  ASSUME TypeOK, NEW S, Close(S) \/ LetGo(S)
  PROVE  /\ Gone(S) /\ LifeGoesOn
         /\ life' \in [Pools -> {"unborn", "open", "closed", "dropped"}] /\ broken' \subseteq Pools
         /\ \A p \in Pools : p \notin S /\ p \in broken => p \in broken'
<1>1. /\ \A p \in Pools : p \in S => life'[p] \in {"closed", "dropped"}
      /\ \A p \in Pools : p \notin S => life'[p] = life[p]
      /\ broken' = broken \ S
  BY DEF Close, LetGo
<1>2. life' \in [Pools -> {"unborn", "open", "closed", "dropped"}]
  <2>1. CASE Close(S)
    BY <2>1 DEF Close, TypeOK
  <2>2. CASE LetGo(S)
    BY <2>2 DEF LetGo, TypeOK
  <2> QED
    BY <2>1, <2>2
<1> QED
  BY <1>1, <1>2 DEF Gone, LifeGoesOn, Dead, TypeOK

\* Pools are handed to close tasks, or let go.
LEMMA BackgroundFacts ==
  ASSUME TypeOK, NEW S \in SUBSET Pools, CloseInBackground(S)
  PROVE  /\ GivenUp(S) /\ LifeGoesOn
         /\ life' \in [Pools -> {"unborn", "open", "closed", "dropped"}] /\ broken' \subseteq Pools
         /\ \A p \in Pools : p \notin S /\ p \in broken => p \in broken'
         /\ bg' \subseteq Pools /\ (~accepting => bg' = bg)
<1>1. CASE accepting
  BY <1>1 DEF CloseInBackground, pools, GivenUp, LifeGoesOn, Dead, TypeOK
<1>2. CASE ~accepting
  <2>1. LetGo(S) /\ bg' = bg
    BY <1>2 DEF CloseInBackground
  <2> QED
    BY <2>1, EndFacts DEF GivenUp, TypeOK
<1> QED
  BY <1>1, <1>2

\* The worker closes a pool before it goes on.
LEMMA CloseThenKept ==
  ASSUME IndInv, NEW w \in Workers, NEW p \in 0..MaxPools,
         NEW place \in {"idle", "connect", "touch", "wait1", "ready"}, CloseThen(w, p, place),
         me[w].op # "shutdown", me[w].op = "reclaim" => place = "idle", me[w].pc \notin {"join", "cutOff"}
  PROVE  Moves(w) /\ WorkerOK(me'[w]) /\ Plain(w) /\ me'[w].mine = p
<1>1. place \in Places /\ TypeOK /\ WorkerOK(me[w])
  BY DEF Places, IndInv, WorkersOK
<1>2. /\ Moves(w) /\ me'[w].pc = "closing" /\ me'[w].mine = p /\ me'[w].then = place
      /\ me'[w].op = me[w].op /\ me'[w].handle = me[w].handle
  BY <1>1, CloseThenFacts
<1>3. WorkerOK(me'[w])
  BY <1>1, <1>2 DEF WorkerOK, Holding, Refusing, Reclaiming, Checking
<1>4. Plain(w)
  BY <1>2 DEF Plain, ShutdownPlain, JoinPlain, WaitPlain, ProbePlain, Refusing
<1> QED
  BY <1>2, <1>3, <1>4

\* A worker takes the routed pool.
LEMMA TakeKeeps ==
  ASSUME IndInv, NEW w \in Workers, Moves(w), Plain(w), WorkerOK(me'[w]), TypeOK',
         me[w].mine = 0, me'[w].mine = route, route' = 0, TasksGoOn, task' = task \/ task' = 0,
         UNCHANGED <<publication, life, broken, taken, ka, target, bg, accepting, draining>>
  PROVE  IndInv'
<1>1. TypeOK /\ OwnersOK /\ KeepaliveOK
  BY DEF IndInv
<1>2. OwnersOK'
  BY <1>1, OwnersSwap
<1>3. LifeGoesOn
  BY DEF LifeGoesOn, Dead
<1>4. KeepaliveOK'
  BY <1>1, <1>3, KeepaliveStays
<1>5. RouteGoesOn /\ SupervisorGoesOn
  BY DEF RouteGoesOn, SupervisorGoesOn
<1> QED
  BY <1>2, <1>4, <1>5, StepKeeps

\* A worker gives its pool up.
LEMMA GiveKeeps ==
  ASSUME IndInv, NEW w \in Workers, Moves(w), Plain(w), WorkerOK(me'[w]), TypeOK',
         me'[w].mine = 0, GivenUp({me[w].mine} \ {0}), LifeGoesOn,
         \A p \in Pools : p # me[w].mine /\ p \in broken => p \in broken',
         ~accepting => bg' = bg, draining' = draining \/ draining' = None,
         UNCHANGED <<publication, route, taken, ka, target, task, aborted, accepting>>
  PROVE  IndInv'
<1>1. TypeOK /\ OwnersOK /\ KeepaliveOK
  BY DEF IndInv
<1>2. OwnersOK'
  BY <1>1, OwnersWorkerGives
<1>3. KeepaliveOK'
  BY <1>1, KeepaliveStays
<1>4. TasksGoOn
  BY TasksStay
<1>5. route # 0 => route \in Pools /\ route # me[w].mine
  BY <1>1, Numbers, OwnersTyped DEF OwnersOK, Apart
<1>6. RouteGoesOn /\ SupervisorGoesOn
  BY <1>5 DEF RouteGoesOn, SupervisorGoesOn
<1> QED
  BY <1>2, <1>3, <1>4, <1>6, StepKeeps

\* remove_stale_pool_if_current_inner
LEMMA RemoveStaleKeeps ==
  ASSUME IndInv, NEW w \in Workers, RemoveStale(w)
  PROVE  IndInv'
<1>1. /\ me[w].pc = "removeStale" /\ TypeOK /\ WorkerOK(me[w])
      /\ UNCHANGED <<config, publication, life, broken, preserved, draining, attempt, begun>>
      /\ UNCHANGED <<target, ka, taken, bg, accepting>>
  BY DEF RemoveStale, At, IndInv, WorkersOK, pools, attempts
<1>2. me[w].mine = 0 /\ me[w].op \notin {"reclaim", "shutdown"} /\ route \in 0..MaxPools /\ 0 \in 0..MaxPools
  BY <1>1, FreeFacts, OwnersTyped, CheckedTyped DEF Checking
<1>3. CASE CloseThen(w, route, "connect") /\ StopKeepalive /\ route' = 0 /\ activity' = "none"
  <2>1. Moves(w) /\ WorkerOK(me'[w]) /\ Plain(w) /\ me'[w].mine = route
    BY <1>1, <1>2, <1>3, CloseThenKept
  <2>2. TasksGoOn /\ aborted' \subseteq Tasks /\ task' \in 0..MaxTasks /\ task' = 0
    BY <1>1, <1>3, StopFacts DEF StopKeepalive
  <2>3. TypeOK'
    BY <1>1, <1>2, <1>3, <2>1, <2>2 DEF TypeOK, Moves
  <2> QED
    BY <1>1, <1>2, <1>3, <2>1, <2>2, <2>3, TakeKeeps
<1>4. CASE GoOn(w) /\ UNCHANGED <<route, task, aborted, activity>>
  <2>1. Quiet
    BY <1>1, <1>4 DEF Quiet, registry, pools, tasks, TypeOK
  <2> QED
    BY <1>1, <1>4, <2>1, GoOnKeeps DEF Checking
<1> QED
  BY <1>3, <1>4 DEF RemoveStale

\* The driver connects a pool, or does not.
LEMMA ConnectKeeps ==
  ASSUME IndInv, NEW w \in Workers, Connect(w)
  PROVE  IndInv'
<1>1. /\ me[w].pc = "connect" /\ TypeOK /\ WorkerOK(me[w]) /\ OwnersOK /\ KeepaliveOK
      /\ UNCHANGED <<config, route, publication, broken, activity, preserved, draining, attempt, begun>>
      /\ UNCHANGED <<task, target, ka, taken, aborted, bg, accepting>>
  BY DEF Connect, At, IndInv, WorkersOK, registry, records, attempts, tasks
<1>2. me[w].mine = 0 /\ me[w].op \notin {"reclaim", "shutdown"}
  BY <1>1, FreeFacts DEF Free
<1>3. CASE Goto(w, "idle") /\ UNCHANGED life
  <2>1. Quiet
    BY <1>1, <1>3 DEF Quiet, registry, pools, tasks, TypeOK
  <2> QED
    BY <1>1, <1>3, <2>1, WalkKeeps DEF Free
<1>4. CASE \E p \in Pools, place \in {"check", "recheck"} :
             life[p] = "unborn" /\ life' = [life EXCEPT ![p] = "open"] /\ Hold(w, p, place)
  <2>1. PICK p \in Pools, place \in {"check", "recheck"} :
          life[p] = "unborn" /\ life' = [life EXCEPT ![p] = "open"] /\ Hold(w, p, place)
    BY <1>4
  <2>2. life'[p] = "open" /\ \A q \in Pools \ {p} : life'[q] = life[q]
    BY <1>1, <2>1 DEF TypeOK
  <2>3. p \in 0..MaxPools /\ p # 0 /\ place \in Places
    BY Numbers DEF Places
  <2>4. Moves(w) /\ Keeps(w) /\ me'[w].pc = place /\ me'[w].mine = p
    BY <1>1, <2>1, <2>3, HoldFacts
  <2>5. TypeOK'
    BY <1>1, <2>1, <2>4 DEF TypeOK, Moves
  <2>6. OwnersOK'
    BY <1>1, <1>2, <2>1, <2>2, <2>4, OwnersConnect
  <2>7. LifeGoesOn
    BY <1>1, <2>1, <2>2 DEF LifeGoesOn, Dead
  <2>8. KeepaliveOK'
    BY <1>1, <2>7, KeepaliveStays
  <2>9. TasksGoOn /\ RouteGoesOn /\ SupervisorGoesOn
    BY <1>1, TasksStay DEF RouteGoesOn, SupervisorGoesOn
  <2>10. WorkerOK(me'[w])
    BY <1>1, <1>2, <2>3, <2>4 DEF WorkerOK, Keeps, Holding, Refusing, Checking
  <2>11. Plain(w)
    BY <1>1, <1>2, <2>4 DEF Plain, ShutdownPlain, JoinPlain, WaitPlain, ProbePlain, Keeps, Refusing
  <2> QED
    BY <1>1, <2>4, <2>5, <2>6, <2>8, <2>9, <2>10, <2>11, StepKeeps
<1> QED
  BY <1>3, <1>4 DEF Connect

\* insert_connection_pool_inner
LEMMA InsertFacts ==
  ASSUME IndInv, NEW p \in Pools, life[p] = "open", Insert(p), UNCHANGED <<life, broken, taken>>
  PROVE  /\ KeepaliveOK' /\ TasksGoOn /\ RouteGoesOn
         /\ aborted' \subseteq Tasks /\ task' \in 0..MaxTasks
         /\ ka' \in [Tasks -> {"none", "loop", "failed", "removed", "clearing", "ended"}]
         /\ target' \in [Tasks -> 0..MaxPools]
         /\ publication' \in 0..MaxPub /\ route' \in 0..MaxPools
         /\ route' = p /\ activity' = "fresh"
         /\ ~accepting => task' = 0
<1>1. TypeOK /\ KeepaliveOK
  BY DEF IndInv
<1>2. SpawnKeepalive(p) /\ activity' = "fresh" /\ route' = p /\ publication' = publication + 1 /\ publication < MaxPub
  BY DEF Insert
<1>3. publication' \in 0..MaxPub
  BY <1>1, <1>2, ConstantsAssumption DEF TypeOK
<1>4. p \in 0..MaxPools /\ RouteGoesOn
  BY <1>2, Numbers DEF RouteGoesOn
<1> QED
  BY <1>1, <1>2, <1>3, <1>4, SpawnFacts

\* publish_created_pool
LEMMA PublishCreatedPoolKeeps ==
  ASSUME IndInv, NEW w \in Workers, PublishCreatedPool(w)
  PROVE  IndInv'
<1>1. /\ me[w].pc = "publish" /\ TypeOK /\ WorkerOK(me[w]) /\ OwnersOK /\ KeepaliveOK
      /\ UNCHANGED <<config, life, broken, preserved, draining, attempt, begun>>
      /\ UNCHANGED <<taken, bg, accepting>>
  BY DEF PublishCreatedPool, At, IndInv, WorkersOK, pools, attempts
<1>2. me[w].mine # 0 /\ me[w].op \notin {"reclaim", "shutdown"} /\ me[w].mine \in Pools /\ me[w].mine \in 0..MaxPools
  BY <1>1, OwnersTyped, Numbers DEF WorkerOK, Holding, Reclaiming, Refusing
<1>3. CASE CloseThen(w, me[w].mine, "touch") /\ UNCHANGED <<registry, activity, task, target, ka, aborted>>
  <2>1. Quiet
    BY <1>1, <1>3 DEF Quiet, registry, pools, tasks, TypeOK
  <2>2. Moves(w) /\ WorkerOK(me'[w]) /\ Plain(w) /\ me'[w].mine = me[w].mine
    BY <1>1, <1>2, <1>3, CloseThenKept
  <2> QED
    BY <2>1, <2>2, QuietFacts, StepKeeps
<1>4. CASE Insert(me[w].mine) /\ IF route = 0 THEN Hold(w, 0, "ready") ELSE CloseThen(w, route, "ready")
  <2>1. life[me[w].mine] = "open"
    BY <1>1, <1>2 DEF OwnersOK, OwnedIsOpen
  <2>2. /\ KeepaliveOK' /\ TasksGoOn /\ RouteGoesOn
        /\ aborted' \subseteq Tasks /\ task' \in 0..MaxTasks
        /\ ka' \in [Tasks -> {"none", "loop", "failed", "removed", "clearing", "ended"}]
        /\ target' \in [Tasks -> 0..MaxPools]
        /\ publication' \in 0..MaxPub /\ route' \in 0..MaxPools
        /\ route' = me[w].mine /\ activity' = "fresh"
        /\ ~accepting => task' = 0
    BY <1>1, <1>2, <1>4, <2>1, InsertFacts
  <2>3. "ready" \in Places /\ 0 \in 0..MaxPools /\ route \in 0..MaxPools
    BY <1>1, CheckedTyped, OwnersTyped DEF Places
  <2>4. Moves(w) /\ WorkerOK(me'[w]) /\ Plain(w) /\ me'[w].mine = route
    <3>1. CASE route = 0
      <4>1. Moves(w) /\ Keeps(w) /\ me'[w].pc = "ready" /\ me'[w].mine = 0
        BY <1>1, <1>4, <2>3, <3>1, HoldFacts
      <4>2. WorkerOK(me'[w])
        BY <1>1, <1>2, <4>1 DEF WorkerOK, Keeps, Holding, Refusing, Checking
      <4>3. Plain(w)
        BY <1>1, <1>2, <4>1 DEF Plain, ShutdownPlain, JoinPlain, WaitPlain, ProbePlain, Keeps, Refusing
      <4> QED
        BY <3>1, <4>1, <4>2, <4>3
    <3>2. CASE route # 0
      BY <1>1, <1>2, <1>4, <2>3, <3>2, CloseThenKept
    <3> QED
      BY <3>1, <3>2
  <2>5. TypeOK'
    BY <1>1, <2>2, <2>4 DEF TypeOK, Moves
  <2>6. OwnersOK'
    BY <1>1, <1>4, <2>2, <2>4, OwnersSwap
  <2>7. SupervisorGoesOn
    BY <1>1, <2>2 DEF SupervisorGoesOn
  <2> QED
    BY <1>1, <2>2, <2>4, <2>5, <2>6, <2>7, StepKeeps
<1> QED
  BY <1>3, <1>4 DEF PublishCreatedPool

\* close_pool_with_timeout
LEMMA ClosePoolKeeps ==
  ASSUME IndInv, NEW w \in Workers, ClosePool(w)
  PROVE  IndInv'
<1> DEFINE m == me[w].mine
           next == me[w].then
           r == IF next = "idle" THEN Idle ELSE [me[w] EXCEPT !.mine = 0, !.then = "idle", !.pc = next]
<1>1. /\ me[w].pc = "closing" /\ TypeOK /\ WorkerOK(me[w]) /\ OwnersOK /\ KeepaliveOK
      /\ me[w] \in Worker /\ me \in [Workers -> Worker]
      /\ UNCHANGED <<config, route, publication, activity, preserved, attempt, begun>>
      /\ UNCHANGED <<task, target, ka, taken, aborted, bg, accepting>>
      /\ draining' = (IF me[w].op = "reclaim" THEN None ELSE draining)
  BY DEF ClosePool, At, IndInv, WorkersOK, TypeOK, registry, records, attempts, tasks
<1>2. next \in {"idle", "connect", "touch", "wait1", "ready"} /\ me[w].op # "shutdown" /\ (me[w].op = "reclaim" => next = "idle")
  BY <1>1 DEF WorkerOK, Refusing
<1>3. 0 \in 0..MaxPools /\ "idle" \in Places
  BY <1>1, CheckedTyped DEF Places
<1>4. /\ r \in Worker /\ r.pc = next /\ r.mine = 0 /\ r.then = "idle"
      /\ IF next = "idle" THEN r.op = "get" ELSE r.op = me[w].op
  <2>1. CASE next = "idle"
    BY <2>1, IdleFacts
  <2>2. CASE next # "idle"
    BY <1>1, <1>3, <2>2 DEF Worker
  <2> QED
    BY <2>1, <2>2
<1>5. me' = [me EXCEPT ![w] = r]
  BY DEF ClosePool
<1> HIDE DEF r
<1>6. Moves(w) /\ me'[w] = r
  BY <1>1, <1>4, <1>5 DEF Moves
<1>7. WorkerOK(me'[w])
  BY <1>2, <1>4, <1>6 DEF WorkerOK, Holding, Refusing, Checking
<1>8. Plain(w)
  BY <1>1, <1>2, <1>4, <1>6 DEF Plain, ShutdownPlain, JoinPlain, WaitPlain, ProbePlain, Refusing
<1>9. /\ Gone({m}) /\ LifeGoesOn
      /\ life' \in [Pools -> {"unborn", "open", "closed", "dropped"}] /\ broken' \subseteq Pools
      /\ \A p \in Pools : p \notin {m} /\ p \in broken => p \in broken'
  BY <1>1, EndFacts DEF ClosePool
<1>10. GivenUp({m} \ {0})
  BY <1>1, <1>9, Numbers DEF GivenUp, Gone
<1>11. TypeOK'
  BY <1>1, <1>6, <1>9 DEF TypeOK, Moves
<1>12. draining' = draining \/ draining' = None
  BY <1>1
<1>13. \A p \in Pools : p # m /\ p \in broken => p \in broken'
  BY <1>9
<1> QED
  BY <1>1, <1>4, <1>6, <1>7, <1>8, <1>9, <1>10, <1>11, <1>12, <1>13, GiveKeeps

-----------------------------------------------------------------------------
(* A statement on the pool.                                                *)

\* A statement begins.
LEMMA EnterStatementKeeps ==
  ASSUME IndInv, NEW w \in Workers, EnterStatement(w)
  PROVE  IndInv'
<1>1. /\ me[w].pc \in {"touch", "ready"} /\ TypeOK
      /\ UNCHANGED <<config, registry, pools, preserved, draining, attempt, begun, tasks>>
      /\ activity' \in {activity, "fresh"}
  BY DEF EnterStatement, At, IndInv, attempts
<1>2. Quiet
  BY <1>1 DEF Quiet, TypeOK
<1>3. CASE Goto(w, "idle")
  BY <1>1, <1>2, <1>3, WalkKeeps DEF Free
<1>4. CASE \E place \in {"drop", "running", "unlisted"} : me' = [me EXCEPT ![w].handle = route, ![w].pc = place]
  <2>1. PICK place \in {"drop", "running", "unlisted"} : me' = [me EXCEPT ![w].handle = route, ![w].pc = place]
    BY <1>4
  <2>2. me[w] \in Worker /\ me \in [Workers -> Worker]
    BY <1>1 DEF TypeOK
  <2>3. [me[w] EXCEPT !.handle = route, !.pc = place] = [me[w] EXCEPT !.handle = route, !.checked = me[w].checked, !.pc = place]
    BY <2>2 DEF Worker
  <2>4. HasHandle(w, route, me[w].checked, place)
    BY <2>1, <2>3 DEF HasHandle
  <2>5. me[w].checked \in 0..(1 + MaxPub + MaxTasks) /\ route \in 0..MaxPools
    BY <1>1, CheckedTyped, OwnersTyped
  <2>6. place \in Free \ {"idle"} /\ me[w].pc \in Free
    BY <1>1 DEF Free
  <2> QED
    BY <1>2, <2>4, <2>5, <2>6, HandleKeeps
<1> QED
  BY <1>3, <1>4 DEF EnterStatement

\* A statement ends.
LEMMA EndStatementKeeps ==
  ASSUME IndInv, NEW w \in Workers, EndStatement(w)
  PROVE  IndInv'
<1>1. /\ me[w].pc \in {"running", "unlisted"} /\ TypeOK
      /\ UNCHANGED <<config, registry, pools, activity, draining, attempt, begun, tasks>>
      /\ preserved' \in BOOLEAN
  BY DEF EndStatement, At, IndInv, TypeOK, attempts
<1>2. Quiet
  BY <1>1 DEF Quiet, TypeOK
<1>3. me[w] \in Worker /\ me \in [Workers -> Worker]
  BY <1>1 DEF TypeOK
<1>4. me' = [me EXCEPT ![w].handle = 0, ![w].pc = "drop"]
  BY DEF EndStatement
<1>5. [me[w] EXCEPT !.handle = 0, !.pc = "drop"] = [me[w] EXCEPT !.handle = 0, !.checked = me[w].checked, !.pc = "drop"]
  BY <1>3 DEF Worker
<1>6. HasHandle(w, 0, me[w].checked, "drop")
  BY <1>4, <1>5 DEF HasHandle
<1>7. me[w].checked \in 0..(1 + MaxPub + MaxTasks) /\ 0 \in 0..MaxPools
  BY <1>1, CheckedTyped
<1>8. "drop" \in Free \ {"idle"} /\ me[w].pc \in Free
  BY <1>1 DEF Free
<1> QED
  BY <1>2, <1>6, <1>7, <1>8, HandleKeeps

\* PoolActivityTouch::drop
LEMMA DropActivityTouchKeeps ==
  ASSUME IndInv, NEW w \in Workers, DropActivityTouch(w)
  PROVE  IndInv'
<1>1. /\ me[w].pc = "drop" /\ TypeOK /\ Goto(w, "idle")
      /\ UNCHANGED <<config, registry, pools, preserved, draining, attempt, begun, tasks>>
      /\ activity' \in {activity, "fresh"}
  BY DEF DropActivityTouch, At, IndInv, attempts
<1>2. Quiet
  BY <1>1 DEF Quiet, TypeOK
<1> QED
  BY <1>1, <1>2, WalkKeeps DEF Free

\* sweep_idle_connections chooses its pools.
LEMMA SweepKeeps ==
  ASSUME IndInv, NEW w \in Workers, SweepIdle(w) \/ SweepActive(w)
  PROVE  IndInv'
<1>1. Quiet
  BY SilentIsQuiet DEF SweepIdle, SweepActive
<1>2. me[w].pc \in Free /\ \E place \in Free \cup {"strip"} : Goto(w, place)
  BY DEF SweepIdle, SweepActive, At, Free
<1> QED
  BY <1>1, <1>2, WalkKeeps

-----------------------------------------------------------------------------
(* Taking the pool away.                                                   *)

\* A worker stops the keepalive task, or does not.
LEMMA StopKeeps ==
  ASSUME IndInv, NEW w \in Workers, Moves(w), Plain(w), WorkerOK(me'[w]), TypeOK',
         me'[w].mine = me[w].mine, TasksGoOn, task' = task \/ task' = 0,
         draining' = draining \/ draining' = None,
         UNCHANGED <<route, publication, life, broken, taken, ka, target, bg, accepting>>
  PROVE  IndInv'
<1>1. TypeOK /\ OwnersOK /\ KeepaliveOK
  BY DEF IndInv
<1>2. OwnersOK'
  BY <1>1, OwnersStay DEF Moves
<1>3. LifeGoesOn
  BY DEF LifeGoesOn, Dead
<1>4. KeepaliveOK'
  BY <1>1, <1>3, KeepaliveStays
<1>5. RouteGoesOn /\ SupervisorGoesOn
  BY DEF RouteGoesOn, SupervisorGoesOn
<1> QED
  BY <1>2, <1>4, <1>5, StepKeeps

\* A worker that takes pools away goes on without one.
LEMMA DrainMoves ==
  ASSUME IndInv, NEW w \in Workers, NEW place \in {"idle", "wait1", "connect"}, Goto(w, place),
         me[w].mine = 0, me[w].op \notin {"reclaim", "shutdown"}, me[w].pc \in {"strip", "unroute"}
  PROVE  Moves(w) /\ WorkerOK(me'[w]) /\ Plain(w) /\ me'[w].mine = 0
<1>1. place \in Places /\ TypeOK /\ WorkerOK(me[w])
  BY DEF Places, IndInv, WorkersOK
<1>2. /\ Moves(w) /\ me'[w].pc = place
      /\ place # "idle" => Keeps(w) /\ me'[w].mine = me[w].mine
      /\ place = "idle" => me'[w] = Idle
  BY <1>1, GotoFacts
<1>3. CASE place = "idle"
  BY <1>2, <1>3, IdleFacts DEF Plain, ShutdownPlain, JoinPlain, WaitPlain, ProbePlain, Refusing
<1>4. CASE place # "idle"
  <2>1. WorkerOK(me'[w])
    BY <1>1, <1>2, <1>4 DEF WorkerOK, Keeps, Holding, Refusing, Checking
  <2> QED
    BY <1>2, <1>4, <2>1 DEF Plain, ShutdownPlain, JoinPlain, WaitPlain, ProbePlain, Keeps, Refusing
<1> QED
  BY <1>3, <1>4

\* The records go first.
LEMMA StripKeeps ==
  ASSUME IndInv, NEW w \in Workers, Strip(w)
  PROVE  IndInv'
<1>1. /\ me[w].pc = "strip" /\ TypeOK /\ WorkerOK(me[w])
      /\ UNCHANGED <<config, route, publication, life, broken, attempt, begun>>
      /\ UNCHANGED <<target, ka, taken, bg, accepting>>
  BY DEF Strip, At, IndInv, WorkersOK, registry, pools, attempts
<1>2. me[w].mine = 0 /\ me[w].op # "reclaim"
  BY <1>1 DEF WorkerOK, Holding, Reclaiming, Removing
<1>3. CASE Drains(w) /\ Goto(w, AfterDrain(w)) /\ UNCHANGED <<task, aborted, records, draining>>
  <2>1. AfterDrain(w) \in {"idle", "wait1", "connect"} /\ AfterDrain(w) \in Places
    BY DEF AfterDrain, Places
  <2>2. Moves(w) /\ WorkerOK(me'[w]) /\ Plain(w) /\ me'[w].mine = me[w].mine
    BY <1>1, <1>2, <1>3, <2>1, DrainMoves DEF Drains
  <2>5. TypeOK'
    BY <1>1, <1>3, <2>2 DEF TypeOK, Moves, records
  <2>6. TasksGoOn
    BY <1>1, <1>3, TasksStay
  <2> QED
    BY <1>1, <1>3, <2>2, <2>5, <2>6, StopKeeps
<1>4. CASE ~(route = 0 /\ Drains(w))
  <2>1. /\ UNCHANGED <<task, aborted>> \/ StopKeepalive
        /\ activity' = "none" /\ preserved' = (preserved /\ me[w].op # "close")
        /\ draining' = (IF me[w].op = "shutdown" THEN None ELSE draining)
        /\ Goto(w, "unroute")
    BY <1>4 DEF Strip
  <2>2. "unroute" \in Places
    BY DEF Places
  <2>3. Moves(w) /\ me'[w].pc = "unroute" /\ Keeps(w) /\ me'[w].mine = me[w].mine
    BY <1>1, <2>1, <2>2, GotoFacts
  <2>4. WorkerOK(me'[w])
    BY <1>1, <1>2, <2>3 DEF WorkerOK, Keeps, Holding, Refusing, Checking
  <2>5. Plain(w)
    BY <1>1, <1>2, <2>3 DEF Plain, ShutdownPlain, JoinPlain, WaitPlain, ProbePlain, Keeps, Refusing
  <2>6. TasksGoOn /\ aborted' \subseteq Tasks /\ task' \in 0..MaxTasks /\ (task' = task \/ task' = 0)
    <3>1. CASE UNCHANGED <<task, aborted>>
      BY <1>1, <3>1, TasksStay DEF TypeOK
    <3>2. CASE StopKeepalive
      BY <1>1, <3>2, StopFacts DEF StopKeepalive
    <3> QED
      BY <2>1, <3>1, <3>2
  <2>7. draining' = draining \/ draining' = None
    BY <2>1
  <2>8. preserved' \in BOOLEAN
    BY <2>1
  <2>9. TypeOK'
    BY <1>1, <2>1, <2>3, <2>6, <2>7, <2>8 DEF TypeOK, Moves
  <2> QED
    BY <1>1, <2>3, <2>4, <2>5, <2>6, <2>7, <2>9, StopKeeps
<1> QED
  BY <1>3, <1>4 DEF Strip

\* Then the pool is taken out of the registry.
LEMMA UnrouteKeeps ==
  ASSUME IndInv, NEW w \in Workers, Unroute(w)
  PROVE  IndInv'
<1>1. /\ me[w].pc = "unroute" /\ TypeOK /\ WorkerOK(me[w]) /\ OwnersOK /\ KeepaliveOK /\ route' = 0
      /\ UNCHANGED <<config, publication, activity, preserved, draining, attempt, begun>>
      /\ UNCHANGED <<task, target, ka, taken, aborted, accepting>>
  BY DEF Unroute, At, IndInv, WorkersOK, records, attempts
<1>2. me[w].mine = 0 /\ me[w].op # "reclaim" /\ route \in 0..MaxPools /\ 0 \in 0..MaxPools
  BY <1>1, OwnersTyped, CheckedTyped DEF WorkerOK, Holding, Reclaiming, Removing
<1>3. TasksGoOn
  BY <1>1, TasksStay
<1>4. CASE me[w].op \in {"reconnect", "close"}
  <2>1. PICK place \in {"idle", "wait1"} : CloseThen(w, route, place)
    BY <1>4 DEF Unroute, Drains
  <2>2. UNCHANGED <<life, broken, bg>>
    BY <1>4 DEF Unroute, Drains, pools
  <2>3. Moves(w) /\ WorkerOK(me'[w]) /\ Plain(w) /\ me'[w].mine = route
    BY <1>1, <1>2, <1>4, <2>1, CloseThenKept
  <2>4. TypeOK'
    BY <1>1, <1>2, <2>2, <2>3 DEF TypeOK, Moves
  <2> QED
    BY <1>1, <1>2, <1>3, <2>2, <2>3, <2>4, TakeKeeps
<1>5. CASE Drains(w)
  <2>1. CloseInBackground({route} \ {0}) /\ Goto(w, AfterDrain(w))
    BY <1>5 DEF Unroute, Drains
  <2>2. {route} \ {0} \in SUBSET Pools
    BY <1>2, Numbers
  <2>3. /\ GivenUp({route} \ {0}) /\ LifeGoesOn
        /\ life' \in [Pools -> {"unborn", "open", "closed", "dropped"}] /\ broken' \subseteq Pools
        /\ bg' \subseteq Pools /\ (~accepting => bg' = bg)
    BY <1>1, <2>1, <2>2, BackgroundFacts
  <2>4. Moves(w) /\ me'[w].mine = 0 /\ WorkerOK(me'[w]) /\ Plain(w)
    <3>1. AfterDrain(w) \in {"idle", "wait1", "connect"}
      BY DEF AfterDrain
    <3> QED
      BY <1>1, <1>2, <1>5, <2>1, <3>1, DrainMoves DEF Drains
  <2>5. TypeOK'
    BY <1>1, <1>2, <2>3, <2>4 DEF TypeOK, Moves
  <2>6. OwnersOK'
    <3>1. \A v \in Workers : me'[v].mine = me[v].mine
      BY <1>2, <2>4 DEF Moves
    <3> QED
      BY <1>1, <2>3, <3>1, OwnersRouteGives
  <2>7. KeepaliveOK'
    BY <1>1, <2>3, KeepaliveStays
  <2>8. RouteGoesOn /\ SupervisorGoesOn
    BY <1>1, <2>3 DEF RouteGoesOn, SupervisorGoesOn
  <2> QED
    BY <1>1, <1>3, <2>4, <2>5, <2>6, <2>7, <2>8, StepKeeps
<1>6. CASE me[w].op = "shutdown"
  <2>1. Hold(w, route, "refuse") /\ UNCHANGED <<life, broken, bg>> /\ "refuse" \in Places
    BY <1>6 DEF Unroute, Drains, pools, Places
  <2>2. Moves(w) /\ Keeps(w) /\ me'[w].pc = "refuse" /\ me'[w].mine = route
    BY <1>1, <1>2, <2>1, HoldFacts
  <2>3. WorkerOK(me'[w])
    BY <1>1, <1>6, <2>2 DEF WorkerOK, Keeps, Holding, Refusing, Removing, Checking
  <2>4. Plain(w)
    BY <1>1, <1>6, <2>2 DEF Plain, ShutdownPlain, JoinPlain, WaitPlain, ProbePlain, Keeps, Refusing
  <2>5. TypeOK'
    BY <1>1, <1>2, <2>1, <2>2 DEF TypeOK, Moves
  <2> QED
    BY <1>1, <1>2, <1>3, <2>1, <2>2, <2>3, <2>4, <2>5, TakeKeeps
<1> QED
  BY <1>4, <1>5, <1>6 DEF Unroute

\* A worker begins operation o at place and remembers c.
Begins(w, place, o, c) == me' = [me EXCEPT ![w] = [@ EXCEPT !.pc = place, !.op = o, !.checked = c]]

\* What it is like then.
LEMMA BeginsFacts ==
  ASSUME TypeOK, NEW w \in Workers, NEW place \in Places, NEW o \in AllOps,
         NEW c \in 0..(1 + MaxPub + MaxTasks), Begins(w, place, o, c)
  PROVE  /\ Moves(w) /\ me'[w].pc = place /\ me'[w].op = o /\ me'[w].checked = c
         /\ me'[w].mine = me[w].mine /\ me'[w].then = me[w].then /\ me'[w].handle = me[w].handle
<1> DEFINE r == [me[w] EXCEPT !.pc = place, !.op = o, !.checked = c]
<1>1. me[w] \in Worker /\ me \in [Workers -> Worker]
  BY DEF TypeOK
<1>2. /\ r \in Worker /\ r.pc = place /\ r.op = o /\ r.checked = c
      /\ r.mine = me[w].mine /\ r.then = me[w].then /\ r.handle = me[w].handle
  BY <1>1 DEF Worker
<1>3. me' = [me EXCEPT ![w] = r]
  BY <1>1 DEF Begins
<1> HIDE DEF r
<1> QED
  BY <1>1, <1>2, <1>3 DEF Moves

\* The count of operations stays in its bound.
LEMMA CountFacts ==
  ASSUME TypeOK, CountBegun
  PROVE  begun' \in 0..MaxOps
  BY ConstantsAssumption DEF TypeOK, CountBegun

\* An operation begins.
LEMMA BeginKeeps ==
  ASSUME IndInv, NEW w \in Workers, NEW o \in Ops, Begin(w, o)
  PROVE  IndInv'
<1> DEFINE c == IF o = "sweep" /\ preserved THEN 1 ELSE 0
<1>1. /\ me[w].pc = "idle" /\ TypeOK /\ WorkerOK(me[w]) /\ CountBegun
      /\ o \in AllOps \ {"cleanup", "reclaim"}
      /\ UNCHANGED <<config, registry, pools, activity, preserved, draining, tasks>>
      /\ attempt' \in {w, None, attempt}
  BY DEF Begin, At, IndInv, WorkersOK, records
<1>2. Quiet
  BY <1>1, CountFacts DEF Quiet, TypeOK
<1>3. Start(o) \in {"wait1", "strip", "sweepIdle"} /\ (o = "shutdown" => Start(o) = "strip")
  BY <1>1 DEF Start, AllOps
<1>4. Start(o) \in Places /\ o \in AllOps /\ c \in 0..(1 + MaxPub + MaxTasks)
  BY <1>1, <1>3, CheckedTyped DEF Places, AllOps
<1>5. Begins(w, Start(o), o, c)
  BY <1>1 DEF Begin, Begins
<1>6. /\ Moves(w) /\ me'[w].pc = Start(o) /\ me'[w].op = o /\ me'[w].checked = c
      /\ me'[w].mine = me[w].mine /\ me'[w].then = me[w].then /\ me'[w].handle = me[w].handle
  BY <1>1, <1>4, <1>5, BeginsFacts
<1>7. me[w].mine = 0 /\ me[w].op \notin {"reclaim", "shutdown"}
  BY <1>1, FreeFacts DEF Free
<1>8. WorkerOK(me'[w])
  BY <1>1, <1>3, <1>6, <1>7 DEF WorkerOK, Holding, Refusing, Removing, Checking
<1>9. JoinPlain(w) /\ WaitPlain(w) /\ ProbePlain(w)
  BY <1>1, <1>3, <1>6, <1>7 DEF JoinPlain, WaitPlain, ProbePlain
<1>10. /\ TypeOK' /\ OwnersOK' /\ KeepaliveOK' /\ TasksGoOn
       /\ RouteGoesOn /\ SupervisorGoesOn /\ draining' = draining
  BY <1>2, <1>6, QuietFacts
<1>11. \A v \in Workers : v # w => me'[v] = me[v]
  BY <1>6 DEF Moves
<1>12. LiveIsKnown' /\ WaitersHaveWakers' /\ ProbesOK'
  BY <1>9, <1>10, <1>11, LiveStays, WaitersStay, ProbesStay
<1>13. WorkersOK'
  BY <1>6, <1>8, WorkersStay DEF IndInv
<1>14. ShutdownOK'
  <2>1. o = "shutdown" => \A v \in Workers : me[v].op # "shutdown"
    BY DEF Begin
  <2>2. \A v, u \in Workers : me'[v].op = "shutdown" /\ me'[u].op = "shutdown" => v = u
    BY <1>6, <1>11, <2>1 DEF IndInv, ShutdownOK
  <2>3. me'[w].pc \notin Refusing
    BY <1>3, <1>6 DEF Refusing
  <2>4. UNCHANGED <<accepting, task, bg>>
    BY <1>1 DEF tasks
  <2>5. \A v \in Workers :
          /\ me'[v].pc \in Refusing => ~accepting
          /\ me'[v].pc \in {"join", "joined", "down", "cutOff"} => task = 0
          /\ me'[v].pc \in {"joined", "down"} => bg = {}
    BY <1>11, <2>3 DEF IndInv, ShutdownOK, Refusing
  <2> QED
    BY <2>2, <2>4, <2>5 DEF ShutdownOK
<1> QED
  BY <1>10, <1>12, <1>13, <1>14 DEF IndInv

\* PoolCleanupGuard::drop
LEMMA CleanupGuardKeeps ==
  ASSUME IndInv, NEW w \in Workers, CleanupGuard(w)
  PROVE  IndInv'
<1>1. /\ me[w].pc = "idle" /\ TypeOK /\ WorkerOK(me[w]) /\ CountBegun /\ StopKeepalive
      /\ UNCHANGED <<config, route, publication, life, broken, activity, preserved, draining, attempt>>
      /\ UNCHANGED <<target, ka, taken, bg, accepting>>
  BY DEF CleanupGuard, At, IndInv, WorkersOK, registry, pools, records
<1>2. me[w] \in Worker /\ me \in [Workers -> Worker]
  BY <1>1 DEF TypeOK
<1>3. Begins(w, "detach", "cleanup", me[w].checked)
  <2>1. me' = [me EXCEPT ![w] = [me[w] EXCEPT !.pc = "detach", !.op = "cleanup"]]
    BY <1>2 DEF CleanupGuard
  <2>2. [me[w] EXCEPT !.pc = "detach", !.op = "cleanup"] = [me[w] EXCEPT !.pc = "detach", !.op = "cleanup", !.checked = me[w].checked]
    BY <1>2 DEF Worker
  <2> QED
    BY <2>1, <2>2 DEF Begins
<1>4. "detach" \in Places /\ "cleanup" \in AllOps /\ me[w].checked \in 0..(1 + MaxPub + MaxTasks)
  BY <1>1, CheckedTyped DEF Places, AllOps
<1>5. /\ Moves(w) /\ me'[w].pc = "detach" /\ me'[w].op = "cleanup"
      /\ me'[w].mine = me[w].mine /\ me'[w].then = me[w].then
  BY <1>1, <1>3, <1>4, BeginsFacts
<1>6. me[w].mine = 0 /\ me[w].op \notin {"reclaim", "shutdown"}
  BY <1>1, FreeFacts DEF Free
<1>7. WorkerOK(me'[w])
  BY <1>1, <1>5, <1>6 DEF WorkerOK, Holding, Refusing, Removing, Checking
<1>8. Plain(w)
  BY <1>1, <1>5, <1>6 DEF Plain, ShutdownPlain, JoinPlain, WaitPlain, ProbePlain, Refusing
<1>9. TasksGoOn /\ aborted' \subseteq Tasks /\ task' \in 0..MaxTasks /\ task' = 0 /\ begun' \in 0..MaxOps
  BY <1>1, StopFacts, CountFacts DEF StopKeepalive
<1>10. TypeOK'
  BY <1>1, <1>5, <1>9 DEF TypeOK, Moves
<1> QED
  BY <1>1, <1>5, <1>7, <1>8, <1>9, <1>10, StopKeeps

\* detach_pool_by_key
LEMMA DetachPoolByKeyKeeps ==
  ASSUME IndInv, NEW w \in Workers, DetachPoolByKey(w)
  PROVE  IndInv'
<1>1. /\ me[w].pc = "detach" /\ TypeOK /\ WorkerOK(me[w]) /\ route' = 0
      /\ UNCHANGED <<config, publication, life, broken, activity, preserved, draining, attempt, begun>>
      /\ UNCHANGED <<task, target, ka, taken, aborted, bg, accepting>>
  BY DEF DetachPoolByKey, At, IndInv, WorkersOK, pools, records, attempts, tasks
<1>2. me[w].mine = 0 /\ me[w].op \notin {"reclaim", "shutdown"} /\ route \in 0..MaxPools /\ 0 \in 0..MaxPools
  BY <1>1, FreeFacts, OwnersTyped, CheckedTyped
<1>3. TasksGoOn
  BY <1>1, TasksStay
<1>4. "idle" \in Places /\ "finish" \in Places
  BY DEF Places
<1>5. Moves(w) /\ me'[w].mine = route /\ WorkerOK(me'[w]) /\ Plain(w)
  <2>1. CASE route = 0
    <3>1. Moves(w) /\ me'[w] = Idle
      BY <1>1, <1>4, <2>1, GotoFacts DEF DetachPoolByKey
    <3>2. Plain(w)
      BY <1>1, <1>2, <3>1, IdleFacts DEF Plain, ShutdownPlain, JoinPlain, WaitPlain, ProbePlain, Refusing
    <3> QED
      BY <2>1, <3>1, <3>2, IdleFacts
  <2>2. CASE route # 0
    <3>1. Hold(w, route, "finish")
      BY <2>2 DEF DetachPoolByKey
    <3>2. Moves(w) /\ Keeps(w) /\ me'[w].pc = "finish" /\ me'[w].mine = route
      BY <1>1, <1>2, <1>4, <3>1, HoldFacts
    <3>3. WorkerOK(me'[w])
      BY <1>1, <1>2, <2>2, <3>2 DEF WorkerOK, Keeps, Holding, Refusing, Removing, Checking
    <3>4. Plain(w)
      BY <1>1, <1>2, <3>2 DEF Plain, ShutdownPlain, JoinPlain, WaitPlain, ProbePlain, Keeps, Refusing
    <3> QED
      BY <3>2, <3>3, <3>4
  <2> QED
    BY <2>1, <2>2
<1>6. TypeOK'
  BY <1>1, <1>2, <1>5 DEF TypeOK, Moves
<1> QED
  BY <1>1, <1>2, <1>3, <1>5, <1>6, TakeKeeps

\* finish_detach stops the key's keepalive task.
LEMMA FinishDetachKeeps ==
  ASSUME IndInv, NEW w \in Workers, FinishDetach(w)
  PROVE  IndInv'
<1>1. /\ me[w].pc = "finish" /\ TypeOK /\ WorkerOK(me[w]) /\ StopKeepalive /\ Goto(w, "clear")
      /\ UNCHANGED <<config, route, publication, life, broken, activity, preserved, draining, attempt, begun>>
      /\ UNCHANGED <<target, ka, taken, bg, accepting>>
  BY DEF FinishDetach, At, IndInv, WorkersOK, registry, pools, records, attempts
<1>2. me[w].op # "reclaim"
  BY <1>1 DEF WorkerOK, Reclaiming
<1>3. Moves(w) /\ WorkerOK(me'[w]) /\ Plain(w) /\ me'[w].mine = me[w].mine
  BY <1>1, <1>2, HoldingKept DEF Holding
<1>4. TasksGoOn /\ aborted' \subseteq Tasks /\ task' \in 0..MaxTasks /\ task' = 0
  BY <1>1, StopFacts DEF StopKeepalive
<1>5. TypeOK'
  BY <1>1, <1>3, <1>4 DEF TypeOK, Moves
<1> QED
  BY <1>1, <1>3, <1>4, <1>5, StopKeeps

\* finish_detach clears the key's records and hands the pool to a close task.
LEMMA FinishDetachClearKeeps ==
  ASSUME IndInv, NEW w \in Workers, FinishDetachClear(w)
  PROVE  IndInv'
<1>1. /\ me[w].pc = "clear" /\ TypeOK /\ WorkerOK(me[w]) /\ CloseInBackground({me[w].mine}) /\ Goto(w, "idle")
      /\ UNCHANGED <<config, route, publication, draining, attempt, begun>>
      /\ UNCHANGED <<task, target, ka, taken, aborted, accepting>>
      /\ activity' = "none" /\ preserved' = FALSE
  BY DEF FinishDetachClear, At, IndInv, WorkersOK, registry, attempts
<1>2. me[w].mine # 0 /\ me[w].op # "reclaim" /\ me[w].mine \in Pools
  BY <1>1, OwnersTyped, Numbers DEF WorkerOK, Holding, Reclaiming
<1>3. {me[w].mine} \ {0} = {me[w].mine} /\ {me[w].mine} \in SUBSET Pools
  BY <1>2
<1>4. /\ GivenUp({me[w].mine}) /\ LifeGoesOn
      /\ life' \in [Pools -> {"unborn", "open", "closed", "dropped"}] /\ broken' \subseteq Pools
      /\ \A p \in Pools : p \notin {me[w].mine} /\ p \in broken => p \in broken'
      /\ bg' \subseteq Pools /\ (~accepting => bg' = bg)
  BY <1>1, <1>3, BackgroundFacts
<1>5. "idle" \in Places
  BY DEF Places
<1>6. Moves(w) /\ me'[w] = Idle
  BY <1>1, <1>5, GotoFacts
<1>7. Plain(w)
  BY <1>1, <1>2, <1>6, IdleFacts DEF Plain, ShutdownPlain, JoinPlain, WaitPlain, ProbePlain, Refusing
<1>8. TypeOK'
  BY <1>1, <1>4, <1>6 DEF TypeOK, Moves
<1>9. GivenUp({me[w].mine} \ {0})
  BY <1>3, <1>4
<1>10. \A p \in Pools : p # me[w].mine /\ p \in broken => p \in broken'
  BY <1>4
<1>11. me'[w].mine = 0 /\ WorkerOK(me'[w])
  BY <1>6, IdleFacts
<1> QED
  BY <1>1, <1>4, <1>6, <1>7, <1>8, <1>9, <1>10, <1>11, GiveKeeps

-----------------------------------------------------------------------------
(* The idle reclamation.                                                   *)

\* begin_pool_drain, and the keepalive task is aborted
LEMMA BeginPoolDrainKeeps ==
  ASSUME IndInv, NEW w \in Workers, BeginPoolDrain(w)
  PROVE  IndInv'
<1>1. /\ me[w].pc = "idle" /\ TypeOK /\ WorkerOK(me[w]) /\ OwnersOK /\ KeepaliveOK
      /\ CountBegun /\ StopKeepalive /\ draining' = w
      /\ UNCHANGED <<config, route, publication, life, broken, activity, preserved, attempt>>
      /\ UNCHANGED <<target, ka, taken, bg, accepting>>
  BY DEF BeginPoolDrain, At, IndInv, WorkersOK, registry, pools, records
<1>2. Begins(w, "halted", "reclaim", task)
  BY DEF BeginPoolDrain, Begins
<1>3. "halted" \in Places /\ "reclaim" \in AllOps /\ task \in 0..(1 + MaxPub + MaxTasks)
  BY <1>1, CheckedTyped DEF Places, AllOps
<1>4. /\ Moves(w) /\ me'[w].pc = "halted" /\ me'[w].op = "reclaim" /\ me'[w].checked = task
      /\ me'[w].mine = me[w].mine /\ me'[w].then = me[w].then
  BY <1>1, <1>2, <1>3, BeginsFacts
<1>5. me[w].mine = 0 /\ me[w].op \notin {"reclaim", "shutdown"} /\ me[w].then = "idle" /\ task \in 0..MaxTasks
  BY <1>1, FreeFacts DEF Free, WorkerOK, TypeOK
<1>6. WorkerOK(me'[w])
  BY <1>1, <1>4, <1>5 DEF WorkerOK, Holding, Refusing, Removing, Checking, Reclaiming
<1>7. TasksGoOn /\ aborted' \subseteq Tasks /\ task' \in 0..MaxTasks /\ task' = 0 /\ begun' \in 0..MaxOps
  BY <1>1, StopFacts, CountFacts DEF StopKeepalive
<1>8. TypeOK'
  BY <1>1, <1>4, <1>7 DEF TypeOK, Moves
<1>9. \A v \in Workers : v # w => me'[v] = me[v]
  BY <1>4 DEF Moves
<1>10. OwnersOK'
  BY <1>1, <1>4, <1>9, OwnersStay
<1>11. LifeGoesOn
  BY <1>1 DEF LifeGoesOn, Dead
<1>12. KeepaliveOK'
  BY <1>1, <1>11, KeepaliveStays
<1>13. RouteGoesOn /\ SupervisorGoesOn
  BY <1>1, <1>7 DEF RouteGoesOn, SupervisorGoesOn
<1>14. ShutdownPlain(w) /\ JoinPlain(w) /\ ProbePlain(w)
  BY <1>1, <1>4 DEF ShutdownPlain, JoinPlain, ProbePlain, Refusing
<1>15. ShutdownOK' /\ LiveIsKnown' /\ ProbesOK'
  BY <1>7, <1>9, <1>13, <1>14, ShutdownStays, LiveStays, ProbesStay
<1>16. WorkersOK'
  BY <1>4, <1>6, WorkersStay DEF IndInv
<1>17. WaitersHaveWakers'
  <2>1. ASSUME NEW v \in Workers, me'[v].pc = "halted", me'[v].checked # 0
        PROVE  ka'[me'[v].checked] = "ended" \/ me'[v].checked \in aborted'
    <3>1. CASE v = w
      <4>1. me'[v].checked = task
        BY <1>4, <3>1
      <4>2. aborted' = aborted \cup {t \in {task} \ {0} : ka[t] # "ended"} /\ ka' = ka
        BY <1>1 DEF StopKeepalive, AbortKeepalive
      <4> QED
        BY <2>1, <4>1, <4>2
    <3>2. CASE v # w
      <4>1. me'[v] = me[v]
        BY <1>9, <3>2
      <4>2. me[v].checked \in Tasks
        BY <2>1, <4>1, Numbers DEF IndInv, WorkersOK, WorkerOK
      <4>3. ka[me[v].checked] = "ended" \/ me[v].checked \in aborted
        BY <2>1, <4>1 DEF IndInv, WaitersHaveWakers, At
      <4> QED
        BY <1>7, <4>1, <4>2, <4>3 DEF TasksGoOn
    <3> QED
      BY <3>1, <3>2
  <2> QED
    BY <1>1, <1>4, <2>1 DEF WaitersHaveWakers, At
<1> QED
  BY <1>8, <1>10, <1>12, <1>15, <1>16, <1>17 DEF IndInv

\* A reclamation without a pool goes on.
LEMMA ReclaimMoves ==
  ASSUME IndInv, NEW w \in Workers, me[w].pc \in {"halted", "take"}, NEW place \in {"take", "restart"}, Goto(w, place)
  PROVE  Moves(w) /\ WorkerOK(me'[w]) /\ Plain(w) /\ me'[w].mine = me[w].mine
<1>1. place \in Places /\ place # "idle" /\ TypeOK /\ WorkerOK(me[w])
  BY DEF Places, IndInv, WorkersOK
<1>2. Moves(w) /\ me'[w].pc = place /\ Keeps(w) /\ me'[w].mine = me[w].mine
  BY <1>1, GotoFacts
<1>3. WorkerOK(me'[w])
  BY <1>1, <1>2 DEF WorkerOK, Keeps, Holding, Refusing, Removing, Checking, Reclaiming
<1>4. Plain(w)
  BY <1>2 DEF Plain, ShutdownPlain, JoinPlain, WaitPlain, ProbePlain, Keeps, Refusing
<1> QED
  BY <1>2, <1>3, <1>4

\* The keepalive task has ended.
LEMMA ReclaimCheckKeeps ==
  ASSUME IndInv, NEW w \in Workers, ReclaimCheck(w)
  PROVE  IndInv'
<1>1. Quiet
  BY SilentIsQuiet DEF ReclaimCheck
<1>2. me[w].pc = "halted" /\ \E place \in {"take", "restart"} : Goto(w, place)
  BY DEF ReclaimCheck, At
<1>3. Moves(w) /\ WorkerOK(me'[w]) /\ Plain(w) /\ me'[w].mine = me[w].mine
  BY <1>2, ReclaimMoves
<1> QED
  BY <1>1, <1>3, QuietFacts, StepKeeps

\* try_reclaim_idle_agent_pool
LEMMA TakeIdleKeeps ==
  ASSUME IndInv, NEW w \in Workers, TakeIdle(w)
  PROVE  IndInv'
<1>1. /\ me[w].pc = "take" /\ TypeOK /\ WorkerOK(me[w])
      /\ UNCHANGED <<config, publication, life, broken, activity, preserved, draining, attempt, begun>>
      /\ UNCHANGED <<task, target, ka, taken, aborted, bg, accepting>>
  BY DEF TakeIdle, At, IndInv, WorkersOK, pools, records, attempts, tasks
<1>2. me[w].mine = 0 /\ me[w].op # "shutdown" /\ route \in 0..MaxPools /\ 0 \in 0..MaxPools
  BY <1>1, OwnersTyped, CheckedTyped DEF WorkerOK, Holding, Refusing, Removing
<1>3. CASE route # 0 /\ route' = 0 /\ Hold(w, route, "forget")
  <2>1. "forget" \in Places
    BY DEF Places
  <2>2. Moves(w) /\ Keeps(w) /\ me'[w].pc = "forget" /\ me'[w].mine = route
    BY <1>1, <1>2, <1>3, <2>1, HoldFacts
  <2>3. WorkerOK(me'[w])
    BY <1>1, <1>2, <1>3, <2>2 DEF WorkerOK, Keeps, Holding, Refusing, Removing, Checking, Reclaiming
  <2>4. Plain(w)
    BY <1>1, <1>2, <2>2 DEF Plain, ShutdownPlain, JoinPlain, WaitPlain, ProbePlain, Keeps, Refusing
  <2>5. TypeOK'
    BY <1>1, <1>2, <1>3, <2>2 DEF TypeOK, Moves
  <2>6. TasksGoOn
    BY <1>1, TasksStay
  <2> QED
    BY <1>1, <1>2, <1>3, <2>2, <2>3, <2>4, <2>5, <2>6, TakeKeeps
<1>4. CASE Goto(w, "restart") /\ UNCHANGED route
  <2>1. Quiet
    BY <1>1, <1>4 DEF Quiet, registry, pools, tasks, TypeOK
  <2>2. Moves(w) /\ WorkerOK(me'[w]) /\ Plain(w) /\ me'[w].mine = me[w].mine
    BY <1>1, <1>4, ReclaimMoves
  <2> QED
    BY <2>1, <2>2, QuietFacts, StepKeeps
<1> QED
  BY <1>3, <1>4 DEF TakeIdle, ExclusivelyIdle

\* The worker is done, and lifts the drain.
LEMMA DoneMoves ==
  ASSUME IndInv, NEW w \in Workers, me[w].pc \notin {"join", "cutOff"}, draining' = None, Goto(w, "idle")
  PROVE  Moves(w) /\ WorkerOK(me'[w]) /\ Plain(w) /\ me'[w].mine = 0
<1>1. "idle" \in Places /\ TypeOK
  BY DEF Places, IndInv
<1>2. Moves(w) /\ me'[w] = Idle
  BY <1>1, GotoFacts
<1>3. Plain(w)
  BY <1>2, IdleFacts DEF Plain, ShutdownPlain, JoinPlain, WaitPlain, ProbePlain, Refusing
<1> QED
  BY <1>2, <1>3, IdleFacts

\* restart_agent_keepalive
LEMMA RestartKeepaliveKeeps ==
  ASSUME IndInv, NEW w \in Workers, RestartKeepalive(w)
  PROVE  IndInv'
<1>1. /\ me[w].pc = "restart" /\ TypeOK /\ WorkerOK(me[w]) /\ OwnersOK /\ KeepaliveOK
      /\ draining' = None /\ Goto(w, "idle")
      /\ UNCHANGED <<config, route, publication, life, broken, activity, preserved, attempt, begun>>
      /\ UNCHANGED <<taken, bg, accepting>>
  BY DEF RestartKeepalive, At, IndInv, WorkersOK, registry, pools, records, attempts
<1>2. Moves(w) /\ WorkerOK(me'[w]) /\ Plain(w) /\ me'[w].mine = 0
  BY <1>1, DoneMoves
<1>3. me[w].mine = 0 /\ route \in 0..MaxPools
  BY <1>1, OwnersTyped DEF WorkerOK, Holding, Removing
<1>4. /\ KeepaliveOK' /\ TasksGoOn
      /\ aborted' \subseteq Tasks /\ task' \in 0..MaxTasks
      /\ ka' \in [Tasks -> {"none", "loop", "failed", "removed", "clearing", "ended"}]
      /\ target' \in [Tasks -> 0..MaxPools]
      /\ ~accepting => task' = task
  <2>1. CASE route # 0 /\ accepting
    <3>1. route \in Pools /\ life[route] = "open" /\ SpawnKeepalive(route)
      BY <1>1, <1>3, <2>1, Numbers DEF OwnersOK, OwnedIsOpen, RestartKeepalive
    <3> QED
      BY <1>1, <2>1, <3>1, SpawnFacts
  <2>2. CASE ~(route # 0 /\ accepting)
    <3>1. UNCHANGED <<task, target, ka, aborted>>
      BY <2>2 DEF RestartKeepalive
    <3>2. KeepaliveOK'
      BY <1>1, <3>1 DEF KeepaliveOK, Dead
    <3> QED
      BY <1>1, <3>1, <3>2, TasksStay DEF TypeOK
  <2> QED
    BY <2>1, <2>2
<1>5. TypeOK'
  BY <1>1, <1>2, <1>4 DEF TypeOK, Moves
<1>6. OwnersOK'
  BY <1>1, <1>2, <1>3, OwnersStay DEF Moves
<1>7. RouteGoesOn /\ SupervisorGoesOn
  BY <1>1, <1>4 DEF RouteGoesOn, SupervisorGoesOn
<1> QED
  BY <1>1, <1>2, <1>4, <1>5, <1>6, <1>7, StepKeeps

\* The record of use of the pool that is reclaimed
LEMMA ForgetReclaimedKeeps ==
  ASSUME IndInv, NEW w \in Workers, ForgetReclaimed(w)
  PROVE  IndInv'
<1>1. /\ me[w].pc = "forget" /\ TypeOK /\ Goto(w, "disconnecting")
      /\ UNCHANGED <<config, registry, pools, preserved, draining, attempt, begun, tasks>>
      /\ activity' = "none"
  BY DEF ForgetReclaimed, At, IndInv, attempts
<1>2. Quiet
  BY <1>1 DEF Quiet, TypeOK
<1>3. Moves(w) /\ WorkerOK(me'[w]) /\ Plain(w) /\ me'[w].mine = me[w].mine
  BY <1>1, HoldingKept DEF Holding, Reclaiming
<1> QED
  BY <1>2, <1>3, QuietFacts, StepKeeps

\* close_reclaimed_agent_pool
LEMMA CloseReclaimedKeeps ==
  ASSUME IndInv, NEW w \in Workers, CloseReclaimed(w)
  PROVE  IndInv'
<1> DEFINE m == me[w].mine
<1>1. /\ me[w].pc = "disconnecting" /\ TypeOK /\ WorkerOK(me[w])
      /\ UNCHANGED <<config, route, publication, activity, preserved, attempt, begun>>
      /\ UNCHANGED <<task, target, ka, taken, aborted, bg, accepting>>
  BY DEF CloseReclaimed, At, IndInv, WorkersOK, registry, records, attempts, tasks
<1>2. CASE Close({m}) /\ draining' = None /\ Goto(w, "idle")
  <2>1. Moves(w) /\ WorkerOK(me'[w]) /\ Plain(w) /\ me'[w].mine = 0
    BY <1>1, <1>2, DoneMoves
  <2>2. /\ Gone({m}) /\ LifeGoesOn
        /\ life' \in [Pools -> {"unborn", "open", "closed", "dropped"}] /\ broken' \subseteq Pools
        /\ \A p \in Pools : p \notin {m} /\ p \in broken => p \in broken'
    BY <1>1, <1>2, EndFacts
  <2>3. GivenUp({m} \ {0})
    BY <1>1, <2>2, Numbers DEF GivenUp, Gone
  <2>4. TypeOK'
    BY <1>1, <1>2, <2>1, <2>2 DEF TypeOK, Moves
  <2>5. \A p \in Pools : p # m /\ p \in broken => p \in broken'
    BY <2>2
  <2> QED
    BY <1>1, <1>2, <2>1, <2>2, <2>3, <2>4, <2>5, GiveKeeps
<1>3. CASE Goto(w, "restore") /\ UNCHANGED <<pools, draining>>
  <2>1. Quiet
    BY <1>1, <1>3 DEF Quiet, registry, pools, tasks, TypeOK
  <2>2. Moves(w) /\ WorkerOK(me'[w]) /\ Plain(w) /\ me'[w].mine = me[w].mine
    BY <1>1, <1>3, HoldingKept DEF Holding, Reclaiming
  <2> QED
    BY <2>1, <2>2, QuietFacts, StepKeeps
<1> QED
  BY <1>2, <1>3 DEF CloseReclaimed

\* restore_reclaimed_agent_pool
LEMMA RestoreReclaimedKeeps ==
  ASSUME IndInv, NEW w \in Workers, RestoreReclaimed(w)
  PROVE  IndInv'
<1>1. /\ me[w].pc = "restore" /\ TypeOK /\ WorkerOK(me[w]) /\ OwnersOK /\ KeepaliveOK /\ Insert(me[w].mine)
      /\ UNCHANGED <<config, life, broken, preserved, attempt, begun>>
      /\ UNCHANGED <<taken, bg, accepting>>
      /\ draining' = (IF route = 0 THEN None ELSE draining)
  BY DEF RestoreReclaimed, At, IndInv, WorkersOK, pools, attempts
<1>2. me[w].mine # 0 /\ me[w].mine \in Pools /\ route \in 0..MaxPools /\ me[w].op # "shutdown"
  BY <1>1, OwnersTyped, Numbers DEF WorkerOK, Holding, Refusing
<1>3. life[me[w].mine] = "open"
  BY <1>1, <1>2 DEF OwnersOK, OwnedIsOpen
<1>4. /\ KeepaliveOK' /\ TasksGoOn /\ RouteGoesOn
      /\ aborted' \subseteq Tasks /\ task' \in 0..MaxTasks
      /\ ka' \in [Tasks -> {"none", "loop", "failed", "removed", "clearing", "ended"}]
      /\ target' \in [Tasks -> 0..MaxPools]
      /\ publication' \in 0..MaxPub /\ route' \in 0..MaxPools
      /\ route' = me[w].mine /\ activity' = "fresh"
      /\ ~accepting => task' = 0
  BY <1>1, <1>2, <1>3, InsertFacts
<1>5. Moves(w) /\ WorkerOK(me'[w]) /\ Plain(w) /\ me'[w].mine = route
  <2>1. CASE route = 0
    BY <1>1, <2>1, DoneMoves DEF RestoreReclaimed
  <2>2. CASE route # 0
    <3>1. CloseThen(w, route, "idle")
      BY <2>2 DEF RestoreReclaimed
    <3> QED
      BY <1>1, <1>2, <3>1, CloseThenKept
  <2> QED
    BY <2>1, <2>2
<1>6. draining' = draining \/ draining' = None
  BY <1>1
<1>7. TypeOK'
  BY <1>1, <1>4, <1>5, <1>6 DEF TypeOK, Moves
<1>8. OwnersOK'
  BY <1>1, <1>4, <1>5, OwnersSwap
<1>9. SupervisorGoesOn
  BY <1>1, <1>4 DEF SupervisorGoesOn
<1> QED
  BY <1>4, <1>5, <1>6, <1>7, <1>8, <1>9, StepKeeps

-----------------------------------------------------------------------------
(* Steps of the supervisor's tasks and of the environment.                 *)

\* The invariant from its parts, for a step of no worker.
LEMMA TaskStepKeeps ==
  ASSUME IndInv, UNCHANGED <<me, draining>>, TypeOK', OwnersOK', KeepaliveOK',
         TasksGoOn, RouteGoesOn, SupervisorGoesOn
  PROVE  IndInv'
<1>1. WorkersOK'
  BY DEF IndInv, WorkersOK
<1>2. ShutdownOK' /\ LiveIsKnown' /\ WaitersHaveWakers' /\ ProbesOK'
  BY RestStays
<1> QED
  BY <1>1, <1>2 DEF IndInv

\* A running keepalive task goes on, or ends and is no longer aborted.
LEMMA KeepaliveGoesFacts ==
  ASSUME TypeOK, NEW t \in Tasks, Live(t), NEW place \in {"failed", "removed", "ended"},
         KeepaliveGoes(t, place), UNCHANGED task
  PROVE  /\ TasksGoOn /\ aborted' \subseteq Tasks
         /\ ka' \in [Tasks -> {"none", "loop", "failed", "removed", "clearing", "ended"}]
         /\ ka'[t] = place /\ \A u \in Tasks \ {t} : ka'[u] = ka[u]
<1>1. /\ ka' \in [Tasks -> {"none", "loop", "failed", "removed", "clearing", "ended"}]
      /\ ka'[t] = place /\ \A u \in Tasks \ {t} : ka'[u] = ka[u]
  BY DEF KeepaliveGoes, TypeOK
<1>2. /\ aborted' \subseteq Tasks
      /\ \A u \in Tasks \ {t} : u \in aborted => u \in aborted'
      /\ t \in aborted => t \in aborted' \/ place = "ended"
  BY DEF KeepaliveGoes, TypeOK
<1>3. TasksGoOn
  BY <1>1, <1>2 DEF TasksGoOn, Live
<1> QED
  BY <1>1, <1>2, <1>3

\* What one keepalive task must be like after its step.
LEMMA KeepaliveMoves ==
  ASSUME TypeOK, KeepaliveOK, LifeGoesOn, NEW t \in Tasks, ka[t] # "none", UNCHANGED target,
         \A u \in Tasks \ {t} : ka'[u] = ka[u] /\ taken'[u] = taken[u],
         taken'[t] # 0 <=> ka'[t] \in {"removed", "clearing"},
         ka'[t] = "failed" => Dead(target[t])
  PROVE  KeepaliveOK'
<1> SUFFICES ASSUME NEW u \in Tasks
             PROVE  /\ taken'[u] # 0 <=> ka'[u] \in {"removed", "clearing"}
                    /\ ka'[u] # "none" => target[u] # 0 /\ life'[target[u]] # "unborn"
                    /\ ka'[u] = "failed" => Dead(target[u])'
  BY DEF KeepaliveOK
<1>1. /\ taken[u] # 0 <=> ka[u] \in {"removed", "clearing"}
      /\ ka[u] # "none" => target[u] # 0 /\ life[target[u]] # "unborn"
      /\ ka[u] = "failed" => Dead(target[u])
  BY DEF KeepaliveOK
<1>2. target[u] # 0 => target[u] \in Pools
  BY Numbers DEF TypeOK
<1>3. CASE u = t
  BY <1>1, <1>2, <1>3 DEF LifeGoesOn, Dead
<1>4. CASE u # t
  BY <1>1, <1>2, <1>4 DEF LifeGoesOn, Dead
<1> QED
  BY <1>3, <1>4

\* The keepalive task ends or gives its pool up, and takes nothing.
LEMMA KeepaliveTurnKeeps ==
  ASSUME IndInv, NEW t \in Tasks, ka[t] \in {"loop", "failed"}, NEW place \in {"failed", "ended"},
         KeepaliveGoes(t, place), place = "failed" => Dead(target[t]),
         UNCHANGED <<config, registry, pools, records, draining, attempts, task, target, taken, bg, accepting, me>>
  PROVE  IndInv'
<1>1. /\ TypeOK /\ OwnersOK /\ KeepaliveOK /\ Live(t)
      /\ UNCHANGED <<config, route, publication, life, broken, activity, preserved, draining, attempt, begun>>
      /\ UNCHANGED <<task, target, taken, bg, accepting, me>>
  BY DEF IndInv, Live, registry, pools, records, attempts
<1>2. /\ TasksGoOn /\ aborted' \subseteq Tasks
      /\ ka' \in [Tasks -> {"none", "loop", "failed", "removed", "clearing", "ended"}]
      /\ ka'[t] = place /\ \A u \in Tasks \ {t} : ka'[u] = ka[u]
  BY <1>1, KeepaliveGoesFacts
<1>3. TypeOK'
  BY <1>1, <1>2 DEF TypeOK
<1>4. OwnersOK'
  BY <1>1, OwnersStay
<1>5. LifeGoesOn /\ RouteGoesOn /\ SupervisorGoesOn
  BY <1>1 DEF LifeGoesOn, Dead, RouteGoesOn, SupervisorGoesOn
<1>6. taken'[t] # 0 <=> ka'[t] \in {"removed", "clearing"}
  BY <1>1, <1>2 DEF KeepaliveOK
<1>7. KeepaliveOK'
  BY <1>1, <1>2, <1>5, <1>6, KeepaliveMoves
<1> QED
  BY <1>1, <1>2, <1>3, <1>4, <1>5, <1>7, TaskStepKeeps

\* detach_keepalive_target_if_current
LEMMA KeepaliveDetachKeeps ==
  ASSUME IndInv, NEW t \in Tasks, KeepaliveDetach(t)
  PROVE  IndInv'
<1>1. /\ ka[t] = "failed" /\ TypeOK /\ OwnersOK /\ KeepaliveOK /\ Live(t)
      /\ UNCHANGED <<config, publication, life, broken, activity, preserved, draining, attempt, begun>>
      /\ UNCHANGED <<task, target, bg, accepting, me>>
  BY DEF KeepaliveDetach, IndInv, Live, pools, records, attempts
<1>2. CASE Matches(target[t])
  <2>1. taken' = [taken EXCEPT ![t] = route] /\ route' = 0 /\ KeepaliveGoes(t, "removed")
    BY <1>2 DEF KeepaliveDetach
  <2>2. taken[t] = 0 /\ target[t] # 0
    BY <1>1 DEF KeepaliveOK
  <2>3. route # 0 /\ route \in 0..MaxPools /\ 0 \in 0..MaxPools
    BY <1>1, <1>2, <2>2, OwnersTyped, CheckedTyped DEF Matches
  <2>4. /\ TasksGoOn /\ aborted' \subseteq Tasks
        /\ ka' \in [Tasks -> {"none", "loop", "failed", "removed", "clearing", "ended"}]
        /\ ka'[t] = "removed" /\ \A u \in Tasks \ {t} : ka'[u] = ka[u]
    BY <1>1, <2>1, KeepaliveGoesFacts
  <2>5. /\ taken' \in [Tasks -> 0..MaxPools] /\ taken'[t] = route
        /\ \A u \in Tasks \ {t} : taken'[u] = taken[u]
    BY <1>1, <2>1, <2>3 DEF TypeOK
  <2>6. TypeOK'
    BY <1>1, <2>1, <2>3, <2>4, <2>5 DEF TypeOK
  <2>7. OwnersOK'
    BY <1>1, <2>1, <2>2, OwnersTaskTakes
  <2>8. LifeGoesOn /\ RouteGoesOn /\ SupervisorGoesOn
    BY <1>1, <2>1, <2>3 DEF LifeGoesOn, Dead, RouteGoesOn, SupervisorGoesOn
  <2>9. KeepaliveOK'
    BY <1>1, <2>3, <2>4, <2>5, <2>8, KeepaliveMoves
  <2> QED
    BY <1>1, <2>4, <2>6, <2>7, <2>8, <2>9, TaskStepKeeps
<1>3. CASE ~Matches(target[t])
  <2>1. KeepaliveGoes(t, "ended") /\ UNCHANGED <<route, taken>>
    BY <1>3 DEF KeepaliveDetach
  <2> QED
    BY <1>1, <2>1, KeepaliveTurnKeeps DEF registry, pools, records, attempts
<1> QED
  BY <1>2, <1>3

\* finish_detach stops the key's keepalive
LEMMA KeepaliveStopsKeyKeeps ==
  ASSUME IndInv, NEW t \in Tasks, KeepaliveStopsKey(t)
  PROVE  IndInv'
<1>1. /\ ka[t] = "removed" /\ TypeOK /\ OwnersOK /\ KeepaliveOK /\ task' = 0
      /\ UNCHANGED <<config, route, publication, life, broken, activity, preserved, draining, attempt, begun>>
      /\ UNCHANGED <<target, taken, bg, accepting, me>>
  BY DEF KeepaliveStopsKey, IndInv, registry, pools, records, attempts
<1>2. /\ ka' \in [Tasks -> {"none", "loop", "failed", "removed", "clearing", "ended"}]
      /\ ka'[t] = "clearing" /\ \A u \in Tasks \ {t} : ka'[u] = ka[u]
  BY <1>1 DEF KeepaliveStopsKey, TypeOK
<1>3. aborted' = aborted \cup {u \in {task} \ {0} : ka[u] # "ended"}
  BY DEF KeepaliveStopsKey, AbortKeepalive
<1>4. aborted \subseteq Tasks /\ task \in 0..MaxTasks /\ 0 \in 0..MaxTasks
  BY <1>1, ConstantsAssumption DEF TypeOK
<1>5. aborted' \subseteq Tasks
  BY <1>3, <1>4, Numbers
<1>6. \A u \in Tasks : /\ u \in aborted => u \in aborted'
                       /\ u = task => u \in aborted' \/ ka[u] = "ended"
  BY <1>3, Numbers
<1>7. TasksGoOn
  BY <1>1, <1>2, <1>6 DEF TasksGoOn, Live
<1>8. TypeOK'
  BY <1>1, <1>2, <1>4, <1>5 DEF TypeOK
<1>9. OwnersOK'
  BY <1>1, OwnersStay
<1>10. LifeGoesOn /\ RouteGoesOn /\ SupervisorGoesOn
  BY <1>1 DEF LifeGoesOn, Dead, RouteGoesOn, SupervisorGoesOn
<1>11. taken'[t] # 0
  BY <1>1 DEF KeepaliveOK
<1>12. KeepaliveOK'
  BY <1>1, <1>2, <1>10, <1>11, KeepaliveMoves
<1> QED
  BY <1>1, <1>7, <1>8, <1>9, <1>10, <1>12, TaskStepKeeps

\* The keepalive task ends and gives the pool up that it has detached, if any.
LEMMA KeepaliveGivesKeeps ==
  ASSUME IndInv, NEW t \in Tasks, Live(t), KeepaliveGoes(t, "ended"),
         taken' = [taken EXCEPT ![t] = 0], GivenUp({taken[t]} \ {0}), LifeGoesOn,
         life' \in [Pools -> {"unborn", "open", "closed", "dropped"}], broken' \subseteq Pools,
         \A p \in Pools : p # taken[t] /\ p \in broken => p \in broken',
         bg' \subseteq Pools, ~accepting => bg' = bg,
         activity' \in {"none", "fresh", "old"}, preserved' \in BOOLEAN,
         UNCHANGED <<config, route, publication, draining, attempt, begun, task, target, accepting, me>>
  PROVE  IndInv'
<1>1. TypeOK /\ OwnersOK /\ KeepaliveOK
  BY DEF IndInv
<1>2. /\ TasksGoOn /\ aborted' \subseteq Tasks
      /\ ka' \in [Tasks -> {"none", "loop", "failed", "removed", "clearing", "ended"}]
      /\ ka'[t] = "ended" /\ \A u \in Tasks \ {t} : ka'[u] = ka[u]
  BY <1>1, KeepaliveGoesFacts
<1>3. 0 \in 0..MaxPools /\ route \in 0..MaxPools
  BY <1>1, CheckedTyped, OwnersTyped
<1>4. /\ taken' \in [Tasks -> 0..MaxPools] /\ taken'[t] = 0
      /\ \A u \in Tasks \ {t} : taken'[u] = taken[u]
  BY <1>1, <1>3 DEF TypeOK
<1>5. TypeOK'
  BY <1>1, <1>2, <1>4 DEF TypeOK
<1>6. OwnersOK'
  BY <1>1, OwnersTaskGives
<1>7. KeepaliveOK'
  BY <1>1, <1>2, <1>4, KeepaliveMoves DEF Live
<1>8. route # 0 => route \in Pools /\ route # taken[t]
  BY <1>1, <1>3, Numbers DEF OwnersOK, Apart
<1>9. RouteGoesOn /\ SupervisorGoesOn
  BY <1>8 DEF RouteGoesOn, SupervisorGoesOn
<1> QED
  BY <1>2, <1>5, <1>6, <1>7, <1>9, TaskStepKeeps

\* finish_detach clears the records and closes the pool
LEMMA KeepaliveClearKeeps ==
  ASSUME IndInv, NEW t \in Tasks, KeepaliveClear(t)
  PROVE  IndInv'
<1>1. /\ ka[t] = "clearing" /\ TypeOK /\ KeepaliveOK /\ CloseInBackground({taken[t]})
      /\ taken' = [taken EXCEPT ![t] = 0] /\ KeepaliveGoes(t, "ended")
      /\ activity' = "none" /\ preserved' = FALSE
      /\ UNCHANGED <<config, route, publication, draining, attempt, begun, task, target, accepting, me>>
  BY DEF KeepaliveClear, IndInv, registry, attempts
<1>2. taken[t] # 0 /\ taken[t] \in Pools
  BY <1>1, OwnersTyped, Numbers DEF KeepaliveOK
<1>3. /\ GivenUp({taken[t]}) /\ LifeGoesOn
      /\ life' \in [Pools -> {"unborn", "open", "closed", "dropped"}] /\ broken' \subseteq Pools
      /\ \A p \in Pools : p \notin {taken[t]} /\ p \in broken => p \in broken'
      /\ bg' \subseteq Pools /\ (~accepting => bg' = bg)
  <2>1. {taken[t]} \in SUBSET Pools
    BY <1>2
  <2> QED
    BY <1>1, <2>1, BackgroundFacts
<1>4. GivenUp({taken[t]} \ {0})
  <2>1. {taken[t]} \ {0} = {taken[t]}
    BY <1>2
  <2> QED
    BY <1>3, <2>1
<1>5. \A p \in Pools : p # taken[t] /\ p \in broken => p \in broken'
  BY <1>3
<1>6. Live(t) /\ activity' \in {"none", "fresh", "old"} /\ preserved' \in BOOLEAN
  BY <1>1 DEF Live
<1> QED
  BY <1>1, <1>3, <1>4, <1>5, <1>6, KeepaliveGivesKeeps

\* An aborted task lets its pool go
LEMMA KeepaliveCancelledKeeps ==
  ASSUME IndInv, NEW t \in Tasks, KeepaliveCancelled(t)
  PROVE  IndInv'
<1>1. /\ ka[t] \in {"failed", "clearing"} /\ TypeOK /\ LetGo({taken[t]} \ {0})
      /\ taken' = [taken EXCEPT ![t] = 0] /\ KeepaliveGoes(t, "ended")
      /\ UNCHANGED <<config, route, publication, activity, preserved, draining, attempt, begun>>
      /\ UNCHANGED <<task, target, bg, accepting, me>>
  BY DEF KeepaliveCancelled, IndInv, registry, records, attempts
<1>2. /\ Gone({taken[t]} \ {0}) /\ LifeGoesOn
      /\ life' \in [Pools -> {"unborn", "open", "closed", "dropped"}] /\ broken' \subseteq Pools
      /\ \A p \in Pools : p \notin {taken[t]} \ {0} /\ p \in broken => p \in broken'
  BY <1>1, EndFacts
<1>3. GivenUp({taken[t]} \ {0})
  BY <1>1, <1>2 DEF GivenUp
<1>4. \A p \in Pools : p # taken[t] /\ p \in broken => p \in broken'
  BY <1>2
<1>5. /\ Live(t) /\ activity' \in {"none", "fresh", "old"} /\ preserved' \in BOOLEAN
      /\ bg' \subseteq Pools
  BY <1>1 DEF Live, TypeOK
<1> QED
  BY <1>1, <1>2, <1>3, <1>4, <1>5, KeepaliveGivesKeeps

\* The steps of a keepalive task.
LEMMA KeepaliveStepKeeps ==
  ASSUME IndInv, NEW t \in Tasks, KeepaliveStep(t)
  PROVE  IndInv'
<1>1. CASE KeepaliveEnds(t)
  BY <1>1, KeepaliveTurnKeeps DEF KeepaliveEnds
<1>2. CASE KeepaliveFails(t)
  BY <1>2, KeepaliveTurnKeeps DEF KeepaliveFails, Dead
<1> QED
  BY <1>1, <1>2, KeepaliveDetachKeeps, KeepaliveStopsKeyKeeps, KeepaliveClearKeeps,
     KeepaliveCancelledKeeps DEF KeepaliveStep

\* A close task of the supervisor
LEMMA CloseTaskKeeps ==
  ASSUME IndInv, NEW p \in Pools, CloseTask(p)
  PROVE  IndInv'
<1>1. /\ p \in bg /\ bg' = bg \ {p} /\ Close({p}) /\ TypeOK /\ OwnersOK /\ KeepaliveOK
      /\ UNCHANGED <<config, route, publication, activity, preserved, draining, attempt, begun>>
      /\ UNCHANGED <<task, target, ka, taken, aborted, accepting, me>>
  BY DEF CloseTask, IndInv, registry, records, attempts
<1>2. /\ Gone({p}) /\ LifeGoesOn
      /\ life' \in [Pools -> {"unborn", "open", "closed", "dropped"}] /\ broken' \subseteq Pools
      /\ \A q \in Pools : q \notin {p} /\ q \in broken => q \in broken'
  BY <1>1, EndFacts
<1>3. TypeOK'
  BY <1>1, <1>2 DEF TypeOK
<1>4. OwnersOK'
  BY <1>1, <1>2, OwnersTasksClose
<1>5. KeepaliveOK' /\ TasksGoOn
  BY <1>1, <1>2, KeepaliveStays, TasksStay
<1>6. route # 0 => route \in Pools /\ route # p
  BY <1>1, OwnersTyped, Numbers DEF OwnersOK, Apart
<1>7. RouteGoesOn /\ SupervisorGoesOn
  BY <1>1, <1>2, <1>6 DEF RouteGoesOn, SupervisorGoesOn
<1> QED
  BY <1>1, <1>3, <1>4, <1>5, <1>7, TaskStepKeeps

\* A pool breaks.
LEMMA BreakKeeps ==
  ASSUME IndInv, NEW p \in Pools, Break(p)
  PROVE  IndInv'
<1>1. /\ broken' = broken \cup {p} /\ TypeOK /\ OwnersOK /\ KeepaliveOK
      /\ UNCHANGED <<config, route, publication, life, activity, preserved, draining, attempt, begun>>
      /\ UNCHANGED <<task, target, ka, taken, aborted, bg, accepting, me>>
  BY DEF Break, IndInv, registry, records, attempts, tasks
<1>2. TypeOK'
  BY <1>1 DEF TypeOK
<1>3. OwnersOK'
  BY <1>1, OwnersStay
<1>4. LifeGoesOn /\ RouteGoesOn /\ SupervisorGoesOn
  BY <1>1 DEF LifeGoesOn, Dead, RouteGoesOn, SupervisorGoesOn
<1>5. KeepaliveOK' /\ TasksGoOn
  BY <1>1, <1>4, KeepaliveStays, TasksStay
<1> QED
  BY <1>1, <1>2, <1>3, <1>4, <1>5, TaskStepKeeps

\* Time passes.
LEMMA TimePassesKeeps ==
  ASSUME IndInv, TimePasses
  PROVE  IndInv'
<1>1. /\ activity' = "old" /\ TypeOK /\ OwnersOK /\ KeepaliveOK
      /\ UNCHANGED <<config, route, publication, life, broken, preserved, draining, attempt, begun>>
      /\ UNCHANGED <<task, target, ka, taken, aborted, bg, accepting, me>>
  BY DEF TimePasses, IndInv, registry, pools, attempts, tasks
<1>2. TypeOK'
  BY <1>1 DEF TypeOK
<1>3. OwnersOK'
  BY <1>1, OwnersStay
<1>4. LifeGoesOn /\ RouteGoesOn /\ SupervisorGoesOn
  BY <1>1 DEF LifeGoesOn, Dead, RouteGoesOn, SupervisorGoesOn
<1>5. KeepaliveOK' /\ TasksGoOn
  BY <1>1, <1>4, KeepaliveStays, TasksStay
<1> QED
  BY <1>1, <1>2, <1>3, <1>4, <1>5, TaskStepKeeps

-----------------------------------------------------------------------------
(* The shutdown of the supervisor.                                         *)

\* The supervisor refuses tasks.
LEMMA RefuseTasksKeeps ==
  ASSUME IndInv, NEW w \in Workers, RefuseTasks(w)
  PROVE  IndInv'
<1>1. /\ me[w].pc = "refuse" /\ TypeOK /\ WorkerOK(me[w]) /\ OwnersOK /\ KeepaliveOK /\ accepting' = FALSE
      /\ Goto(w, "takeTasks") /\ "takeTasks" \in Places
      /\ UNCHANGED <<config, route, publication, life, broken, activity, preserved, draining, attempt, begun>>
      /\ UNCHANGED <<task, target, ka, taken, aborted, bg>>
  BY DEF RefuseTasks, At, IndInv, WorkersOK, Places, registry, pools, records, attempts
<1>2. me[w].op = "shutdown"
  BY <1>1 DEF WorkerOK
<1>3. Moves(w) /\ me'[w].pc = "takeTasks" /\ Keeps(w) /\ me'[w].mine = me[w].mine
  BY <1>1, <1>2, GotoFacts
<1>4. /\ \A v \in Workers : v # w => me'[v] = me[v]
      /\ \A v \in Workers : me'[v].mine = me[v].mine /\ me'[v].op = me[v].op
  BY <1>2, <1>3 DEF Moves, Keeps
<1>5. WorkerOK(me'[w])
  BY <1>1, <1>2, <1>3 DEF WorkerOK, Keeps, Holding, Refusing, Removing, Checking
<1>6. WorkersOK'
  BY <1>3, <1>5, WorkersStay DEF IndInv
<1>7. TypeOK'
  BY <1>1, <1>3 DEF TypeOK, Moves
<1>8. OwnersOK'
  BY <1>1, <1>4, OwnersStay
<1>9. LifeGoesOn /\ RouteGoesOn
  BY <1>1 DEF LifeGoesOn, Dead, RouteGoesOn
<1>10. KeepaliveOK' /\ TasksGoOn
  BY <1>1, <1>9, KeepaliveStays, TasksStay
<1>11. ShutdownOK'
  BY <1>1, <1>3, <1>4 DEF IndInv, ShutdownOK, Refusing
<1>12. JoinPlain(w) /\ WaitPlain(w) /\ ProbePlain(w)
  BY <1>1, <1>2, <1>3 DEF JoinPlain, WaitPlain, ProbePlain
<1>13. LiveIsKnown' /\ WaitersHaveWakers' /\ ProbesOK'
  BY <1>1, <1>4, <1>9, <1>10, <1>12, LiveStays, WaitersStay, ProbesStay
<1> QED
  BY <1>6, <1>7, <1>8, <1>10, <1>11, <1>13 DEF IndInv

\* The registered task is taken out, and the shutdown remembers it.
LEMMA TakeTasksKeeps ==
  ASSUME IndInv, NEW w \in Workers, TakeTasks(w)
  PROVE  IndInv'
<1>1. /\ me[w].pc = "takeTasks" /\ TypeOK /\ WorkerOK(me[w]) /\ OwnersOK /\ KeepaliveOK /\ task' = 0
      /\ "join" \in Places
      /\ UNCHANGED <<config, route, publication, life, broken, activity, preserved, draining, attempt, begun>>
      /\ UNCHANGED <<target, ka, taken, aborted, bg, accepting>>
  BY DEF TakeTasks, At, IndInv, WorkersOK, Places, registry, pools, records, attempts
<1>2. me[w].op = "shutdown" /\ task \in 0..MaxTasks /\ 0 \in 0..MaxTasks
  BY <1>1, ConstantsAssumption DEF WorkerOK, Holding, Refusing, TypeOK
<1>3. /\ Moves(w) /\ me'[w].pc = "join" /\ me'[w].checked = task
      /\ me'[w].op = me[w].op /\ me'[w].mine = me[w].mine
      /\ me'[w].then = me[w].then /\ me'[w].handle = me[w].handle
  <2> DEFINE r == [me[w] EXCEPT !.checked = task, !.pc = "join"]
  <2>1. me[w] \in Worker /\ me \in [Workers -> Worker] /\ task \in 0..(1 + MaxPub + MaxTasks)
    BY <1>1, CheckedTyped DEF TypeOK
  <2>2. /\ r \in Worker /\ r.pc = "join" /\ r.checked = task /\ r.op = me[w].op
        /\ r.mine = me[w].mine /\ r.then = me[w].then /\ r.handle = me[w].handle
    BY <1>1, <2>1 DEF Worker
  <2>3. me' = [me EXCEPT ![w] = r]
    BY <2>1 DEF TakeTasks
  <2> HIDE DEF r
  <2> QED
    BY <2>1, <2>2, <2>3 DEF Moves
<1>4. /\ \A v \in Workers : v # w => me'[v] = me[v]
      /\ \A v \in Workers : me'[v].mine = me[v].mine /\ me'[v].op = me[v].op
  BY <1>3 DEF Moves
<1>5. WorkerOK(me'[w])
  BY <1>1, <1>2, <1>3 DEF WorkerOK, Holding, Refusing, Removing, Checking
<1>6. WorkersOK'
  BY <1>3, <1>5, WorkersStay DEF IndInv
<1>7. TypeOK'
  BY <1>1, <1>2, <1>3 DEF TypeOK, Moves
<1>8. OwnersOK'
  BY <1>1, <1>4, OwnersStay
<1>9. LifeGoesOn /\ RouteGoesOn
  BY <1>1 DEF LifeGoesOn, Dead, RouteGoesOn
<1>10. KeepaliveOK'
  BY <1>1, <1>9, KeepaliveStays
<1>11. ShutdownOK'
  BY <1>1, <1>3, <1>4 DEF IndInv, ShutdownOK, Refusing
<1>12. LiveIsKnown'
  <2> SUFFICES ASSUME NEW t \in Tasks, Live(t)
               PROVE  t \in aborted \/ \E v \in Workers : me'[v].pc \in {"join", "cutOff"} /\ me'[v].checked = t
    BY <1>1 DEF LiveIsKnown, Live
  <2>1. t = task \/ t \in aborted \/ \E v \in Workers : me[v].pc \in {"join", "cutOff"} /\ me[v].checked = t
    BY DEF IndInv, LiveIsKnown
  <2> QED
    BY <1>1, <1>3, <1>4, <2>1
<1>13. WaitersHaveWakers'
  <2>1. draining # None => draining \in Workers
    BY <1>1 DEF TypeOK
  <2>2. \A v \in Workers : me'[v].pc = "halted" => me'[v] = me[v]
    BY <1>3, <1>4
  <2> QED
    BY <1>1, <1>4, <2>1, <2>2 DEF IndInv, WaitersHaveWakers, At
<1>14. ProbesOK'
  BY <1>3, <1>4, <1>9, ProbesStay DEF ProbePlain
<1> QED
  BY <1>6, <1>7, <1>8, <1>10, <1>11, <1>12, <1>13, <1>14 DEF IndInv

\* The tasks have ended, or are aborted.
LEMMA JoinTasksKeeps ==
  ASSUME IndInv, NEW w \in Workers, JoinTasks(w)
  PROVE  IndInv'
<1> DEFINE left == {t \in {me[w].checked} \ {0} : ka[t] # "ended"}
<1>1. /\ me[w].pc = "join" /\ TypeOK /\ WorkerOK(me[w]) /\ OwnersOK /\ KeepaliveOK
      /\ Goto(w, "joined") /\ "joined" \in Places
      /\ UNCHANGED <<config, route, publication, activity, preserved, draining, attempt, begun>>
      /\ UNCHANGED <<task, target, ka, taken, accepting>>
  BY DEF JoinTasks, At, IndInv, WorkersOK, Places, registry, records, attempts
<1>2. me[w].op = "shutdown" /\ me[w].checked \in 0..MaxTasks
  BY <1>1 DEF WorkerOK, Refusing
<1>3. Moves(w) /\ me'[w].pc = "joined" /\ Keeps(w) /\ me'[w].mine = me[w].mine
  BY <1>1, <1>2, GotoFacts
<1>4. /\ \A v \in Workers : v # w => me'[v] = me[v]
      /\ \A v \in Workers : me'[v].mine = me[v].mine /\ me'[v].op = me[v].op
  BY <1>2, <1>3 DEF Moves, Keeps
<1>5. WorkerOK(me'[w])
  BY <1>1, <1>2, <1>3 DEF WorkerOK, Keeps, Holding, Refusing, Removing, Checking
<1>6. WorkersOK'
  BY <1>3, <1>5, WorkersStay DEF IndInv
<1>7. /\ OwnersOK' /\ LifeGoesOn /\ bg' = {}
      /\ life' \in [Pools -> {"unborn", "open", "closed", "dropped"}] /\ broken' \subseteq Pools
      /\ \A p \in Pools : p \notin bg /\ p \in broken => p \in broken'
      /\ aborted \subseteq aborted' /\ aborted' \subseteq Tasks /\ left \subseteq aborted'
  <2>1. left \subseteq Tasks /\ aborted \subseteq Tasks
    BY <1>1, <1>2, Numbers DEF TypeOK
  <2>2. CASE left = {} /\ bg = {} /\ UNCHANGED <<pools, bg, aborted>>
    <3>1. UNCHANGED <<life, broken, bg, aborted>>
      BY <2>2 DEF pools
    <3>2. OwnersOK'
      BY <1>1, <1>4, <3>1, OwnersStay
    <3> QED
      BY <1>1, <2>1, <2>2, <3>1, <3>2 DEF LifeGoesOn, Dead, TypeOK
  <2>3. CASE aborted' = aborted \cup left /\ LetGo(bg) /\ bg' = {}
    <3>1. /\ Gone(bg) /\ LifeGoesOn
          /\ life' \in [Pools -> {"unborn", "open", "closed", "dropped"}] /\ broken' \subseteq Pools
          /\ \A p \in Pools : p \notin bg /\ p \in broken => p \in broken'
      BY <1>1, <2>3, EndFacts
    <3>2. bg' = bg \ bg
      BY <2>3
    <3>3. OwnersOK'
      BY <1>1, <1>4, <3>1, <3>2, OwnersTasksClose
    <3> QED
      BY <2>1, <2>3, <3>1, <3>3
  <2> QED
    BY <2>2, <2>3 DEF JoinTasks
<1>8. TypeOK'
  BY <1>1, <1>3, <1>7 DEF TypeOK, Moves
<1>9. route # 0 => route \in Pools /\ route \notin bg
  BY <1>1, OwnersTyped, Numbers DEF OwnersOK, Apart
<1>10. RouteGoesOn
  BY <1>1, <1>7, <1>9 DEF RouteGoesOn
<1>11. KeepaliveOK'
  BY <1>1, <1>7, KeepaliveStays
<1>12. TasksGoOn
  BY <1>1, <1>7 DEF TasksGoOn, Live
<1>13. ShutdownOK'
  BY <1>1, <1>3, <1>4, <1>7 DEF IndInv, ShutdownOK, Refusing
<1>14. LiveIsKnown'
  <2> SUFFICES ASSUME NEW t \in Tasks, Live(t)
               PROVE  t = task \/ t \in aborted'
                        \/ \E v \in Workers : me'[v].pc \in {"join", "cutOff"} /\ me'[v].checked = t
    BY <1>1 DEF LiveIsKnown, Live
  <2>1. t = task \/ t \in aborted \/ \E v \in Workers : me[v].pc \in {"join", "cutOff"} /\ me[v].checked = t
    BY DEF IndInv, LiveIsKnown
  <2>2. me[w].checked = t => t \in left
    BY Numbers DEF Live
  <2> QED
    BY <1>4, <1>7, <2>1, <2>2
<1>15. WaitPlain(w) /\ ProbePlain(w)
  BY <1>2, <1>3 DEF WaitPlain, ProbePlain
<1>16. WaitersHaveWakers' /\ ProbesOK'
  BY <1>1, <1>4, <1>10, <1>12, <1>15, WaitersStay, ProbesStay
<1> QED
  BY <1>6, <1>7, <1>8, <1>11, <1>13, <1>14, <1>16 DEF IndInv

\* The removed pool is closed or let go, and the shutdown goes on or ends.
LEMMA RemovedKeeps ==
  ASSUME IndInv, NEW w \in Workers, NEW place, Hold(w, 0, place),
         \/ me[w].pc = "join" /\ place \in {"join", "cutOff"}
         \/ me[w].pc = "joined" /\ place \in {"joined", "down"},
         Close({me[w].mine} \ {0}) \/ LetGo({me[w].mine} \ {0}),
         UNCHANGED <<config, registry, records, draining, attempts, tasks>>
  PROVE  IndInv'
<1>1. /\ TypeOK /\ WorkerOK(me[w]) /\ OwnersOK /\ KeepaliveOK /\ place \in Places
      /\ UNCHANGED <<config, route, publication, activity, preserved, draining, attempt, begun>>
      /\ UNCHANGED <<task, target, ka, taken, aborted, bg, accepting>>
  BY DEF IndInv, WorkersOK, Places, registry, records, attempts, tasks
<1>2. me[w].op = "shutdown" /\ 0 \in 0..MaxPools
  BY <1>1, CheckedTyped DEF WorkerOK, Refusing
<1>3. Moves(w) /\ Keeps(w) /\ me'[w].pc = place /\ me'[w].mine = 0
  BY <1>1, <1>2, HoldFacts
<1>4. /\ \A v \in Workers : v # w => me'[v] = me[v]
      /\ \A v \in Workers : me'[v].op = me[v].op
  BY <1>3 DEF Moves, Keeps
<1>5. WorkerOK(me'[w])
  BY <1>1, <1>2, <1>3 DEF WorkerOK, Keeps, Holding, Refusing, Checking
<1>6. WorkersOK'
  BY <1>3, <1>5, WorkersStay DEF IndInv
<1>7. /\ Gone({me[w].mine} \ {0}) /\ LifeGoesOn
      /\ life' \in [Pools -> {"unborn", "open", "closed", "dropped"}] /\ broken' \subseteq Pools
      /\ \A p \in Pools : p \notin {me[w].mine} \ {0} /\ p \in broken => p \in broken'
  BY <1>1, EndFacts
<1>8. GivenUp({me[w].mine} \ {0})
  BY <1>1, <1>7 DEF GivenUp, Gone
<1>9. OwnersOK'
  BY <1>1, <1>3, <1>8, OwnersWorkerGives
<1>10. TypeOK'
  BY <1>1, <1>3, <1>7 DEF TypeOK, Moves
<1>11. route # 0 => route \in Pools /\ route # me[w].mine
  BY <1>1, OwnersTyped, Numbers DEF OwnersOK, Apart
<1>12. RouteGoesOn
  BY <1>1, <1>7, <1>11 DEF RouteGoesOn
<1>13. KeepaliveOK' /\ TasksGoOn
  BY <1>1, <1>7, KeepaliveStays, TasksStay
<1>14. ShutdownOK'
  BY <1>1, <1>3, <1>4 DEF IndInv, ShutdownOK, Refusing
<1>15. LiveIsKnown'
  <2> SUFFICES ASSUME NEW t \in Tasks, Live(t)
               PROVE  t = task \/ t \in aborted
                        \/ \E v \in Workers : me'[v].pc \in {"join", "cutOff"} /\ me'[v].checked = t
    BY <1>1 DEF LiveIsKnown, Live
  <2>1. t = task \/ t \in aborted \/ \E v \in Workers : me[v].pc \in {"join", "cutOff"} /\ me[v].checked = t
    BY DEF IndInv, LiveIsKnown
  <2> QED
    BY <1>3, <1>4, <2>1 DEF Keeps
<1>16. WaitPlain(w) /\ ProbePlain(w)
  BY <1>2, <1>3 DEF WaitPlain, ProbePlain
<1>17. WaitersHaveWakers' /\ ProbesOK'
  BY <1>1, <1>4, <1>12, <1>13, <1>16, WaitersStay, ProbesStay
<1> QED
  BY <1>6, <1>9, <1>10, <1>13, <1>14, <1>15, <1>17 DEF IndInv

\* close_removed closes the pool.
LEMMA CloseRemovedKeeps ==
  ASSUME IndInv, NEW w \in Workers, CloseRemoved(w)
  PROVE  IndInv'
<1>1. {me[w].mine} = {me[w].mine} \ {0}
  BY DEF CloseRemoved
<1> QED
  BY <1>1, RemovedKeeps DEF CloseRemoved

\* The shutdown ends, or is cut off.
LEMMA ShutdownEndsKeeps ==
  ASSUME IndInv, NEW w \in Workers, ShutdownEnds(w)
  PROVE  IndInv'
  BY RemovedKeeps DEF ShutdownEnds, At

-----------------------------------------------------------------------------
(* The theorems.                                                           *)

\* The steps of a worker.
LEMMA WorkerStepKeeps ==
  ASSUME IndInv, NEW w \in Workers, WorkerStep(w) \/ BeginStep(w)
  PROVE  IndInv'
<1>1. CASE GetStep(w)
  BY <1>1, WaitForPoolDrainKeeps, LookUpKeeps, StaleCheckKeeps, HealthCheckKeeps, RemoveStaleKeeps,
     ConnectKeeps, MongoRecheckKeeps, CheckAttemptKeeps, PublishCreatedPoolKeeps, ClosePoolKeeps DEF GetStep
<1>2. CASE StatementStep(w)
  BY <1>2, EnterStatementKeeps, EndStatementKeeps, DropActivityTouchKeeps DEF StatementStep
<1>3. CASE TakeAwayStep(w)
  BY <1>3, StripKeeps, UnrouteKeeps, DetachPoolByKeyKeeps, FinishDetachKeeps, FinishDetachClearKeeps,
     SweepKeeps DEF TakeAwayStep
<1>4. CASE ReclaimStep(w)
  BY <1>4, ReclaimCheckKeeps, TakeIdleKeeps, RestartKeepaliveKeeps, ForgetReclaimedKeeps,
     CloseReclaimedKeeps, RestoreReclaimedKeeps DEF ReclaimStep
<1>5. CASE ShutdownStep(w)
  BY <1>5, RefuseTasksKeeps, TakeTasksKeeps, JoinTasksKeeps, CloseRemovedKeeps, ShutdownEndsKeeps
  DEF ShutdownStep
<1>6. CASE BeginStep(w)
  BY <1>6, CleanupGuardKeeps, BeginPoolDrainKeeps, BeginKeeps DEF BeginStep
<1> QED
  BY <1>1, <1>2, <1>3, <1>4, <1>5, <1>6 DEF WorkerStep

\* A step that changes nothing.
LEMMA StutterKeeps ==
  ASSUME IndInv, UNCHANGED vars
  PROVE  IndInv'
<1>1. /\ UNCHANGED <<config, route, publication, life, broken, activity, preserved, draining, attempt, begun>>
      /\ UNCHANGED <<task, target, ka, taken, aborted, bg, accepting, me>>
      /\ TypeOK /\ OwnersOK /\ KeepaliveOK
  BY DEF IndInv, vars, registry, pools, records, attempts, tasks
<1>2. TypeOK'
  BY <1>1 DEF TypeOK
<1>3. OwnersOK'
  BY <1>1, OwnersStay
<1>4. LifeGoesOn /\ RouteGoesOn /\ SupervisorGoesOn
  BY <1>1 DEF LifeGoesOn, Dead, RouteGoesOn, SupervisorGoesOn
<1>5. KeepaliveOK' /\ TasksGoOn
  BY <1>1, <1>4, KeepaliveStays, TasksStay
<1> QED
  BY <1>1, <1>2, <1>3, <1>4, <1>5, TaskStepKeeps

\* Every step keeps the inductive invariant.
LEMMA NextKeeps == IndInv /\ [Next]_vars => IndInv'
<1> SUFFICES ASSUME IndInv, [Next]_vars PROVE IndInv'
  OBVIOUS
<1>1. CASE Next
  BY <1>1, WorkerStepKeeps, KeepaliveStepKeeps, CloseTaskKeeps, BreakKeeps, TimePassesKeeps DEF Next
<1>2. CASE UNCHANGED vars
  BY <1>2, StutterKeeps
<1> QED
  BY <1>1, <1>2

\* The inductive invariant holds in every reachable state of every instance.
THEOREM Invariance == Spec => []IndInv
<1>1. Init => IndInv
  BY InitIndInv
<1>2. IndInv /\ [Next]_vars => IndInv'
  BY NextKeeps
<1> QED
  BY <1>1, <1>2, PTL DEF Spec

\* The parts of the invariant about owners say that an open pool has exactly one.
LEMMA OwnersAreOne == IndInv => OneOwner
<1> SUFFICES ASSUME IndInv, NEW p \in Pools
             PROVE  IF life[p] = "open" THEN \E o \in Owners(p) : Owners(p) = {o} ELSE Owners(p) = {}
  BY DEF OneOwner, IndInv
<1> DEFINE W == {v \in Workers : me[v].mine = p}
           T == {u \in Tasks : taken[u] = p}
<1>1. OpenIsOwned /\ OwnedIsOpen /\ Apart /\ p # 0
  BY Numbers DEF IndInv, OwnersOK
<1>2. Owners(p) = {<<"worker", w>> : w \in W} \cup {<<"keepalive", t>> : t \in T}
                    \cup (IF route = p THEN {<<"registry", p>>} ELSE {})
                    \cup (IF p \in bg THEN {<<"close", p>>} ELSE {})
  BY DEF Owners
<1>3. CASE life[p] # "open"
  <2>1. W = {} /\ T = {} /\ route # p /\ p \notin bg
    BY <1>1, <1>3 DEF OwnedIsOpen
  <2> HIDE DEF W, T
  <2> QED
    BY <1>2, <1>3, <2>1
<1>4. CASE life[p] = "open"
  <2>1. \/ \E w \in Workers : me[w].mine = p
        \/ \E t \in Tasks : taken[t] = p
        \/ route = p
        \/ p \in bg
    BY <1>1, <1>4 DEF OpenIsOwned
  <2>2. ASSUME NEW w \in Workers, me[w].mine = p
        PROVE  \E o \in Owners(p) : Owners(p) = {o}
    <3>1. W = {w} /\ T = {} /\ route # p /\ p \notin bg
      BY <1>1, <2>2 DEF Apart
    <3> HIDE DEF W, T
    <3>2. Owners(p) = {<<"worker", w>>}
      BY <1>2, <3>1
    <3> QED
      BY <3>2
  <2>3. ASSUME NEW t \in Tasks, taken[t] = p
        PROVE  \E o \in Owners(p) : Owners(p) = {o}
    <3>1. W = {} /\ T = {t} /\ route # p /\ p \notin bg
      BY <1>1, <2>3 DEF Apart
    <3> HIDE DEF W, T
    <3>2. Owners(p) = {<<"keepalive", t>>}
      BY <1>2, <3>1
    <3> QED
      BY <3>2
  <2>4. CASE route = p
    <3>1. W = {} /\ T = {} /\ p \notin bg
      BY <1>1, <2>4 DEF Apart
    <3> HIDE DEF W, T
    <3>2. Owners(p) = {<<"registry", p>>}
      BY <1>2, <2>4, <3>1
    <3> QED
      BY <1>4, <3>2
  <2>5. CASE p \in bg
    <3>1. W = {} /\ T = {} /\ route # p
      BY <1>1, <2>5 DEF Apart
    <3> HIDE DEF W, T
    <3>2. Owners(p) = {<<"close", p>>}
      BY <1>2, <2>5, <3>1
    <3> QED
      BY <1>4, <3>2
  <2> QED
    BY <1>4, <2>1, <2>2, <2>3, <2>4, <2>5
<1> QED
  BY <1>3, <1>4

\* No interleaving of creators, removals, keepalive tasks, reclamations and the shutdown
\* leaks a connected pool, and none hands one to two owners or keeps a closed one: for any
\* number of workers, pools and tasks, an open pool has one owner and another has none.
THEOREM PoolsHaveOneOwner == Spec => []OneOwner
  BY OwnersAreOne, Invariance, PTL

\* However late a creator publishes its pool, when TaskSupervisor::shutdown has returned no
\* task is left that has neither ended nor been aborted; and when AppState::shutdown is cut
\* off before that by its own timeout, no task runs unaborted but the one it awaited.
THEOREM ShutdownLeavesNoTask == Spec => []NoTaskOutlivesShutdown
<1>1. ASSUME IndInv, NEW w \in Workers, me[w].pc \in {"joined", "down", "cutOff"}
      PROVE  /\ task = 0 /\ (me[w].pc # "cutOff" => bg = {})
             /\ \A t \in Tasks : Stopped(t) \/ (me[w].pc = "cutOff" /\ t = me[w].checked)
  <2>1. task = 0 /\ (me[w].pc # "cutOff" => bg = {}) /\ me[w].op = "shutdown"
    BY <1>1 DEF IndInv, ShutdownOK, WorkersOK, WorkerOK, Refusing
  <2>2. \A v \in Workers : me[v].pc \in {"join", "cutOff"} => v = w
    <3>1. \A v \in Workers : me[v].pc \in {"join", "cutOff"} => me[v].op = "shutdown"
      BY <1>1 DEF IndInv, WorkersOK, WorkerOK, Refusing
    <3> QED
      BY <1>1, <2>1, <3>1 DEF IndInv, ShutdownOK
  <2> QED
    BY <1>1, <2>1, <2>2, Numbers DEF IndInv, LiveIsKnown, Live, Stopped
<1>2. IndInv => NoTaskOutlivesShutdown
  BY <1>1 DEF NoTaskOutlivesShutdown, At
<1> QED
  BY <1>2, Invariance, PTL

\* A drain is always lifted by a reclamation that still runs, and a reclamation waits only
\* for a task that has ended or been aborted: nobody waits for ever.
THEOREM WaitersAreWoken == Spec => []WaitersHaveWakers
<1>1. IndInv => WaitersHaveWakers
  BY DEF IndInv
<1> QED
  BY <1>1, Invariance, PTL

\* What a step may do to a sound pool in use.
StaysInUse ==
  (/\ route # 0
   /\ route' # route
   /\ route \notin broken
   /\ \E w \in Workers : Uses(w, route))
  => \/ \E w \in Workers :
          /\ \/ me[w].pc \in {"unroute", "detach", "restore"}
             \/ At(w, "publish") /\ ~KeepsExisting(w)
          /\ me'[w] # me[w]
     \/ /\ config.driver \in {"mysql", "mongodb"}
        /\ \E t \in Tasks : ka[t] = "failed" /\ ka'[t] = "removed"

\* Only the removals on purpose, the publishers that keep nothing, the restore and the
\* keepalive without identity take it.
LEMMA StepLeavesUsedPool == IndInv /\ [Next]_vars => [StaysInUse]_vars
<1> SUFFICES ASSUME IndInv, Next, route # 0, route' # route, route \notin broken,
                    NEW u \in Workers, me[u].handle = route
             PROVE  \/ \E w \in Workers :
                         /\ \/ me[w].pc \in {"unroute", "detach", "restore"}
                            \/ At(w, "publish") /\ ~KeepsExisting(w)
                         /\ me'[w] # me[w]
                    \/ /\ config.driver \in {"mysql", "mongodb"}
                       /\ \E t \in Tasks : ka[t] = "failed" /\ ka'[t] = "removed"
  BY DEF StaysInUse, Uses
<1>1. TypeOK /\ route \in Pools /\ life[route] = "open"
  BY OwnersTyped, Numbers DEF IndInv, OwnersOK, OwnedIsOpen
<1>2. ASSUME NEW w \in Workers, GetStep(w)
      PROVE  At(w, "publish") /\ ~KeepsExisting(w) /\ me'[w] # me[w]
  <2>1. CASE RemoveStale(w)
    <3>1. me[w].pc = "removeStale" /\ me[w].checked = publication
      BY <2>1 DEF RemoveStale, At
    <3> QED
      BY <3>1 DEF IndInv, ProbesOK, ProbeOK
  <2>2. CASE PublishCreatedPool(w)
    <3>1. At(w, "publish") /\ ~KeepsExisting(w) /\ CloseThen(w, route, "ready")
      BY <2>2 DEF PublishCreatedPool, registry
    <3>2. "ready" \in Places /\ route \in 0..MaxPools
      BY <1>1, OwnersTyped DEF Places
    <3>3. me'[w].pc = "closing"
      BY <1>1, <3>1, <3>2, CloseThenFacts
    <3> QED
      BY <3>1, <3>3 DEF At
  <2> QED
    BY <1>2, <2>1, <2>2
    DEF GetStep, WaitForPoolDrain, LookUp, StaleCheck, HealthCheck, Connect, MongoRecheck, CheckAttempt,
        ClosePool, registry
<1>3. ASSUME NEW w \in Workers, StatementStep(w)
      PROVE  FALSE
  BY <1>3 DEF StatementStep, EnterStatement, EndStatement, DropActivityTouch, registry
<1>4. ASSUME NEW w \in Workers, TakeAwayStep(w)
      PROVE  me[w].pc \in {"unroute", "detach"} /\ me'[w] # me[w]
  <2>2. CASE Unroute(w)
    <3>1. /\ me[w].pc = "unroute" /\ route \in 0..MaxPools
          /\ {"closing", "refuse", "idle", "wait1", "connect"} \subseteq Places
      BY <1>1, <2>2, OwnersTyped DEF Unroute, At, Places
    <3>2. \/ \E place \in {"idle", "wait1"} : CloseThen(w, route, place)
          \/ \E place \in {"idle", "wait1", "connect"} : Goto(w, place)
          \/ Hold(w, route, "refuse")
      BY <2>2 DEF Unroute, AfterDrain
    <3>3. me'[w].pc # "unroute"
      BY <1>1, <3>1, <3>2, CloseThenFacts, GotoFacts, HoldFacts
    <3> QED
      BY <3>1, <3>3
  <2>3. CASE DetachPoolByKey(w)
    <3>1. me[w].pc = "detach" /\ "finish" \in Places /\ route \in 0..MaxPools /\ Hold(w, route, "finish")
      BY <1>1, <2>3, OwnersTyped DEF DetachPoolByKey, At, Places
    <3>2. me'[w].pc = "finish"
      BY <1>1, <3>1, HoldFacts
    <3> QED
      BY <3>1, <3>2
  <2> QED
    BY <1>4, <2>2, <2>3
    DEF TakeAwayStep, Strip, FinishDetach, FinishDetachClear, SweepIdle, SweepActive, registry
<1>5. ASSUME NEW w \in Workers, ReclaimStep(w)
      PROVE  me[w].pc = "restore" /\ me'[w] # me[w]
  <2>1. CASE TakeIdle(w)
    BY <2>1 DEF TakeIdle, ExclusivelyIdle
  <2>2. CASE RestoreReclaimed(w)
    <3>1. me[w].pc = "restore" /\ "idle" \in Places /\ route \in 0..MaxPools /\ CloseThen(w, route, "idle")
      BY <1>1, <2>2, OwnersTyped DEF RestoreReclaimed, At, Places
    <3>2. me'[w].pc = "closing"
      BY <1>1, <3>1, CloseThenFacts
    <3> QED
      BY <3>1, <3>2
  <2> QED
    BY <1>5, <2>1, <2>2
    DEF ReclaimStep, ReclaimCheck, RestartKeepalive, ForgetReclaimed, CloseReclaimed, registry
<1>6. ASSUME NEW w \in Workers, ShutdownStep(w)
      PROVE  FALSE
  BY <1>6 DEF ShutdownStep, RefuseTasks, TakeTasks, JoinTasks, CloseRemoved, ShutdownEnds, registry
<1>7. ASSUME NEW w \in Workers, BeginStep(w)
      PROVE  FALSE
  BY <1>7 DEF BeginStep, CleanupGuard, BeginPoolDrain, Begin, registry
<1>8. ASSUME NEW t \in Tasks, KeepaliveStep(t)
      PROVE  config.driver \in {"mysql", "mongodb"} /\ ka[t] = "failed" /\ ka'[t] = "removed"
  <2>1. KeepaliveDetach(t)
    BY <1>8 DEF KeepaliveStep, KeepaliveEnds, KeepaliveFails, KeepaliveStopsKey, KeepaliveClear,
                KeepaliveCancelled, registry
  <2>2. ka[t] = "failed" /\ Matches(target[t]) /\ KeepaliveGoes(t, "removed")
    BY <2>1 DEF KeepaliveDetach
  <2>3. ka'[t] = "removed"
    BY <1>1, <2>2 DEF KeepaliveGoes, TypeOK
  <2>4. Dead(target[t])
    BY <2>2 DEF IndInv, KeepaliveOK
  <2> QED
    BY <1>1, <2>2, <2>3, <2>4 DEF Matches, Dead
<1>9. ASSUME NEW p \in Pools, CloseTask(p) \/ Break(p)
      PROVE  FALSE
  BY <1>9 DEF CloseTask, Break, registry
<1>10. CASE TimePasses
  BY <1>10 DEF TimePasses, registry
<1> QED
  BY <1>2, <1>3, <1>4, <1>5, <1>6, <1>7, <1>8, <1>9, <1>10 DEF Next, WorkerStep

\* A sound pool with a statement on it, registered or not, is unrouted only on purpose or by
\* a publisher without keep_existing: no on-demand creator with a saved password displaces
\* it, and no health check of an earlier publication, no idle reclamation and no keepalive
\* task that compares identities takes it away.
THEOREM PoolsInUseStay == Spec => UsedPoolStays
<1>1. IndInv /\ [Next]_vars => [StaysInUse]_vars
  BY StepLeavesUsedPool
<1> QED
  BY <1>1, Invariance, PTL DEF Spec, UsedPoolStays, StaysInUse
=============================================================================
