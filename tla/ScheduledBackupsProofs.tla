---------------------- MODULE ScheduledBackupsProofs ----------------------
(***************************************************************************)
(* Proofs about the durable queue of scheduled backups and the worker that *)
(* runs it, for any number of schedules, runs, processes and delete        *)
(* commands, with or without crashes and failing calls.                    *)
(***************************************************************************)
EXTENDS ScheduledBackups, FiniteSetTheorems, TLAPS

-----------------------------------------------------------------------------
(* The inductive invariant.                                                *)

\* What an actor has on its list: some runs, as it read them.
Lists == UNION {[R -> Payload] : R \in SUBSET Runs}

RowType ==
  /\ state \in [Runs -> Present \cup {"none", "removed"}]
  /\ payload \in [Runs -> Payload]
  /\ cancel \in [Runs -> BOOLEAN]
  /\ plan \in [Runs -> Schedules \cup {None}]

PlanType ==
  /\ sched \in [Schedules -> {"absent", "on", "off"}]
  /\ due \in [Schedules -> BOOLEAN]

ProcType ==
  /\ lock \in Procs \cup {None}
  /\ ppc \in [Procs -> {"down", "idle", "recover", "lead", "claim", "check", "work",
                        "clean", "finish", "retain", "delete"}]
  /\ stopping \in [Procs -> {"no", "drain", "stop"}]
  /\ job \in [Procs -> 0 .. MaxRuns]
  /\ token \in [Procs -> BOOLEAN]

WorkType ==
  /\ wpc \in [Procs -> {"none", "start", "send", "create", "export", "done"}]
  /\ mem \in [Procs -> Payload] /\ watch \in [Procs -> Payload]
  /\ latest \in [Procs -> Payload \cup {None}]

ActType ==
  /\ apc \in [Actors -> {"idle", "snapshot", "remove", "settle", "failed"}]
  /\ list \in [Actors -> Lists]
  /\ cur \in [Actors -> 0 .. MaxRuns]
  /\ others \in [Actors -> SUBSET Paths]

RestType == disk \in [Paths -> 0 .. MaxRuns] /\ stops \in 0 .. MaxStops

Types == RowType /\ PlanType /\ ProcType /\ WorkType /\ ActType /\ RestType

DueSet == {s \in Schedules : due[s]}

\* The runs are numbered without gaps, and there is room for every schedule that is due.
Numbered ==
  /\ \A r \in Runs : state[r] # "none" <=> r <= Count
  /\ Count + Cardinality(DueSet) <= MaxRuns

\* No two active runs of one schedule.
OneActive ==
  \A q, r \in Runs :
    q # r /\ state[q] \in Pending /\ state[r] \in Pending => plan[q] = None \/ plan[q] # plan[r]

\* The payload of a run that has ended says so.
RowOK(r) == state[r] \in Finished \cup {"deleting"} => payload[r].status \in Finished
RowsOK == \A r \in Runs : RowOK(r)

\* A process that is past the lock has it.
Leading == \A p \in Procs : ppc[p] \notin {"down", "idle"} => lock = p

\* The row of the run that process p executes is running; its worker thread and its
\* cleanup exist only where the tick waits for them, and leave a result.
WorkingOK(p) ==
  /\ ppc[p] \in {"check", "work", "clean", "finish"} => job[p] \in Runs /\ state[job[p]] = "running"
  /\ wpc[p] # "none" => ppc[p] = "work"
  /\ wpc[p] = "done" \/ ppc[p] = "finish" => mem[p].status \in Finished
  /\ ppc[p] = "clean" => job[p] \in DOMAIN list[p]
  /\ ppc[p] \notin {"clean", "delete"} => apc[p] = "idle"

\* An actor works on a run of its list, and its list is of runs that have ended.
CleaningOK(a) ==
  /\ apc[a] \in {"remove", "settle", "failed"} => cur[a] \in DOMAIN list[a]
  /\ \A r \in DOMAIN list[a] : list[a][r].status \in Finished

Working == \A p \in Procs : WorkingOK(p)
Cleaning == \A a \in Actors : CleaningOK(a)

IndInv == Types /\ Numbered /\ OneActive /\ RowsOK /\ Leading /\ Working /\ Cleaning

\* What EndedStaysEnded says of a step.
StaysEnded ==
  \A r \in Runs :
    /\ state[r] \in Finished => state'[r] \in {state[r], "deleting"}
    /\ state[r] = "deleting" => state'[r] \notin Pending

-----------------------------------------------------------------------------
\* The types used here imply those of the model.
LEMMA TypesAreTypeOK == Types => TypeOK
<1> SUFFICES ASSUME Types PROVE TypeOK
  OBVIOUS
<1>1. ASSUME NEW a \in Actors
      PROVE  DOMAIN list[a] \subseteq Runs /\ \A r \in DOMAIN list[a] : list[a][r] \in Payload
  <2>1. PICK R \in SUBSET Runs : list[a] \in [R -> Payload]
    BY DEF Types, ActType, Lists
  <2> QED
    BY <2>1
<1> QED
  BY <1>1 DEF Types, RowType, PlanType, ProcType, WorkType, ActType, RestType, TypeOK

\* A list is a function from some runs to payloads.
LEMMA ListIs ==
  ASSUME ActType, NEW a \in Actors
  PROVE  DOMAIN list[a] \subseteq Runs /\ list[a] \in [DOMAIN list[a] -> Payload]
<1>1. PICK R \in SUBSET Runs : list[a] \in [R -> Payload]
  BY DEF ActType, Lists
<1> QED
  BY <1>1

\* ... and every such function is a list.
LEMMA IsList ==
  ASSUME NEW R \in SUBSET Runs, NEW f \in [R -> Payload]
  PROVE  f \in Lists
  BY DEF Lists

\* The empty list.
LEMMA NothingIsList == Nothing \in Lists /\ DOMAIN Nothing = {}
<1>1. Nothing \in [{} -> Payload] /\ {} \in SUBSET Runs
  BY DEF Nothing
<1> QED
  BY <1>1, IsList DEF Nothing

\* A payload whose status is set.
LEMMA StatusSet ==
  ASSUME NEW x \in Payload, NEW st \in Statuses
  PROVE  [x EXCEPT !.status = st] \in Payload /\ [x EXCEPT !.status = st].status = st
  BY DEF Payload

\* The payload of a run that has only been queued.
LEMMA BlankIs == Blank \in Payload
  BY DEF Blank, Payload, Statuses

-----------------------------------------------------------------------------
(* The numbering of the runs.                                              *)

\* The runs that were ever queued.
Numbers == {r \in Runs : state[r] # "none"}

\* The runs, the schedules and their subsets are finite.
LEMMA Finite ==
  /\ IsFiniteSet(Numbers) /\ IsFiniteSet(Numbers') /\ IsFiniteSet(DueSet) /\ IsFiniteSet(DueSet')
  /\ Count = Cardinality(Numbers) /\ Count' = Cardinality(Numbers')
  /\ Count \in Nat /\ Count' \in Nat /\ Cardinality(DueSet) \in Nat /\ Cardinality(DueSet') \in Nat
<1>1. IsFiniteSet(Runs)
  BY FS_Interval, BoundsAssumption DEF Runs
<1>2. /\ Numbers \in SUBSET Runs /\ Numbers' \in SUBSET Runs
      /\ DueSet \in SUBSET Schedules /\ DueSet' \in SUBSET Schedules
  BY DEF Numbers, DueSet
<1>3. IsFiniteSet(Numbers) /\ IsFiniteSet(Numbers') /\ IsFiniteSet(DueSet) /\ IsFiniteSet(DueSet')
  BY <1>1, <1>2, FS_Subset, SchedulesAssumption
<1>4. Count = Cardinality(Numbers) /\ Count' = Cardinality(Numbers')
  BY DEF Count, Numbers
<1> QED
  BY <1>3, <1>4, FS_CardinalityType

\* No run is queued, and no schedule becomes due.
LEMMA NumberedKept ==
  ASSUME Numbered, \A r \in Runs : state'[r] = "none" <=> state[r] = "none", DueSet' \subseteq DueSet
  PROVE  Numbered'
<1>1. Numbers' = Numbers
  BY DEF Numbers
<1>2. Count' = Count
  BY <1>1, Finite
<1>3. Cardinality(DueSet') <= Cardinality(DueSet)
  BY Finite, FS_Subset
<1>4. Count' + Cardinality(DueSet') <= MaxRuns
  BY <1>2, <1>3, Finite, BoundsAssumption DEF Numbered
<1> QED
  BY <1>2, <1>4 DEF Numbered

\* m runs are queued, with the next m numbers, for m schedules that were due.
LEMMA NumberedGrows ==
  ASSUME Numbered, NEW m \in Nat, Count + m <= MaxRuns,
         \A r \in Runs : state'[r] # "none" <=> r <= Count + m,
         m + Cardinality(DueSet') + Count <= MaxRuns
  PROVE  Numbered'
<1>1. Numbers' = 1 .. (Count + m)
  BY Finite, BoundsAssumption DEF Numbers, Runs
<1>2. Count' = Count + m
  <2>1. PICK n \in Nat : n = Count + m
    BY Finite
  <2>2. Cardinality(1 .. n) = IF 1 > n THEN 0 ELSE n - 1 + 1
    BY FS_Interval
  <2>3. Cardinality(1 .. n) = n
    BY <2>2
  <2> QED
    BY <1>1, <2>1, <2>3, Finite
<1> QED
  BY <1>2, Finite, BoundsAssumption DEF Numbered

-----------------------------------------------------------------------------
(* How the steps change the rows.                                          *)

\* A step in which no run is queued: a run that ends has its result in the payload, and
\* stays ended.
Moves ==
  /\ plan' = plan
  /\ \A r \in Runs :
       /\ state'[r] = "none" <=> state[r] = "none"
       /\ state'[r] \in Pending => state[r] \in Pending
       /\ state[r] \in Finished => state'[r] \in {state[r], "deleting"}
       /\ RowOK(r)'

\* The rows after such a step.
LEMMA MovesFacts ==
  ASSUME IndInv, Moves, DueSet' \subseteq DueSet
  PROVE  Numbered' /\ OneActive' /\ RowsOK' /\ StaysEnded
<1>1. Numbered'
  BY NumberedKept DEF IndInv, Moves
<1>2. OneActive' /\ RowsOK'
  BY DEF IndInv, Moves, OneActive, RowsOK
<1>3. StaysEnded
  BY DEF Moves, StaysEnded, Pending
<1> QED
  BY <1>1, <1>2, <1>3

\* The states of the rows stay, and the payloads of all that are not running.
LEMMA RowsStay ==
  ASSUME IndInv, UNCHANGED <<state, plan>>, \A r \in Runs : state[r] # "running" => payload'[r] = payload[r]
  PROVE  Moves
<1>1. ASSUME NEW r \in Runs PROVE RowOK(r)'
  BY DEF IndInv, RowsOK, RowOK, Finished
<1> QED
  BY <1>1 DEF Moves

\* progress touches a running row only.
LEMMA ProgressFacts ==
  ASSUME RowType, NEW r, NEW x \in Payload, Progress(r, x)
  PROVE  payload' \in [Runs -> Payload] /\ \A q \in Runs : state[q] # "running" => payload'[q] = payload[q]
<1>1. CASE state[r] = "running"
  <2>1. payload' = [payload EXCEPT ![r] = x]
    BY <1>1 DEF Progress
  <2> QED
    BY <1>1, <2>1 DEF RowType
<1>2. CASE state[r] # "running"
  <2>1. payload' = payload
    BY <1>2 DEF Progress
  <2> QED
    BY <2>1 DEF RowType
<1> QED
  BY <1>1, <1>2

-----------------------------------------------------------------------------
(* How the steps change the processes and the actors.                      *)

\* Nothing about process q has changed.
Still(q) ==
  /\ ppc'[q] = ppc[q] /\ job'[q] = job[q] /\ wpc'[q] = wpc[q] /\ mem'[q] = mem[q]
  /\ list'[q] = list[q] /\ apc'[q] = apc[q]

\* Nothing about the cleanup of actor a has changed.
Calm(a) == apc'[a] = apc[a] /\ cur'[a] = cur[a] /\ list'[a] = list[a]

\* Only process p has changed.
Only(p) == (\A q \in Procs : q # p => Still(q)) /\ (\A a \in Actors : a # p => Calm(a))

\* The rows that are running go on.
RunningStays == \A r \in Runs : state[r] = "running" => state'[r] = "running"

\* A process to which nothing happens works as before, unless somebody ends its run.
LEMMA StillWorking ==
  ASSUME NEW q \in Procs, WorkingOK(q), Still(q), ppc[q] \in {"down", "idle"} \/ RunningStays
  PROVE  WorkingOK(q)'
  BY DEF WorkingOK, Still, RunningStays

\* An actor to which nothing happens cleans up as before.
LEMMA CalmCleaning == ASSUME NEW a \in Actors, CleaningOK(a), Calm(a) PROVE CleaningOK(a)'
  BY DEF CleaningOK, Calm

\* Processes and users are actors.
LEMMA ProcsAct == Procs \subseteq Actors /\ Users \subseteq Actors
  BY DEF Actors

\* A step of the leader: nobody else is past the lock.
LEMMA LeaderStep0 ==
  ASSUME IndInv, NEW p \in Procs, ppc[p] \notin {"down", "idle"}, lock' = lock, Only(p),
         Types', Numbered', OneActive', RowsOK', WorkingOK(p)', CleaningOK(p)'
  PROVE  IndInv'
<1>1. lock = p /\ p # None
  BY ActorsAssumption DEF IndInv, Leading
<1>2. \A q \in Procs : q # p => ppc[q] \in {"down", "idle"} /\ ppc'[q] = ppc[q]
  BY <1>1 DEF IndInv, Leading, Only, Still
<1>3. Leading'
  BY <1>1, <1>2 DEF Leading
<1>4. Working'
  BY <1>2, StillWorking DEF IndInv, Working, Only
<1>5. Cleaning'
  BY CalmCleaning DEF IndInv, Cleaning, Only
<1> QED
  BY <1>3, <1>4, <1>5 DEF IndInv

\* ... that queues no run.
LEMMA LeaderMoves ==
  ASSUME IndInv, NEW p \in Procs, ppc[p] \notin {"down", "idle"}, lock' = lock, Only(p),
         Types', Moves, DueSet' \subseteq DueSet, WorkingOK(p)', CleaningOK(p)'
  PROVE  IndInv' /\ StaysEnded
<1>1. Numbered' /\ OneActive' /\ RowsOK' /\ StaysEnded
  BY MovesFacts
<1> QED
  BY <1>1, LeaderStep0

\* A step in the life of process p, which touches no row.
LEMMA LifeStep ==
  ASSUME IndInv, NEW p \in Procs, UNCHANGED <<state, payload, plan, due>>, Only(p),
         Types', Leading', WorkingOK(p)', CleaningOK(p)'
  PROVE  IndInv' /\ StaysEnded
<1>1. Moves /\ DueSet' \subseteq DueSet /\ RunningStays
  BY RowsStay DEF DueSet, RunningStays
<1>2. Numbered' /\ OneActive' /\ RowsOK' /\ StaysEnded
  BY <1>1, MovesFacts
<1>3. Working'
  BY <1>1, StillWorking DEF IndInv, Working, Only
<1>4. Cleaning'
  BY CalmCleaning DEF IndInv, Cleaning, Only
<1> QED
  BY <1>2, <1>3, <1>4 DEF IndInv

\* A step of the commands: no process or actor moves, and no running row ends.
LEMMA CommandStep ==
  ASSUME IndInv, Sleep, RestType', RowType', PlanType', RunningStays, Numbered', OneActive', RowsOK'
  PROVE  IndInv'
<1>1. UNCHANGED <<lock, ppc, stopping, job, token, wpc, mem, watch, latest, apc, list, cur, others, stops>>
  BY DEF Sleep, procVars, workVars, actVars
<1>2. Types'
  BY <1>1 DEF IndInv, Types, ProcType, WorkType, ActType
<1>3. \A p \in Procs : Still(p)
  BY <1>1 DEF Still
<1>4. \A a \in Actors : Calm(a)
  BY <1>1 DEF Calm
<1>5. Working' /\ Cleaning' /\ Leading'
  BY <1>1, <1>3, <1>4, StillWorking, CalmCleaning DEF IndInv, Working, Cleaning, Leading
<1> QED
  BY <1>2, <1>5 DEF IndInv

\* A step of actor a in cleanup and delete_runs.
LEMMA ActorStep ==
  ASSUME IndInv, NEW a \in Actors, UNCHANGED <<lock, ppc, stopping, job, token, wpc, mem, watch, latest, due>>,
         \A b \in Actors : b # a => Calm(b),
         Types', Moves, RunningStays, CleaningOK(a)',
         a \in Procs => ppc[a] \in {"clean", "delete"} /\ (ppc[a] = "clean" => DOMAIN list'[a] = DOMAIN list[a])
  PROVE  IndInv' /\ StaysEnded
<1>1. DueSet' \subseteq DueSet
  BY DEF DueSet
<1>2. Numbered' /\ OneActive' /\ RowsOK' /\ StaysEnded
  BY <1>1, MovesFacts
<1>3. ASSUME NEW p \in Procs PROVE WorkingOK(p)'
  <2>1. CASE p = a
    BY <2>1 DEF IndInv, Working, WorkingOK, RunningStays
  <2>2. CASE p # a
    <3>1. Still(p)
      BY <2>2, ProcsAct DEF Still, Calm
    <3> QED
      BY <3>1, StillWorking DEF IndInv, Working
  <2> QED
    BY <2>1, <2>2
<1>4. Cleaning' /\ Leading'
  BY CalmCleaning DEF IndInv, Cleaning, Leading
<1> QED
  BY <1>2, <1>3, <1>4 DEF IndInv, Working

-----------------------------------------------------------------------------
\* At first there are no runs, and nobody has the lock.
LEMMA InitIndInv == Init => IndInv
<1> SUFFICES ASSUME Init PROVE IndInv
  OBVIOUS
<1>1. Types
  <2>1. RowType /\ PlanType
    BY BlankIs DEF Init, RowType, PlanType
  <2>2. ProcType /\ WorkType
    BY BlankIs, BoundsAssumption DEF Init, ProcType, WorkType, NoRun
  <2>3. ActType /\ RestType
    BY NothingIsList, BoundsAssumption DEF Init, ActType, RestType, NoRun
  <2> QED
    BY <2>1, <2>2, <2>3 DEF Types
<1>2. Numbers = {} /\ DueSet = {}
  BY DEF Init, Numbers, DueSet
<1>3. Count = 0 /\ Cardinality(DueSet) = 0
  BY <1>2, Finite, FS_EmptySet
<1>4. Numbered
  BY <1>3, BoundsAssumption DEF Numbered, Init, Runs
<1>5. OneActive /\ RowsOK
  BY DEF Init, OneActive, RowsOK, RowOK, Pending, Finished
<1>6. Leading /\ Working
  BY ProcsAct DEF Init, Leading, Working, WorkingOK
<1>7. Cleaning
  BY NothingIsList DEF Init, Cleaning, CleaningOK
<1> QED
  BY <1>1, <1>4, <1>5, <1>6, <1>7 DEF IndInv

-----------------------------------------------------------------------------
(* The commands.                                                           *)

\* The schedules change, or the clock: no row changes.
LEMMA ScheduleStep ==
  ASSUME IndInv, NEW s \in Schedules,
         \/ TimePasses(s) \/ DeleteSchedule(s)
         \/ \E e \in {"on", "off"}, edited \in BOOLEAN : SaveSchedule(s, e, edited)
  PROVE  IndInv' /\ StaysEnded
<1>1. Sleep /\ UNCHANGED <<state, payload, cancel, plan, disk, stops>>
  BY DEF TimePasses, DeleteSchedule, SaveSchedule, rowVars, Sleep
<1>2. RestType' /\ RowType' /\ RunningStays
  BY <1>1 DEF IndInv, Types, RestType, RowType, RunningStays
<1>3. PlanType'
  <2>1. CASE TimePasses(s)
    BY <2>1 DEF TimePasses, IndInv, Types, PlanType
  <2>2. CASE DeleteSchedule(s)
    BY <2>2 DEF DeleteSchedule, IndInv, Types, PlanType
  <2>3. ASSUME NEW e \in {"on", "off"}, NEW edited \in BOOLEAN, SaveSchedule(s, e, edited) PROVE PlanType'
    BY <2>3 DEF SaveSchedule, IndInv, Types, PlanType
  <2> QED
    BY <2>1, <2>2, <2>3
<1>4. Moves
  BY <1>1, RowsStay
<1>5. OneActive' /\ RowsOK' /\ StaysEnded
  BY <1>4 DEF IndInv, Moves, OneActive, RowsOK, StaysEnded, Pending
<1>6. Numbered'
  <2>1. CASE DueSet' \subseteq DueSet
    BY <1>4, <2>1, NumberedKept DEF IndInv, Moves
  <2>2. CASE TimePasses(s)
    <3>1. DueSet' = DueSet \cup {s} /\ s \notin DueSet /\ Count + Cardinality(DueSet) < MaxRuns
      BY <2>2 DEF TimePasses, DueSet, Room, IndInv, Types, PlanType
    <3>2. Cardinality(DueSet') = Cardinality(DueSet) + 1
      BY <3>1, Finite, FS_AddElement
    <3>3. Count' = Count
      BY <1>1 DEF Count
    <3>4. Count' + Cardinality(DueSet') <= MaxRuns
      BY <3>1, <3>2, <3>3, Finite, BoundsAssumption
    <3> QED
      BY <1>1, <3>3, <3>4 DEF IndInv, Numbered
  <2>3. CASE DeleteSchedule(s) \/ \E e \in {"on", "off"}, edited \in BOOLEAN : SaveSchedule(s, e, edited)
    <3>1. \A t \in Schedules : due'[t] => due[t]
      BY <2>3 DEF DeleteSchedule, SaveSchedule, IndInv, Types, PlanType
    <3> QED
      BY <2>1, <3>1 DEF DueSet
  <2> QED
    BY <2>2, <2>3
<1> QED
  BY <1>1, <1>2, <1>3, <1>5, <1>6, CommandStep

\* enqueue queues the next run, of a schedule that has no active one.
LEMMA EnqueueStep ==
  ASSUME IndInv, NEW s \in Schedules \cup {None}, Enqueue(s)
  PROVE  IndInv' /\ StaysEnded
<1> DEFINE n == Count + 1
<1>1. /\ Sleep /\ UNCHANGED <<payload, cancel, sched, due, disk, stops>>
      /\ state' = [state EXCEPT ![n] = "queued"] /\ plan' = [plan EXCEPT ![n] = s]
      /\ s # None => ~Active(s)
  BY DEF Enqueue, InsertJob, planVars, Sleep
<1>2. n \in Runs /\ state[n] = "none" /\ Count + Cardinality(DueSet) < MaxRuns
  BY Finite, BoundsAssumption DEF Enqueue, Room, DueSet, Runs, IndInv, Numbered
<1>3. /\ state'[n] = "queued" /\ plan'[n] = s
      /\ \A r \in Runs : r # n => state'[r] = state[r] /\ plan'[r] = plan[r]
  BY <1>1, <1>2 DEF IndInv, Types, RowType
<1>4. RestType' /\ PlanType' /\ RowType'
  <2>1. RestType' /\ PlanType'
    BY <1>1 DEF IndInv, Types, RestType, PlanType
  <2>2. RowType'
    BY <1>1, <1>2 DEF IndInv, Types, RowType, Present, Pending
  <2> QED
    BY <2>1, <2>2
<1>5. Numbered'
  <2>1. \A r \in Runs : state'[r] # "none" <=> r <= Count + 1
    BY <1>2, <1>3, Finite DEF IndInv, Numbered, Runs
  <2>2. DueSet' = DueSet
    BY <1>1 DEF DueSet
  <2>3. 1 + Cardinality(DueSet') + Count <= MaxRuns /\ Count + 1 <= MaxRuns
    BY <1>2, <2>2, Finite, BoundsAssumption
  <2> QED
    BY <2>1, <2>3, NumberedGrows DEF IndInv
<1>6. OneActive'
  <2>1. ASSUME NEW r \in Runs, r # n, state[r] \in Pending PROVE s = None \/ plan[r] # s
    BY <1>1, <2>1 DEF Active
  <2> QED
    BY <1>2, <1>3, <2>1 DEF IndInv, OneActive
<1>7. RowsOK' /\ StaysEnded /\ RunningStays
  BY <1>1, <1>2, <1>3 DEF IndInv, RowsOK, RowOK, StaysEnded, RunningStays, Finished, Pending
<1> QED
  BY <1>1, <1>4, <1>5, <1>6, <1>7, CommandStep

\* cancel ends a queued run, and flags a running one.
LEMMA CancelStep == ASSUME IndInv, NEW r \in Runs, Cancel(r) PROVE IndInv' /\ StaysEnded
<1>1. /\ Sleep /\ UNCHANGED <<plan, sched, due, disk, stops>> /\ cancel' = [cancel EXCEPT ![r] = TRUE]
      /\ state[r] \in Pending
  BY DEF Cancel, planVars, Sleep
<1>2. /\ state' \in [Runs -> Present \cup {"none", "removed"}] /\ payload' \in [Runs -> Payload]
      /\ \A q \in Runs : q # r => state'[q] = state[q] /\ payload'[q] = payload[q]
      /\ \/ state'[r] = state[r]
         \/ state[r] = "queued" /\ state'[r] = "cancelled" /\ payload'[r].status = "cancelled"
  <2>1. CASE state[r] = "queued"
    <3>1. /\ state' = [state EXCEPT ![r] = "cancelled"]
          /\ payload' = [payload EXCEPT ![r].status = "cancelled"]
      BY <2>1 DEF Cancel
    <3>2. PICK x \in Payload : x = payload[r]
      BY DEF IndInv, Types, RowType
    <3>3. payload' = [payload EXCEPT ![r] = [x EXCEPT !.status = "cancelled"]]
      BY <3>1, <3>2 DEF IndInv, Types, RowType
    <3>4. [x EXCEPT !.status = "cancelled"] \in Payload /\ [x EXCEPT !.status = "cancelled"].status = "cancelled"
      BY StatusSet DEF Statuses
    <3> HIDE <3>1
    <3>5. payload' \in [Runs -> Payload] /\ payload'[r].status = "cancelled" /\ \A q \in Runs : q # r => payload'[q] = payload[q]
      BY <3>3, <3>4 DEF IndInv, Types, RowType
    <3>6. /\ state' \in [Runs -> Present \cup {"none", "removed"}] /\ state'[r] = "cancelled"
          /\ \A q \in Runs : q # r => state'[q] = state[q]
      BY <3>1 DEF IndInv, Types, RowType, Present, Finished
    <3> QED
      BY <2>1, <3>5, <3>6
  <2>2. CASE state[r] # "queued"
    BY <2>2 DEF Cancel, IndInv, Types, RowType
  <2> QED
    BY <2>1, <2>2
<1>3. RestType' /\ PlanType' /\ RowType'
  BY <1>1, <1>2 DEF IndInv, Types, RestType, PlanType, RowType
<1>4. ASSUME NEW q \in Runs
      PROVE  /\ state'[q] = "none" <=> state[q] = "none"
             /\ state'[q] \in Pending => state[q] \in Pending
             /\ state[q] \in Finished => state'[q] \in {state[q], "deleting"}
             /\ RowOK(q)'
             /\ state[q] = "running" => state'[q] = "running"
  BY <1>1, <1>2 DEF IndInv, RowsOK, RowOK, Pending, Finished
<1>5. Moves /\ RunningStays
  BY <1>1, <1>4 DEF Moves, RunningStays
<1>6. DueSet' \subseteq DueSet
  BY <1>1 DEF DueSet
<1> QED
  BY <1>1, <1>3, <1>5, <1>6, MovesFacts, CommandStep

-----------------------------------------------------------------------------
(* enqueue_due.                                                            *)

\* The rank of s among the numbers W.
RankIn(W, s) == Cardinality({t \in W : t <= s})

\* Ranks are positive and strictly increasing.
LEMMA Ranks ==
  ASSUME NEW W \in SUBSET Nat, IsFiniteSet(W)
  PROVE  /\ \A s \in W : RankIn(W, s) \in Nat \ {0}
         /\ \A s, t \in W : s < t => RankIn(W, s) < RankIn(W, t)
<1> DEFINE Low(s) == {t \in W : t <= s}
<1>1. \A s : IsFiniteSet(Low(s)) /\ Cardinality(Low(s)) \in Nat /\ RankIn(W, s) = Cardinality(Low(s))
  BY FS_Subset, FS_CardinalityType DEF RankIn
<1>2. ASSUME NEW s \in W PROVE Cardinality(Low(s)) # 0
  <2>1. s \in Low(s)
    OBVIOUS
  <2> QED
    BY <1>1, <2>1, FS_EmptySet
<1>3. ASSUME NEW s \in W, NEW t \in W, s < t PROVE Cardinality(Low(s)) < Cardinality(Low(t))
  <2>1. Low(s) \in SUBSET Low(t) /\ t \in Low(t) /\ t \notin Low(s)
    <3>1. s \in Nat /\ t \in Nat /\ \A u \in W : u \in Nat
      OBVIOUS
    <3>2. \A u \in W : u <= s => u <= t
      BY <1>3, <3>1
    <3>3. t <= t /\ ~(t <= s)
      BY <1>3, <3>1
    <3> QED
      BY <3>2, <3>3
  <2>2. /\ Cardinality(Low(s)) <= Cardinality(Low(t))
        /\ Cardinality(Low(t)) = Cardinality(Low(s)) => Low(t) = Low(s)
    BY <1>1, <2>1, FS_Subset
  <2> HIDE DEF Low
  <2> QED
    BY <1>1, <2>1, <2>2
<1> QED
  BY <1>1, <1>2, <1>3

\* Of the numbers W the lowest are taken: their ranks are 1 to the number of them.
LEMMA TakenRanks ==
  ASSUME NEW W \in SUBSET Nat, IsFiniteSet(W), NEW T \in SUBSET W,
         \A s \in T : \A t \in W : t <= s => t \in T
  PROVE  /\ IsFiniteSet(T) /\ Cardinality(T) \in Nat
         /\ \A s \in T : RankIn(W, s) \in 1 .. Cardinality(T)
         /\ \A n \in 1 .. Cardinality(T) : \E s \in T : RankIn(W, s) = n
<1>1. IsFiniteSet(T) /\ Cardinality(T) \in Nat
  BY FS_Subset, FS_CardinalityType
<1>2. ASSUME NEW s \in T PROVE RankIn(W, s) \in 1 .. Cardinality(T)
  <2>1. {t \in W : t <= s} \in SUBSET T
    OBVIOUS
  <2>2. RankIn(W, s) <= Cardinality(T)
    BY <1>1, <2>1, FS_Subset DEF RankIn
  <2> QED
    BY <1>1, <2>2, Ranks
<1> DEFINE rk == [s \in T |-> RankIn(W, s)]
           I == {RankIn(W, s) : s \in T}
<1>3. ASSUME NEW s \in T, NEW t \in T, s # t PROVE RankIn(W, s) # RankIn(W, t)
  <2>1. s < t \/ t < s
    BY <1>3
  <2>2. RankIn(W, s) < RankIn(W, t) \/ RankIn(W, t) < RankIn(W, s)
    BY <2>1, Ranks
  <2> QED
    BY <2>2, Ranks
<1>4. rk \in Bijection(T, I)
  <2>1. rk \in [T -> I] /\ \A n \in I : \E s \in T : rk[s] = n
    OBVIOUS
  <2>2. \A s, t \in T : rk[s] = rk[t] => s = t
    BY <1>3
  <2> QED
    BY <2>1, <2>2 DEF Bijection, Injection, Surjection, IsInjective
<1>5. IsFiniteSet(I) /\ Cardinality(I) = Cardinality(T)
  BY <1>1, <1>4, FS_Bijection DEF ExistsBijection
<1>6. I \in SUBSET (1 .. Cardinality(T))
  BY <1>2
<1>7. IsFiniteSet(1 .. Cardinality(T)) /\ Cardinality(1 .. Cardinality(T)) = Cardinality(T)
  <2>1. PICK m \in Nat : m = Cardinality(T)
    BY <1>1
  <2>2. IsFiniteSet(1 .. m) /\ Cardinality(1 .. m) = IF 1 > m THEN 0 ELSE m - 1 + 1
    BY FS_Interval
  <2>3. IsFiniteSet(1 .. m) /\ Cardinality(1 .. m) = m
    BY <2>2
  <2> QED
    BY <2>1, <2>3
<1>8. I = 1 .. Cardinality(T)
  BY <1>5, <1>6, <1>7, FS_Subset
<1> QED
  BY <1>1, <1>2, <1>8

\* The schedules that are due get a run each, up to the limit.
LEMMA EnqueueDueStep == ASSUME IndInv, NEW p \in Procs, EnqueueDue(p) PROVE IndInv' /\ StaysEnded
<1> DEFINE W == {s \in Schedules : sched[s] = "on" /\ due[s] /\ ~Active(s)}
           T == {s \in W : PendingCount + RankIn(W, s) <= MaxPending}
           run(s) == Count + RankIn(W, s)
           m == Cardinality(T)
<1>1. /\ ppc[p] = "lead" /\ ppc' = [ppc EXCEPT ![p] = "claim"]
      /\ state' = [r \in Runs |-> IF \E s \in T : run(s) = r THEN "queued" ELSE state[r]]
      /\ plan' = [r \in Runs |-> IF \E s \in T : run(s) = r THEN CHOOSE s \in T : run(s) = r ELSE plan[r]]
      /\ due' = [s \in Schedules |-> due[s] /\ s \notin T]
      /\ UNCHANGED <<payload, cancel, sched, disk, lock, stopping, job, token, wpc, mem, watch, latest,
                     apc, list, cur, others, stops>>
  BY DEF EnqueueDue, At, GoTo, RankIn, workVars, actVars
<1>2. W \in SUBSET Nat /\ IsFiniteSet(W) /\ W \subseteq DueSet
  BY SchedulesAssumption, FS_Subset DEF DueSet
<1>3. PendingCount \in Nat
  <2>1. IsFiniteSet(Runs) /\ {r \in Runs : state[r] \in Pending} \in SUBSET Runs
    BY FS_Interval, BoundsAssumption DEF Runs
  <2> QED
    BY <2>1, FS_Subset, FS_CardinalityType DEF PendingCount
<1>4. T \in SUBSET W /\ \A s \in W : s \in T <=> PendingCount + RankIn(W, s) <= MaxPending
  OBVIOUS
<1> HIDE DEF W
<1>5. /\ IsFiniteSet(T) /\ m \in Nat
      /\ \A s \in T : RankIn(W, s) \in 1 .. m
      /\ \A n \in 1 .. m : \E s \in T : RankIn(W, s) = n
  <2> HIDE DEF T, m
  <2>1. ASSUME NEW s \in T, NEW t \in W, t <= s PROVE t \in T
    <3>1. s \in W /\ PendingCount + RankIn(W, s) <= MaxPending /\ s \in Nat /\ t \in Nat
      BY <1>2, <1>4
    <3>2. RankIn(W, t) <= RankIn(W, s) /\ RankIn(W, t) \in Nat /\ RankIn(W, s) \in Nat
      BY <1>2, <2>1, <3>1, Ranks
    <3> QED
      BY <1>3, <1>4, <3>1, <3>2, BoundsAssumption
  <2>2. \A s \in T : \A t \in W : t <= s => t \in T
    BY <2>1
  <2>3. /\ IsFiniteSet(T) /\ Cardinality(T) \in Nat
        /\ \A s \in T : RankIn(W, s) \in 1 .. Cardinality(T)
        /\ \A n \in 1 .. Cardinality(T) : \E s \in T : RankIn(W, s) = n
    BY <1>2, <1>4, <2>2, TakenRanks
  <2> QED
    BY <2>3 DEF m
<1>6. T \subseteq DueSet
  BY <1>2, <1>4
<1> HIDE DEF T
<1>7. /\ DueSet' = DueSet \ T /\ DueSet \cap T = T
      /\ Cardinality(DueSet') = Cardinality(DueSet) - m
  <2>1. DueSet' = DueSet \ T /\ DueSet \cap T = T
    BY <1>1, <1>6 DEF DueSet
  <2>2. Cardinality(DueSet \ T) = Cardinality(DueSet) - Cardinality(DueSet \cap T)
    BY Finite, FS_Difference
  <2> QED
    BY <2>1, <2>2
<1>8. Count + m <= MaxRuns /\ m + Cardinality(DueSet') + Count <= MaxRuns
  BY <1>5, <1>7, Finite, BoundsAssumption DEF IndInv, Numbered
<1>9. \A r \in Runs : (\E s \in T : run(s) = r) <=> (Count < r /\ r <= Count + m)
  <2>1. ASSUME NEW r \in Runs, NEW s \in T, run(s) = r PROVE Count < r /\ r <= Count + m
    <3>1. RankIn(W, s) \in 1 .. m
      BY <1>5
    <3> QED
      BY <1>5, <2>1, <3>1, Finite
  <2>2. ASSUME NEW r \in Runs, Count < r, r <= Count + m PROVE \E s \in T : run(s) = r
    <3>1. r - Count \in 1 .. m
      BY <1>5, <2>2, Finite DEF Runs
    <3>2. PICK s \in T : RankIn(W, s) = r - Count
      BY <1>5, <3>1
    <3>3. run(s) = r
      BY <3>2, Finite DEF Runs
    <3> QED
      BY <3>3
  <2> QED
    BY <2>1, <2>2
<1>10. ASSUME NEW r \in Runs
       PROVE  /\ Count < r /\ r <= Count + m =>
                   state[r] = "none" /\ state'[r] = "queued" /\ plan'[r] \in T /\ run(plan'[r]) = r
              /\ ~(Count < r /\ r <= Count + m) => state'[r] = state[r] /\ plan'[r] = plan[r]
  <2>1. CASE Count < r /\ r <= Count + m
    <3>1. PICK s \in T : run(s) = r
      BY <1>9, <2>1
    <3>2. state'[r] = "queued" /\ plan'[r] = CHOOSE t \in T : run(t) = r
      BY <1>1, <3>1
    <3>3. state[r] = "none"
      BY <2>1, Finite DEF IndInv, Numbered, Runs
    <3> HIDE DEF run
    <3>4. \A c : c = (CHOOSE t \in T : run(t) = r) => c \in T /\ run(c) = r
      BY <3>1, Zenon
    <3>5. plan'[r] \in T /\ run(plan'[r]) = r
      BY <3>2, <3>4, Zenon
    <3> QED
      BY <2>1, <3>2, <3>3, <3>5
  <2>2. CASE ~(Count < r /\ r <= Count + m)
    BY <1>1, <1>9, <2>2
  <2> QED
    BY <2>1, <2>2
<1> HIDE DEF run, m
<1>11. Numbered'
  <2>1. \A r \in Runs : state'[r] # "none" <=> r <= Count + m
    BY <1>5, <1>10, Finite DEF IndInv, Numbered, Runs
  <2> QED
    BY <1>5, <1>8, <2>1, NumberedGrows DEF IndInv
<1>12. T \subseteq Schedules /\ \A s \in T : ~Active(s)
  BY DEF T, W
<1>13. OneActive'
  <2> SUFFICES ASSUME NEW q \in Runs, NEW r \in Runs, q # r, state'[q] \in Pending, state'[r] \in Pending,
                      plan'[q] = plan'[r], plan'[q] # None
               PROVE  FALSE
    BY DEF OneActive
  <2> DEFINE new(x) == Count < x /\ x <= Count + m
  <2>1. CASE new(q) /\ new(r)
    BY <1>10, <2>1
  <2>2. CASE ~new(q) /\ ~new(r)
    BY <1>10, <2>2 DEF IndInv, OneActive
  <2>3. CASE new(q) /\ ~new(r)
    <3>1. plan'[q] \in T /\ plan[r] = plan'[q] /\ state[r] \in Pending
      BY <1>10, <2>3
    <3> QED
      BY <1>12, <3>1 DEF Active
  <2>4. CASE ~new(q) /\ new(r)
    <3>1. plan'[r] \in T /\ plan[q] = plan'[r] /\ state[q] \in Pending
      BY <1>10, <2>4
    <3> QED
      BY <1>12, <3>1 DEF Active
  <2> QED
    BY <2>1, <2>2, <2>3, <2>4
<1>14. RowsOK' /\ StaysEnded
  BY <1>1, <1>10 DEF IndInv, RowsOK, RowOK, StaysEnded, Finished, Pending
<1>15. Types'
  <2>1. state' \in [Runs -> Present \cup {"none", "removed"}]
    <3>1. \A r \in Runs : state'[r] \in Present \cup {"none", "removed"}
      BY <1>10 DEF IndInv, Types, RowType, Present, Pending
    <3> QED
      BY <1>1, <3>1
  <2>2. plan' \in [Runs -> Schedules \cup {None}]
    <3>1. \A r \in Runs : plan'[r] \in Schedules \cup {None}
      BY <1>10, <1>12 DEF IndInv, Types, RowType
    <3> QED
      BY <1>1, <3>1
  <2>3. due' \in [Schedules -> BOOLEAN]
    BY <1>1 DEF IndInv, Types, PlanType
  <2> QED
    BY <1>1, <2>1, <2>2, <2>3 DEF IndInv, Types, RowType, PlanType, ProcType, WorkType, ActType, RestType
<1>16. Only(p) /\ WorkingOK(p)' /\ CleaningOK(p)'
  <2>1. ppc'[p] = "claim" /\ \A q \in Procs : q # p => ppc'[q] = ppc[q]
    BY <1>1 DEF IndInv, Types, ProcType
  <2>2. Only(p)
    BY <1>1, <2>1 DEF Only, Still, Calm
  <2>3. WorkingOK(p)'
    BY <1>1, <2>1 DEF IndInv, Working, WorkingOK
  <2>4. CleaningOK(p)'
    BY <1>1, ProcsAct DEF IndInv, Cleaning, CleaningOK
  <2> QED
    BY <2>2, <2>3, <2>4
<1> QED
  BY <1>1, <1>11, <1>13, <1>14, <1>15, <1>16, LeaderStep0

\* A set of runs that is not empty has an oldest one.
LEMMA Oldest ==
  ASSUME NEW W \in SUBSET Nat, IsFiniteSet(W), W # {}
  PROVE  \E s \in W : \A t \in W : s <= t
<1>1. /\ Cardinality(W) \in Nat
      /\ \A n \in 1 .. Cardinality(W) : \E s \in W : RankIn(W, s) = n
  BY TakenRanks
<1>2. Cardinality(W) # 0
  BY FS_EmptySet
<1>3. 1 \in 1 .. Cardinality(W)
  BY <1>1, <1>2
<1>4. PICK s \in W : RankIn(W, s) = 1
  BY <1>1, <1>3
<1>5. ASSUME NEW t \in W, ~(s <= t) PROVE FALSE
  <2>1. s \in Nat /\ t \in Nat
    OBVIOUS
  <2>2. t < s
    BY <1>5, <2>1
  <2>3. RankIn(W, t) < RankIn(W, s) /\ RankIn(W, t) \in Nat \ {0}
    BY <2>2, Ranks
  <2> QED
    BY <1>4, <2>3
<1> QED
  BY <1>5

-----------------------------------------------------------------------------
(* serve and tick.                                                         *)

\* Process p takes the free lock, gives it back, leaves, or is started again.
LEMMA LockStep ==
  ASSUME IndInv, NEW p \in Procs, TryLock(p) \/ RecoverFails(p) \/ Leave(p) \/ Restart(p)
  PROVE  IndInv' /\ StaysEnded
<1>1. /\ ppc[p] \in {"idle", "recover", "lead", "down"} /\ ppc'[p] \in {"recover", "idle", "down"}
      /\ \A q \in Procs : q # p => ppc'[q] = ppc[q]
      /\ ppc' \in [Procs -> {"down", "idle", "recover", "lead", "claim", "check", "work",
                             "clean", "finish", "retain", "delete"}]
      /\ stopping' \in [Procs -> {"no", "drain", "stop"}]
  BY DEF TryLock, RecoverFails, Leave, Restart, At, GoTo, IndInv, Types, ProcType
<1>2. UNCHANGED <<state, payload, cancel, plan, sched, due, disk, job, token, wpc, mem, watch, latest,
                  apc, list, cur, others, stops>>
  BY DEF TryLock, RecoverFails, Leave, Restart, rowVars, planVars, workVars, actVars
<1>3. /\ lock' \in Procs \cup {None}
      /\ ppc'[p] = "recover" => lock = None /\ lock' = p
      /\ lock' # lock => lock \in {None, p}
  BY DEF TryLock, RecoverFails, Leave, Restart, At, GoTo, IndInv, Types, ProcType, Leading
<1>4. Types'
  <2>1. ProcType'
    BY <1>1, <1>2, <1>3 DEF IndInv, Types, ProcType
  <2> QED
    BY <1>2, <2>1 DEF IndInv, Types, RowType, PlanType, WorkType, ActType, RestType
<1>5. Only(p)
  BY <1>1, <1>2 DEF Only, Still, Calm
<1>6. Leading'
  BY <1>1, <1>3, ActorsAssumption DEF IndInv, Leading
<1>7. WorkingOK(p)' /\ CleaningOK(p)'
  BY <1>1, <1>2, ProcsAct DEF IndInv, Working, WorkingOK, Cleaning, CleaningOK
<1> QED
  BY <1>2, <1>4, <1>5, <1>6, <1>7, LifeStep

\* A stop or drain is asked for.
LEMMA StopStep == ASSUME IndInv, NEW p \in Procs, NEW how \in {"drain", "stop"}, Stop(p, how) PROVE IndInv' /\ StaysEnded
<1>1. /\ UNCHANGED <<state, payload, cancel, plan, sched, due, disk, lock, ppc, job, wpc, mem, watch, latest,
                     apc, list, cur, others>>
      /\ stops' \in 0 .. MaxStops
  BY BoundsAssumption DEF Stop, rowVars, planVars, workVars, actVars, IndInv, Types, RestType
<1>2. stopping' \in [Procs -> {"no", "drain", "stop"}] /\ token' \in [Procs -> BOOLEAN]
  BY DEF Stop, IndInv, Types, ProcType
<1>3. Types'
  BY <1>1, <1>2 DEF IndInv, Types, RowType, PlanType, ProcType, WorkType, ActType, RestType
<1>4. Only(p) /\ Leading'
  BY <1>1 DEF Only, Still, Calm, IndInv, Leading
<1>5. WorkingOK(p)' /\ CleaningOK(p)'
  BY <1>1, ProcsAct DEF IndInv, Working, WorkingOK, Cleaning, CleaningOK
<1> QED
  BY <1>1, <1>3, <1>4, <1>5, LifeStep

\* Process p, or command a, forgets what it was cleaning up.
LEMMA ForgetFacts ==
  ASSUME ActType, NEW a \in Actors, Forget(a)
  PROVE  /\ ActType' /\ CleaningOK(a)' /\ apc'[a] = "idle" /\ DOMAIN list'[a] = {}
         /\ \A b \in Actors : b # a => Calm(b)
<1>1. /\ apc' = [apc EXCEPT ![a] = "idle"] /\ list' = [list EXCEPT ![a] = Nothing]
      /\ cur' = [cur EXCEPT ![a] = 0] /\ others' = [others EXCEPT ![a] = {}]
  BY DEF Forget, NoRun
<1>2. ActType'
  BY <1>1, NothingIsList, BoundsAssumption DEF ActType
<1>3. /\ apc'[a] = "idle" /\ list'[a] = Nothing /\ DOMAIN list'[a] = {}
      /\ \A b \in Actors : b # a => apc'[b] = apc[b] /\ cur'[b] = cur[b] /\ list'[b] = list[b]
  BY <1>1, NothingIsList DEF ActType
<1> QED
  BY <1>2, <1>3 DEF CleaningOK, Calm

\* Process p dies.
LEMMA CrashStep == ASSUME IndInv, NEW p \in Procs, Crash(p) PROVE IndInv' /\ StaysEnded
<1>1. /\ UNCHANGED <<state, payload, cancel, plan, sched, due, disk>> /\ stops' \in 0 .. MaxStops
      /\ Forget(p) /\ p \in Actors
  BY BoundsAssumption, ProcsAct DEF Crash, rowVars, planVars, IndInv, Types, RestType
<1>2. /\ ppc'[p] = "down" /\ wpc'[p] = "none" /\ mem' \in [Procs -> Payload]
      /\ \A q \in Procs : q # p => ppc'[q] = ppc[q] /\ job'[q] = job[q] /\ wpc'[q] = wpc[q] /\ mem'[q] = mem[q]
  BY BlankIs DEF Crash, GoTo, IndInv, Types, ProcType, WorkType
<1>3. lock' \in Procs \cup {None} /\ (lock' # lock => lock = p)
  BY DEF Crash, IndInv, Types, ProcType
<1>4. ActType' /\ CleaningOK(p)' /\ apc'[p] = "idle" /\ \A b \in Actors : b # p => Calm(b)
  BY <1>1, ForgetFacts DEF IndInv, Types
<1>5. Types'
  <2>1. ProcType'
    BY <1>3, BoundsAssumption DEF Crash, GoTo, NoRun, IndInv, Types, ProcType
  <2>2. WorkType'
    BY BlankIs DEF Crash, IndInv, Types, WorkType
  <2> QED
    BY <1>1, <1>4, <2>1, <2>2 DEF IndInv, Types, RowType, PlanType, RestType
<1>6. Only(p)
  BY <1>2, <1>4, ProcsAct DEF Only, Still, Calm
<1>7. Leading'
  BY <1>2, <1>3 DEF IndInv, Leading
<1>8. WorkingOK(p)'
  BY <1>2, <1>4 DEF WorkingOK
<1> QED
  BY <1>1, <1>4, <1>5, <1>6, <1>7, <1>8, LifeStep

\* recover ends what was left running, and every deletion that is under way.
LEMMA RecoverStep == ASSUME IndInv, NEW p \in Procs, Recover(p) PROVE IndInv' /\ StaysEnded
<1> DEFINE hit == {r \in Runs : state[r] \in {"running", "deleting"}}
<1>1. /\ ppc[p] = "recover" /\ ppc' = [ppc EXCEPT ![p] = "lead"]
      /\ state' = [r \in Runs |-> IF r \in hit THEN "failed" ELSE state[r]]
      /\ payload' = [r \in Runs |-> IF r \in hit THEN [payload[r] EXCEPT !.status = "failed"] ELSE payload[r]]
      /\ UNCHANGED <<cancel, plan, sched, due, disk, lock, stopping, job, token, wpc, mem, watch, latest,
                     apc, list, cur, others, stops>>
  BY DEF Recover, At, GoTo, planVars, workVars, actVars
<1>2. ASSUME NEW r \in Runs
      PROVE  /\ payload'[r] \in Payload
             /\ r \in hit => state'[r] = "failed" /\ payload'[r].status = "failed"
             /\ r \notin hit => state'[r] = state[r] /\ payload'[r] = payload[r]
  <2>1. PICK x \in Payload : x = payload[r]
    BY DEF IndInv, Types, RowType
  <2>2. CASE r \in hit
    <3>1. payload'[r] = [x EXCEPT !.status = "failed"] /\ state'[r] = "failed"
      BY <1>1, <2>1, <2>2
    <3> QED
      BY <2>2, <3>1, StatusSet DEF Statuses
  <2>3. CASE r \notin hit
    BY <1>1, <2>1, <2>3
  <2> QED
    BY <2>2, <2>3
<1>3. RowType'
  <2>1. payload' \in [Runs -> Payload]
    BY <1>1, <1>2
  <2>2. state' \in [Runs -> Present \cup {"none", "removed"}]
    BY <1>1 DEF IndInv, Types, RowType, Present, Finished
  <2> QED
    BY <1>1, <2>1, <2>2 DEF IndInv, Types, RowType
<1>4. ppc'[p] = "lead" /\ \A q \in Procs : q # p => ppc'[q] = ppc[q]
  BY <1>1 DEF IndInv, Types, ProcType
<1>5. Types'
  BY <1>1, <1>3 DEF IndInv, Types, PlanType, ProcType, WorkType, ActType, RestType
<1>6. Moves
  <2>1. ASSUME NEW r \in Runs
        PROVE  /\ state'[r] = "none" <=> state[r] = "none"
               /\ state'[r] \in Pending => state[r] \in Pending
               /\ state[r] \in Finished => state'[r] \in {state[r], "deleting"}
               /\ RowOK(r)'
    BY <1>2 DEF IndInv, RowsOK, RowOK, Pending, Finished
  <2> QED
    BY <1>1, <2>1 DEF Moves
<1>7. Only(p) /\ DueSet' \subseteq DueSet
  BY <1>1, <1>4 DEF Only, Still, Calm, DueSet
<1>8. WorkingOK(p)' /\ CleaningOK(p)'
  BY <1>1, <1>4, ProcsAct DEF IndInv, Working, WorkingOK, Cleaning, CleaningOK
<1> QED
  BY <1>1, <1>5, <1>6, <1>7, <1>8, LeaderMoves

\* claim takes the oldest queued run, if there is one.
LEMMA ClaimStep == ASSUME IndInv, NEW p \in Procs, Claim(p) PROVE IndInv' /\ StaysEnded
<1>1. /\ ppc[p] = "claim"
      /\ UNCHANGED <<payload, cancel, plan, sched, due, disk, lock, stopping, token, wpc, mem, watch, latest,
                     apc, list, cur, others, stops>>
  BY DEF Claim, At, planVars, workVars, actVars
<1>2. DueSet' \subseteq DueSet
  BY <1>1 DEF DueSet
<1>3. wpc[p] = "none" /\ apc[p] = "idle"
  BY <1>1 DEF IndInv, Working, WorkingOK
<1>4. CleaningOK(p)'
  BY <1>1, ProcsAct DEF IndInv, Cleaning, CleaningOK
<1>5. CASE Queued = {}
  <2>1. ppc' = [ppc EXCEPT ![p] = "lead"] /\ UNCHANGED <<state, job>>
    BY <1>5 DEF Claim, GoTo
  <2>2. ppc'[p] = "lead" /\ \A q \in Procs : q # p => ppc'[q] = ppc[q]
    BY <2>1 DEF IndInv, Types, ProcType
  <2>3. Types'
    BY <1>1, <2>1 DEF IndInv, Types, RowType, PlanType, ProcType, WorkType, ActType, RestType
  <2>4. Only(p) /\ WorkingOK(p)'
    BY <1>1, <1>3, <2>1, <2>2 DEF Only, Still, Calm, WorkingOK
  <2>5. Moves
    BY <1>1, <2>1, RowsStay
  <2> QED
    BY <1>1, <1>2, <1>4, <2>3, <2>4, <2>5, LeaderMoves
<1>6. CASE Queued # {}
  <2>1. PICK r : /\ r = CHOOSE q \in Queued : \A q2 \in Queued : q <= q2
                 /\ state' = [state EXCEPT ![r] = "running"] /\ job' = [job EXCEPT ![p] = r]
                 /\ ppc' = [ppc EXCEPT ![p] = "check"]
    BY <1>6 DEF Claim, GoTo
  <2>2. r \in Queued
    <3>1. Queued \in SUBSET Nat /\ IsFiniteSet(Queued)
      <4>1. IsFiniteSet(Runs) /\ Queued \in SUBSET Runs /\ Runs \subseteq Nat
        BY FS_Interval, BoundsAssumption DEF Runs, Queued
      <4> QED
        BY <4>1, FS_Subset
    <3>2. \E q \in Queued : \A q2 \in Queued : q <= q2
      BY <1>6, <3>1, Oldest
    <3> QED
      BY <2>1, <3>2, Zenon
  <2>3. r \in Runs /\ state[r] = "queued"
    BY <2>2 DEF Queued
  <2>4. /\ state'[r] = "running" /\ \A q \in Runs : q # r => state'[q] = state[q]
        /\ ppc'[p] = "check" /\ job'[p] = r
        /\ \A q \in Procs : q # p => ppc'[q] = ppc[q] /\ job'[q] = job[q]
    BY <2>1, <2>3 DEF IndInv, Types, RowType, ProcType
  <2>5. Types'
    <3>1. state' \in [Runs -> Present \cup {"none", "removed"}]
      BY <2>1, <2>3 DEF IndInv, Types, RowType, Present, Pending
    <3>2. ProcType'
      BY <1>1, <2>1, <2>3, BoundsAssumption DEF IndInv, Types, ProcType, Runs
    <3> QED
      BY <1>1, <3>1, <3>2 DEF IndInv, Types, RowType, PlanType, WorkType, ActType, RestType
  <2>6. Moves
    <3>1. ASSUME NEW q \in Runs
          PROVE  /\ state'[q] = "none" <=> state[q] = "none"
                 /\ state'[q] \in Pending => state[q] \in Pending
                 /\ state[q] \in Finished => state'[q] \in {state[q], "deleting"}
                 /\ RowOK(q)'
      BY <1>1, <2>3, <2>4 DEF IndInv, RowsOK, RowOK, Pending, Finished
    <3> QED
      BY <1>1, <3>1 DEF Moves
  <2>7. Only(p) /\ WorkingOK(p)'
    BY <1>1, <1>3, <2>3, <2>4 DEF Only, Still, Calm, WorkingOK
  <2> QED
    BY <1>1, <1>2, <1>4, <2>5, <2>6, <2>7, LeaderMoves
<1> QED
  BY <1>5, <1>6

-----------------------------------------------------------------------------
(* The run that is executed: the tick waits for the worker thread.         *)

\* A step of the tick that watches the worker, or of the worker itself: the rows keep
\* their states, and a worker that is done leaves a result.
LEMMA WorkStep ==
  ASSUME IndInv, NEW p \in Procs, ppc[p] \in {"check", "work"},
         UNCHANGED <<state, cancel, plan, sched, due, lock, stopping, job, apc, list, cur, others, stops>>,
         payload' \in [Runs -> Payload], \A r \in Runs : state[r] # "running" => payload'[r] = payload[r],
         disk' \in [Paths -> 0 .. MaxRuns], token' \in [Procs -> BOOLEAN], WorkType',
         ppc' = [ppc EXCEPT ![p] = "work"],
         \A q \in Procs : q # p => wpc'[q] = wpc[q] /\ mem'[q] = mem[q],
         wpc'[p] = "done" => mem'[p].status \in Finished
  PROVE  IndInv' /\ StaysEnded
<1>1. ppc'[p] = "work" /\ \A q \in Procs : q # p => ppc'[q] = ppc[q]
  BY DEF IndInv, Types, ProcType
<1>2. Types'
  <2>1. ProcType'
    BY DEF IndInv, Types, ProcType
  <2>2. RowType' /\ PlanType' /\ ActType' /\ RestType'
    BY DEF IndInv, Types, RowType, PlanType, ActType, RestType
  <2> QED
    BY <2>1, <2>2 DEF Types
<1>3. Moves /\ DueSet' \subseteq DueSet
  BY RowsStay DEF DueSet
<1>4. Only(p)
  BY <1>1 DEF Only, Still, Calm
<1>5. WorkingOK(p)' /\ CleaningOK(p)'
  <2>1. WorkingOK(p)'
    BY <1>1 DEF IndInv, Working, WorkingOK
  <2>2. CleaningOK(p)'
    BY ProcsAct DEF IndInv, Cleaning, CleaningOK
  <2> QED
    BY <2>1, <2>2
<1> QED
  BY <1>2, <1>3, <1>4, <1>5, LeaderMoves

\* A process that is at work stays there.
LEMMA AtWork ==
  ASSUME IndInv, NEW p \in Procs, ppc[p] = "work", UNCHANGED ppc
  PROVE  ppc' = [ppc EXCEPT ![p] = "work"]
  BY DEF IndInv, Types, ProcType

\* The worker is started, the flag is polled, or what was read is stored.
LEMMA TickStep ==
  ASSUME IndInv, NEW p \in Procs, StartWorker(p) \/ PollCancel(p) \/ PollStore(p)
  PROVE  IndInv' /\ StaysEnded
<1>1. /\ UNCHANGED <<state, cancel, plan, sched, due, disk, lock, stopping, job, apc, list, cur, others, stops>>
      /\ ppc[p] \in {"check", "work"}
  BY DEF StartWorker, PollCancel, PollStore, At, rowVars, planVars, actVars
<1>2. disk' \in [Paths -> 0 .. MaxRuns]
  BY <1>1 DEF IndInv, Types, RestType
<1>3. CASE StartWorker(p)
  <2>1. ppc' = [ppc EXCEPT ![p] = "work"] /\ payload' = payload /\ UNCHANGED latest
    BY <1>3 DEF StartWorker, GoTo, rowVars
  <2>2. token' \in [Procs -> BOOLEAN]
    <3>1. job[p] \in Runs
      BY <1>3 DEF StartWorker, At, IndInv, Working, WorkingOK
    <3> QED
      BY <1>3, <3>1 DEF StartWorker, IndInv, Types, RowType, ProcType
  <2>3. /\ WorkType' /\ wpc'[p] = "start"
        /\ \A q \in Procs : q # p => wpc'[q] = wpc[q] /\ mem'[q] = mem[q]
    BY <1>3, <2>1, BlankIs DEF StartWorker, IndInv, Types, WorkType
  <2>4. payload' \in [Runs -> Payload]
    BY <2>1 DEF IndInv, Types, RowType
  <2> QED
    BY <1>1, <1>2, <2>1, <2>2, <2>3, <2>4, WorkStep
<1>4. CASE PollCancel(p)
  <2>1. UNCHANGED <<payload, ppc, wpc, mem, watch>> /\ ppc[p] = "work"
    BY <1>4 DEF PollCancel, At, rowVars
  <2>2. token' \in [Procs -> BOOLEAN]
    <3>1. job[p] \in Runs
      BY <2>1 DEF IndInv, Working, WorkingOK
    <3>2. PICK error \in {FALSE, Errors} :
            token' = [token EXCEPT ![p] = @ \/ stopping[p] = "stop" \/ cancel[job[p]] \/ error]
      BY <1>4 DEF PollCancel
    <3> QED
      BY <3>1, <3>2, BoundsAssumption DEF IndInv, Types, RowType, ProcType
  <2>3. WorkType'
    BY <1>4, <2>1 DEF PollCancel, IndInv, Types, WorkType
  <2>4. payload' \in [Runs -> Payload]
    BY <2>1 DEF IndInv, Types, RowType
  <2>5. wpc'[p] = "done" => mem'[p].status \in Finished
    BY <2>1 DEF IndInv, Working, WorkingOK
  <2> QED
    BY <1>1, <1>2, <2>1, <2>2, <2>3, <2>4, <2>5, WorkStep, AtWork
<1>5. CASE PollStore(p)
  <2>1. UNCHANGED <<ppc, wpc, mem, watch>> /\ ppc[p] = "work" /\ latest[p] # None
    BY <1>5 DEF PollStore, At
  <2>2. token' \in [Procs -> BOOLEAN]
    BY <1>5 DEF PollStore, IndInv, Types, ProcType
  <2>3. WorkType'
    BY <1>5, <2>1 DEF PollStore, IndInv, Types, WorkType
  <2>4. payload' \in [Runs -> Payload] /\ \A r \in Runs : state[r] # "running" => payload'[r] = payload[r]
    <3>1. latest[p] \in Payload /\ RowType
      BY <2>1 DEF IndInv, Types, WorkType
    <3>2. CASE Progress(job[p], latest[p])
      BY <3>1, <3>2, ProgressFacts
    <3>3. CASE UNCHANGED payload
      BY <3>1, <3>3 DEF RowType
    <3> QED
      BY <1>5, <3>2, <3>3 DEF PollStore
  <2>5. wpc'[p] = "done" => mem'[p].status \in Finished
    BY <2>1 DEF IndInv, Working, WorkingOK
  <2> QED
    BY <1>1, <1>2, <2>1, <2>2, <2>3, <2>4, <2>5, WorkStep, AtWork
<1> QED
  BY <1>3, <1>4, <1>5

\* The worker sets what it has in memory and goes on.
LEMMA MemFacts ==
  ASSUME WorkType, NEW p \in Procs, NEW x \in Payload, NEW pc \in {"none", "start", "send", "create", "export", "done"},
         mem' = [mem EXCEPT ![p] = x], wpc' = [wpc EXCEPT ![p] = pc], UNCHANGED <<watch, latest>>
  PROVE  /\ WorkType' /\ mem'[p] = x /\ wpc'[p] = pc
         /\ \A q \in Procs : q # p => wpc'[q] = wpc[q] /\ mem'[q] = mem[q]
  BY DEF WorkType

\* execute decides the status when the export returns.
LEMMA ReturnFacts ==
  ASSUME WorkType, NEW p \in Procs, NEW x \in Payload, NEW ok \in BOOLEAN, Return(p, x, ok), UNCHANGED <<watch, latest>>
  PROVE  /\ WorkType' /\ mem'[p].status \in Finished
         /\ \A q \in Procs : q # p => wpc'[q] = wpc[q] /\ mem'[q] = mem[q]
<1> DEFINE st == IF token[p] THEN "cancelled" ELSE IF ok THEN "success" ELSE "failed"
           y == [x EXCEPT !.status = st]
<1>1. st \in Statuses /\ st \in Finished
  BY DEF Statuses, Finished
<1>2. mem' = [mem EXCEPT ![p] = y] /\ wpc' = [wpc EXCEPT ![p] = "done"]
  BY DEF Return
<1> HIDE DEF st
<1>3. y \in Payload /\ y.status = st
  BY <1>1, StatusSet
<1> HIDE DEF y
<1> QED
  BY <1>1, <1>2, <1>3, MemFacts

\* What every step of the worker leaves alone.
LEMMA WorkerFacts ==
  ASSUME IndInv, NEW p \in Procs, wpc[p] # "none", WorkerOnly
  PROVE  /\ ppc[p] = "work" /\ ppc' = [ppc EXCEPT ![p] = "work"] /\ token' \in [Procs -> BOOLEAN]
         /\ UNCHANGED <<state, cancel, plan, sched, due, lock, stopping, job, latest, apc, list, cur, others, stops>>
<1>1. UNCHANGED <<state, cancel, plan, sched, due, lock, ppc, stopping, job, token, latest, apc, list, cur, others, stops>>
  BY DEF WorkerOnly, planVars, procVars, actVars
<1>2. ppc[p] = "work"
  BY DEF IndInv, Working, WorkingOK
<1> QED
  BY <1>1, <1>2, AtWork DEF IndInv, Types, ProcType

\* The worker ends, well or badly.
LEMMA WorkerReturns ==
  ASSUME IndInv, NEW p \in Procs, wpc[p] # "none", WorkerOnly, UNCHANGED <<payload, disk, watch>>,
         NEW x \in Payload, NEW ok \in BOOLEAN, Return(p, x, ok)
  PROVE  IndInv' /\ StaysEnded
<1>1. /\ WorkType' /\ mem'[p].status \in Finished
      /\ \A q \in Procs : q # p => wpc'[q] = wpc[q] /\ mem'[q] = mem[q]
  BY ReturnFacts, WorkerFacts DEF IndInv, Types
<1>2. payload' \in [Runs -> Payload] /\ disk' \in [Paths -> 0 .. MaxRuns]
  BY DEF IndInv, Types, RowType, RestType
<1> QED
  BY <1>1, <1>2, WorkerFacts, WorkStep

\* The worker goes on.
LEMMA WorkerGoes ==
  ASSUME IndInv, NEW p \in Procs, wpc[p] # "none", WorkerOnly, NEW x \in Payload,
         NEW pc \in {"send", "create", "export"}, NEW w \in [Procs -> Payload],
         mem' = [mem EXCEPT ![p] = x], wpc' = [wpc EXCEPT ![p] = pc], watch' = w,
         payload' \in [Runs -> Payload], \A r \in Runs : state[r] # "running" => payload'[r] = payload[r],
         disk' \in [Paths -> 0 .. MaxRuns]
  PROVE  IndInv' /\ StaysEnded
<1>1. /\ WorkType' /\ wpc'[p] = pc
      /\ \A q \in Procs : q # p => wpc'[q] = wpc[q] /\ mem'[q] = mem[q]
  BY WorkerFacts DEF IndInv, Types, WorkType
<1> QED
  BY <1>1, WorkerFacts, WorkStep

\* The steps of the worker thread.
LEMMA WorkerStep0 == ASSUME IndInv, NEW p \in Procs, WorkerNext(p) PROVE IndInv' /\ StaysEnded
<1>1. /\ WorkType /\ RowType /\ payload \in [Runs -> Payload] /\ disk \in [Paths -> 0 .. MaxRuns]
      /\ mem[p] \in Payload /\ watch[p] \in Payload /\ watch \in [Procs -> Payload] /\ job[p] \in 0 .. MaxRuns
      /\ FALSE \in BOOLEAN
  BY DEF IndInv, Types, WorkType, RowType, RestType, ProcType
<1>2. PICK x \in Payload : x = mem[p]
  BY <1>1
<1>3. CASE WorkerRefuses(p)
  BY <1>1, <1>3, WorkerReturns DEF WorkerRefuses
<1>4. ASSUME NEW f \in Paths, WorkerRecords(p, f) PROVE IndInv' /\ StaysEnded
  <2>1. /\ wpc[p] # "none" /\ WorkerOnly /\ UNCHANGED <<disk, watch>> /\ wpc' = [wpc EXCEPT ![p] = "send"]
        /\ mem' = [mem EXCEPT ![p] = [x EXCEPT !.path = f]] /\ Progress(job[p], mem'[p])
    BY <1>1, <1>2, <1>4 DEF WorkerRecords, WorkType
  <2>2. [x EXCEPT !.path = f] \in Payload
    BY DEF Payload
  <2>3. mem'[p] \in Payload
    BY <1>1, <2>1, <2>2 DEF WorkType
  <2>4. payload' \in [Runs -> Payload] /\ \A r \in Runs : state[r] # "running" => payload'[r] = payload[r]
    BY <1>1, <2>1, <2>3, ProgressFacts
  <2> QED
    BY <1>1, <2>1, <2>2, <2>4, WorkerGoes
<1>5. ASSUME NEW f \in Paths, WorkerRecordFails(p, f) PROVE IndInv' /\ StaysEnded
  <2>1. [mem[p] EXCEPT !.path = f] \in Payload
    BY <1>1 DEF Payload
  <2> QED
    BY <1>1, <1>5, <2>1, WorkerReturns DEF WorkerRecordFails
<1>6. CASE WorkerSends(p)
  <2>1. /\ wpc[p] # "none" /\ WorkerOnly /\ UNCHANGED <<payload, disk>> /\ wpc' = [wpc EXCEPT ![p] = "create"]
        /\ mem' = [mem EXCEPT ![p] = x] /\ watch' \in [Procs -> Payload]
    BY <1>1, <1>2, <1>6 DEF WorkerSends, WorkType
  <2> QED
    BY <1>1, <2>1, WorkerGoes
<1>7. CASE WorkerCreates(p)
  <2>1. wpc[p] # "none" /\ WorkerOnly /\ UNCHANGED <<payload, watch>>
    BY <1>7 DEF WorkerCreates
  <2>2. CASE /\ disk' = [disk EXCEPT ![mem[p].path] = job[p]]
             /\ mem' = [mem EXCEPT ![p].owned = TRUE]
             /\ wpc' = [wpc EXCEPT ![p] = "export"]
    <3>1. mem' = [mem EXCEPT ![p] = [x EXCEPT !.owned = TRUE]] /\ [x EXCEPT !.owned = TRUE] \in Payload
      BY <1>1, <1>2, <2>2 DEF WorkType, Payload
    <3>2. disk' \in [Paths -> 0 .. MaxRuns]
      BY <1>1, <2>2
    <3> QED
      BY <1>1, <2>1, <2>2, <3>1, <3>2, WorkerGoes
  <2>3. CASE Return(p, [mem[p] EXCEPT !.path = None], FALSE) /\ UNCHANGED disk
    <3>1. [mem[p] EXCEPT !.path = None] \in Payload
      BY <1>1 DEF Payload
    <3> QED
      BY <1>1, <2>1, <2>3, <3>1, WorkerReturns
  <2> QED
    BY <1>7, <2>2, <2>3 DEF WorkerCreates
<1>8. CASE WorkerReports(p)
  <2>1. /\ wpc[p] # "none" /\ WorkerOnly /\ UNCHANGED <<payload, disk>> /\ wpc' = [wpc EXCEPT ![p] = "export"]
        /\ mem' = [mem EXCEPT ![p] = x] /\ watch' \in [Procs -> Payload]
    BY <1>1, <1>2, <1>8 DEF WorkerReports, WorkType
  <2> QED
    BY <1>1, <2>1, WorkerGoes
<1>9. CASE WorkerEnds(p)
  <2>1. PICK ok \in BOOLEAN : Return(p, mem[p], ok)
    BY <1>9 DEF WorkerEnds
  <2> QED
    BY <1>1, <1>9, <2>1, WorkerReturns DEF WorkerEnds
<1>10. CASE WorkerPanics(p)
  <2> DEFINE y == [watch[p] EXCEPT !.status = "failed"]
  <2>1. /\ wpc[p] # "none" /\ WorkerOnly /\ UNCHANGED <<payload, disk, watch>>
        /\ mem' = [mem EXCEPT ![p] = y] /\ wpc' = [wpc EXCEPT ![p] = "done"]
    BY <1>10 DEF WorkerPanics
  <2>2. y \in Payload /\ y.status \in Finished
    BY <1>1, StatusSet DEF Statuses, Finished
  <2> HIDE DEF y
  <2>3. /\ WorkType' /\ mem'[p] = y
        /\ \A q \in Procs : q # p => wpc'[q] = wpc[q] /\ mem'[q] = mem[q]
    BY <1>1, <2>1, <2>2, MemFacts, WorkerFacts
  <2> QED
    BY <1>1, <2>1, <2>2, <2>3, WorkerFacts, WorkStep
<1> QED
  BY <1>3, <1>4, <1>5, <1>6, <1>7, <1>8, <1>9, <1>10 DEF WorkerNext

-----------------------------------------------------------------------------
(* The end of a tick.                                                      *)

\* A step of process p that is past the lock and touches no row: where it goes, what
\* becomes of its worker, and what it has to clean up.
LEMMA EndOfTick ==
  ASSUME IndInv, NEW p \in Procs, ppc[p] \notin {"down", "idle"},
         UNCHANGED <<state, payload, cancel, plan, sched, due, disk, lock, stopping, stops>>,
         NEW there \in {"lead", "clean", "finish", "delete"}, ppc' = [ppc EXCEPT ![p] = there],
         NEW j \in 0 .. MaxRuns, job' = [job EXCEPT ![p] = j],
         token' \in [Procs -> BOOLEAN], WorkType', ActType',
         \A q \in Procs : q # p => wpc'[q] = wpc[q] /\ mem'[q] = mem[q],
         \A b \in Actors : b # p => Calm(b),
         wpc'[p] = "none",
         there \in {"clean", "finish"} => j \in Runs /\ state[j] = "running",
         there = "finish" => mem'[p].status \in Finished,
         there = "clean" => j \in DOMAIN list'[p],
         there \in {"lead", "finish"} => apc'[p] = "idle",
         CleaningOK(p)'
  PROVE  IndInv' /\ StaysEnded
<1>1. /\ ppc'[p] = there /\ job'[p] = j
      /\ \A q \in Procs : q # p => ppc'[q] = ppc[q] /\ job'[q] = job[q]
  BY DEF IndInv, Types, ProcType
<1>2. Types'
  <2>1. ProcType'
    BY DEF IndInv, Types, ProcType
  <2> QED
    BY <2>1 DEF IndInv, Types, RowType, PlanType, RestType
<1>3. Moves /\ DueSet' \subseteq DueSet
  BY RowsStay DEF DueSet
<1>4. Only(p)
  BY <1>1, ProcsAct DEF Only, Still, Calm
<1>5. WorkingOK(p)'
  BY <1>1 DEF WorkingOK
<1> QED
  BY <1>2, <1>3, <1>4, <1>5, LeaderMoves

\* The job stays as it is.
LEMMA SameJob ==
  ASSUME IndInv, NEW p \in Procs, UNCHANGED job
  PROVE  job[p] \in 0 .. MaxRuns /\ job' = [job EXCEPT ![p] = job[p]]
  BY DEF IndInv, Types, ProcType

\* There is no worker but where the tick waits for it, and no cleanup either.
LEMMA NoWorker ==
  ASSUME IndInv, NEW p \in Procs
  PROVE  /\ ppc[p] # "work" => wpc[p] = "none"
         /\ ppc[p] \notin {"clean", "delete"} => apc[p] = "idle"
         /\ 0 \in 0 .. MaxRuns /\ p \in Actors /\ CleaningOK(p)
  BY BoundsAssumption, ProcsAct DEF IndInv, Working, WorkingOK, Cleaning

\* A store call fails, and the tick with it.
LEMMA TickFailsStep == ASSUME IndInv, NEW p \in Procs, TickFails(p) PROVE IndInv' /\ StaysEnded
<1>1. /\ ppc[p] \in {"claim", "check", "finish", "retain", "delete"} /\ ppc' = [ppc EXCEPT ![p] = "lead"]
      /\ job' = [job EXCEPT ![p] = 0] /\ mem' = [mem EXCEPT ![p] = Blank] /\ Forget(p)
      /\ UNCHANGED <<state, payload, cancel, plan, sched, due, disk, lock, stopping, token, wpc, watch, latest, stops>>
  BY DEF TickFails, GoTo, NoRun, rowVars, planVars
<1>2. ActType' /\ CleaningOK(p)' /\ apc'[p] = "idle" /\ \A b \in Actors : b # p => Calm(b)
  BY <1>1, ForgetFacts, NoWorker DEF IndInv, Types
<1>3. WorkType' /\ \A q \in Procs : q # p => wpc'[q] = wpc[q] /\ mem'[q] = mem[q]
  BY <1>1, BlankIs DEF IndInv, Types, WorkType
<1>4. token' \in [Procs -> BOOLEAN]
  BY <1>1 DEF IndInv, Types, ProcType
<1>5. wpc'[p] = "none"
  BY <1>1, NoWorker
<1> QED
  BY <1>1, <1>2, <1>3, <1>4, <1>5, NoWorker, EndOfTick

\* The worker is joined; what was no success is cleaned up first.
LEMMA JoinStep == ASSUME IndInv, NEW p \in Procs, Join(p) PROVE IndInv' /\ StaysEnded
<1>1. /\ ppc[p] = "work" /\ wpc[p] = "done"
      /\ wpc' = [wpc EXCEPT ![p] = "none"] /\ token' = [token EXCEPT ![p] = FALSE]
      /\ watch' = [watch EXCEPT ![p] = Blank]
      /\ UNCHANGED <<state, payload, cancel, plan, sched, due, disk, lock, stopping, job, mem, latest, cur, others, stops>>
  BY DEF Join, At, rowVars, planVars
<1>2. job[p] \in Runs /\ state[job[p]] = "running" /\ mem[p].status \in Finished /\ apc[p] = "idle"
  BY <1>1 DEF IndInv, Working, WorkingOK
<1>3. /\ WorkType' /\ token' \in [Procs -> BOOLEAN] /\ wpc'[p] = "none"
      /\ \A q \in Procs : q # p => wpc'[q] = wpc[q] /\ mem'[q] = mem[q]
  BY <1>1, BlankIs DEF IndInv, Types, WorkType, ProcType
<1>4. CASE mem[p].status = "success"
  <2>1. ppc' = [ppc EXCEPT ![p] = "finish"] /\ UNCHANGED <<apc, list>>
    BY <1>4 DEF Join, GoTo
  <2>2. ActType' /\ CleaningOK(p)' /\ \A b \in Actors : b # p => Calm(b)
    BY <1>1, <2>1, NoWorker DEF IndInv, Types, ActType, CleaningOK, Calm
  <2> QED
    BY <1>1, <1>2, <1>3, <2>1, <2>2, NoWorker, SameJob, EndOfTick
<1>5. CASE mem[p].status # "success"
  <2> DEFINE f == [r \in {job[p]} |-> mem[p]]
  <2>1. /\ ppc' = [ppc EXCEPT ![p] = "clean"] /\ apc' = [apc EXCEPT ![p] = "snapshot"]
        /\ list' = [list EXCEPT ![p] = f]
    BY <1>5 DEF Join, GoTo
  <2>2. f \in Lists /\ DOMAIN f = {job[p]} /\ f[job[p]] = mem[p]
    <3>1. {job[p]} \in SUBSET Runs /\ f \in [{job[p]} -> Payload]
      BY <1>2 DEF IndInv, Types, WorkType
    <3> QED
      BY <3>1, IsList
  <2> HIDE DEF f
  <2>3. /\ apc'[p] = "snapshot" /\ list'[p] = f
        /\ \A b \in Actors : b # p => apc'[b] = apc[b] /\ list'[b] = list[b]
    BY <2>1, NoWorker DEF IndInv, Types, ActType
  <2>4. ActType'
    BY <1>1, <2>1, <2>2 DEF IndInv, Types, ActType
  <2>5. CleaningOK(p)' /\ \A b \in Actors : b # p => Calm(b)
    BY <1>1, <1>2, <2>2, <2>3 DEF CleaningOK, Calm
  <2>6. job[p] \in DOMAIN list'[p]
    BY <2>2, <2>3
  <2> QED
    BY <1>1, <1>2, <1>3, <2>1, <2>4, <2>5, <2>6, SameJob, EndOfTick
<1> QED
  BY <1>4, <1>5

\* The cleanup after a run has ended.
LEMMA CleanedStep == ASSUME IndInv, NEW p \in Procs, Cleaned(p) PROVE IndInv' /\ StaysEnded
<1>1. /\ ppc[p] = "clean" /\ ppc' = [ppc EXCEPT ![p] = "finish"] /\ Forget(p)
      /\ mem' = [mem EXCEPT ![p] = list[p][job[p]]]
      /\ UNCHANGED <<state, payload, cancel, plan, sched, due, disk, lock, stopping, job, token, wpc, watch, latest, stops>>
  BY DEF Cleaned, Forget, At, GoTo, rowVars, planVars
<1>2. job[p] \in Runs /\ state[job[p]] = "running" /\ job[p] \in DOMAIN list[p]
  BY <1>1 DEF IndInv, Working, WorkingOK
<1>3. PICK x \in Payload : x = list[p][job[p]] /\ x.status \in Finished
  <2>1. list[p] \in [DOMAIN list[p] -> Payload]
    BY NoWorker, ListIs DEF IndInv, Types
  <2> QED
    BY <1>2, <2>1, NoWorker DEF CleaningOK
<1>4. WorkType' /\ mem'[p] = x /\ \A q \in Procs : q # p => wpc'[q] = wpc[q] /\ mem'[q] = mem[q]
  BY <1>1, <1>3 DEF IndInv, Types, WorkType
<1>5. ActType' /\ CleaningOK(p)' /\ apc'[p] = "idle" /\ \A b \in Actors : b # p => Calm(b)
  BY <1>1, ForgetFacts, NoWorker DEF IndInv, Types
<1>6. token' \in [Procs -> BOOLEAN] /\ wpc'[p] = "none"
  BY <1>1, NoWorker DEF IndInv, Types, ProcType
<1> QED
  BY <1>1, <1>2, <1>3, <1>4, <1>5, <1>6, SameJob, EndOfTick

\* finish records the result.
LEMMA FinishStep == ASSUME IndInv, NEW p \in Procs, Finish(p) PROVE IndInv' /\ StaysEnded
<1>1. /\ ppc[p] = "finish" /\ mem' = [mem EXCEPT ![p] = Blank]
      /\ due' = [s \in Schedules |-> due[s] /\ s # plan[job[p]]]
      /\ UNCHANGED <<cancel, plan, sched, disk, lock, stopping, token, wpc, watch, latest, apc, list, cur, others, stops>>
  BY DEF Finish, At, actVars
<1>2. PICK r \in Runs : r = job[p] /\ state[r] = "running"
  BY <1>1 DEF IndInv, Working, WorkingOK
<1>3. PICK x \in Payload : x = mem[p] /\ x.status \in Finished
  BY <1>1 DEF IndInv, Working, WorkingOK, Types, WorkType
<1>4. /\ state' = [state EXCEPT ![r] = x.status] /\ payload' = [payload EXCEPT ![r] = x]
  BY <1>2, <1>3 DEF Finish, IndInv, Types, RowType, Present, Pending
<1>5. /\ state'[r] = x.status /\ payload'[r] = x
      /\ \A q \in Runs : q # r => state'[q] = state[q] /\ payload'[q] = payload[q]
  BY <1>4 DEF IndInv, Types, RowType
<1>6. PICK there \in {"retain", "lead"}, j \in 0 .. MaxRuns :
        ppc' = [ppc EXCEPT ![p] = there] /\ job' = [job EXCEPT ![p] = j]
  <2>1. CASE mem[p].status = "success"
    BY <2>1, SameJob DEF Finish, GoTo
  <2>2. CASE mem[p].status # "success"
    BY <2>2, NoWorker DEF Finish, GoTo, NoRun
  <2> QED
    BY <2>1, <2>2
<1>7. /\ ppc'[p] = there /\ \A q \in Procs : q # p => ppc'[q] = ppc[q] /\ job'[q] = job[q] /\ mem'[q] = mem[q]
  BY <1>1, <1>6 DEF IndInv, Types, ProcType, WorkType
<1>8. Types'
  <2>1. RowType'
    BY <1>1, <1>3, <1>4 DEF IndInv, Types, RowType, Present
  <2>2. PlanType'
    BY <1>1 DEF IndInv, Types, PlanType
  <2>3. ProcType'
    BY <1>1, <1>6 DEF IndInv, Types, ProcType
  <2>4. WorkType' /\ ActType' /\ RestType'
    BY <1>1, BlankIs DEF IndInv, Types, WorkType, ActType, RestType
  <2> QED
    BY <2>1, <2>2, <2>3, <2>4 DEF Types
<1>9. Moves
  <2>1. ASSUME NEW q \in Runs
        PROVE  /\ state'[q] = "none" <=> state[q] = "none"
               /\ state'[q] \in Pending => state[q] \in Pending
               /\ state[q] \in Finished => state'[q] \in {state[q], "deleting"}
               /\ RowOK(q)'
    <3>1. CASE q = r
      BY <1>2, <1>3, <1>5, <3>1 DEF RowOK, Pending, Finished
    <3>2. CASE q # r
      BY <1>5, <3>2 DEF IndInv, RowsOK, RowOK
    <3> QED
      BY <3>1, <3>2
  <2> QED
    BY <1>1, <2>1 DEF Moves
<1>10. DueSet' \subseteq DueSet
  BY <1>1 DEF DueSet
<1>11. Only(p)
  BY <1>1, <1>7 DEF Only, Still, Calm
<1>12. WorkingOK(p)' /\ CleaningOK(p)'
  <2>1. wpc'[p] = "none" /\ apc'[p] = "idle"
    BY <1>1, NoWorker
  <2>2. CleaningOK(p)'
    BY <1>1, NoWorker DEF CleaningOK
  <2> QED
    BY <1>7, <2>1, <2>2 DEF WorkingOK
<1> QED
  BY <1>1, <1>8, <1>9, <1>10, <1>11, <1>12, LeaderMoves

\* A list of runs as they are in the store.
LEMMA ReadList ==
  ASSUME IndInv, NEW R \in SUBSET Runs, \A r \in R : payload[r].status \in Finished
  PROVE  /\ [r \in R |-> payload[r]] \in Lists /\ DOMAIN [r \in R |-> payload[r]] = R
         /\ \A r \in R : [q \in R |-> payload[q]][r].status \in Finished
<1>1. [r \in R |-> payload[r]] \in [R -> Payload]
  BY DEF IndInv, Types, RowType
<1> QED
  BY <1>1, IsList

\* Retention selects what it will delete.
LEMMA RetainStep == ASSUME IndInv, NEW p \in Procs, Retain(p) PROVE IndInv' /\ StaysEnded
<1>1. /\ ppc[p] = "retain"
      /\ UNCHANGED <<state, payload, cancel, plan, sched, due, disk, lock, stopping, token, wpc, mem, watch, latest,
                     apc, cur, others, stops>>
  BY DEF Retain, At, rowVars, planVars, workVars
<1>2. PICK R \in SUBSET Runs :
        /\ \A r \in R : payload[r].status \in Finished
        /\ list' = [list EXCEPT ![p] = [r \in R |-> payload[r]]]
        /\ IF R = {} THEN ppc' = [ppc EXCEPT ![p] = "lead"] /\ job' = [job EXCEPT ![p] = 0]
                     ELSE ppc' = [ppc EXCEPT ![p] = "delete"] /\ UNCHANGED job
  <2> DEFINE keeps == plan[job[p]] = None \/ Retention = 0
             R == IF keeps THEN {} ELSE IF sched[plan[job[p]]] = "absent" THEN {} ELSE Surplus(job[p])
  <2>1. /\ list' = [list EXCEPT ![p] = [r \in R |-> payload[r]]]
        /\ IF R = {} THEN ppc' = [ppc EXCEPT ![p] = "lead"] /\ job' = [job EXCEPT ![p] = 0]
                     ELSE ppc' = [ppc EXCEPT ![p] = "delete"] /\ UNCHANGED job
    BY DEF Retain, GoTo, NoRun
  <2>2. R \in SUBSET Runs /\ \A r \in R : payload[r].status \in Finished
    BY DEF Surplus, Successes, Finished
  <2> HIDE DEF R
  <2> QED
    BY <2>1, <2>2
<1> DEFINE f == [r \in R |-> payload[r]]
<1>3. f \in Lists /\ DOMAIN f = R /\ \A r \in R : f[r].status \in Finished
  BY <1>2, ReadList
<1>4. list' = [list EXCEPT ![p] = f]
  BY <1>2
<1> HIDE DEF f
<1>5. ActType'
  BY <1>1, <1>3, <1>4 DEF IndInv, Types, ActType
<1>6. list'[p] = f /\ \A b \in Actors : b # p => Calm(b)
  BY <1>1, <1>4, NoWorker DEF IndInv, Types, ActType, Calm
<1>7. apc'[p] = "idle" /\ CleaningOK(p)'
  BY <1>1, <1>3, <1>6, NoWorker DEF CleaningOK
<1>8. WorkType' /\ token' \in [Procs -> BOOLEAN] /\ wpc'[p] = "none"
  BY <1>1, NoWorker DEF IndInv, Types, WorkType, ProcType
<1>9. CASE R = {}
  BY <1>1, <1>2, <1>5, <1>6, <1>7, <1>8, <1>9, NoWorker, EndOfTick
<1>10. CASE R # {}
  BY <1>1, <1>2, <1>5, <1>6, <1>7, <1>8, <1>10, SameJob, EndOfTick
<1> QED
  BY <1>9, <1>10

\* mark_deleting of runs that have ended.
LEMMA MarkFacts ==
  ASSUME IndInv, NEW a \in Actors, NEW R \in SUBSET Runs, \A r \in R : Deletable(r), MarkDeleting(a, R)
  PROVE  /\ RowType' /\ ActType' /\ Moves /\ RunningStays /\ CleaningOK(a)'
         /\ \A b \in Actors : b # a => Calm(b)
<1> DEFINE f == [r \in R |-> payload[r]]
<1>1. /\ state' = [r \in Runs |-> IF r \in R THEN "deleting" ELSE state[r]]
      /\ list' = [list EXCEPT ![a] = f]
      /\ apc' = [apc EXCEPT ![a] = IF R = {} THEN "idle" ELSE "snapshot"]
      /\ UNCHANGED <<payload, cancel, plan, cur, others>>
  BY DEF MarkDeleting
<1>2. \A r \in R : state[r] \in Finished \cup {"deleting"} /\ payload[r].status \in Finished
  BY DEF Deletable, IndInv, RowsOK, RowOK
<1>3. f \in Lists /\ DOMAIN f = R /\ \A r \in R : f[r].status \in Finished
  BY <1>2, ReadList
<1> HIDE DEF f
<1>4. RowType'
  BY <1>1 DEF IndInv, Types, RowType, Present
<1>5. ActType'
  BY <1>1, <1>3 DEF IndInv, Types, ActType
<1>6. /\ list'[a] = f /\ apc'[a] \in {"idle", "snapshot"}
      /\ \A b \in Actors : b # a => apc'[b] = apc[b] /\ list'[b] = list[b]
  BY <1>1 DEF IndInv, Types, ActType
<1>7. CleaningOK(a)' /\ \A b \in Actors : b # a => Calm(b)
  BY <1>1, <1>3, <1>6 DEF CleaningOK, Calm
<1>8. Moves /\ RunningStays
  <2>1. ASSUME NEW q \in Runs
        PROVE  /\ state'[q] = "none" <=> state[q] = "none"
               /\ state'[q] \in Pending => state[q] \in Pending
               /\ state[q] \in Finished => state'[q] \in {state[q], "deleting"}
               /\ RowOK(q)'
               /\ state[q] = "running" => state'[q] = "running"
    <3>1. CASE q \in R
      <4>1. state'[q] = "deleting" /\ payload'[q] = payload[q]
        BY <1>1, <3>1
      <4> QED
        BY <1>2, <3>1, <4>1 DEF RowOK, Pending, Finished
    <3>2. CASE q \notin R
      <4>1. state'[q] = state[q] /\ payload'[q] = payload[q]
        BY <1>1, <3>2
      <4> QED
        BY <4>1 DEF IndInv, RowsOK, RowOK
    <3> QED
      BY <3>1, <3>2
  <2> QED
    BY <1>1, <2>1 DEF Moves, RunningStays
<1> QED
  BY <1>4, <1>5, <1>7, <1>8

\* mark_deleting of the surplus, or the error that one of the runs is gone.
LEMMA RetainMarkStep == ASSUME IndInv, NEW p \in Procs, RetainMark(p) PROVE IndInv' /\ StaysEnded
<1>1. /\ ppc[p] = "delete"
      /\ UNCHANGED <<sched, due, disk, lock, stopping, token, wpc, mem, watch, latest, stops>>
  BY DEF RetainMark, At, planVars, workVars
<1>2. WorkType' /\ token' \in [Procs -> BOOLEAN] /\ wpc'[p] = "none"
  BY <1>1, NoWorker DEF IndInv, Types, WorkType, ProcType
<1>3. CASE \A r \in DOMAIN list[p] : Deletable(r)
  <2>1. PICK R \in SUBSET Runs : R = DOMAIN list[p]
    BY NoWorker, ListIs DEF IndInv, Types
  <2>2. MarkDeleting(p, R) /\ UNCHANGED <<ppc, job>>
    BY <1>3, <2>1 DEF RetainMark
  <2>3. /\ RowType' /\ ActType' /\ Moves /\ RunningStays /\ CleaningOK(p)'
        /\ \A b \in Actors : b # p => Calm(b)
    BY <1>3, <2>1, <2>2, NoWorker, MarkFacts
  <2>4. Types'
    BY <1>1, <1>2, <2>2, <2>3 DEF IndInv, Types, PlanType, ProcType, RestType
  <2> QED
    BY <1>1, <2>2, <2>3, <2>4, NoWorker, ActorStep
<1>4. CASE ~ \A r \in DOMAIN list[p] : Deletable(r)
  <2>1. /\ ppc' = [ppc EXCEPT ![p] = "lead"] /\ job' = [job EXCEPT ![p] = 0]
        /\ list' = [list EXCEPT ![p] = Nothing] /\ apc[p] = "idle"
        /\ UNCHANGED <<state, payload, cancel, plan, apc, cur, others>>
    BY <1>4 DEF RetainMark, GoTo, NoRun, rowVars
  <2>2. ActType'
    BY <2>1, NothingIsList DEF IndInv, Types, ActType
  <2>3. list'[p] = Nothing /\ \A b \in Actors : b # p => Calm(b)
    BY <2>1, NoWorker DEF IndInv, Types, ActType, Calm
  <2>4. CleaningOK(p)' /\ apc'[p] = "idle"
    BY <2>1, <2>3, NothingIsList DEF CleaningOK
  <2> QED
    BY <1>1, <1>2, <2>1, <2>2, <2>3, <2>4, NoWorker, EndOfTick
<1> QED
  BY <1>3, <1>4

\* The surplus is gone.
LEMMA RetainedStep == ASSUME IndInv, NEW p \in Procs, Retained(p) PROVE IndInv' /\ StaysEnded
<1>1. /\ ppc[p] = "delete" /\ apc[p] = "idle" /\ ppc' = [ppc EXCEPT ![p] = "lead"] /\ job' = [job EXCEPT ![p] = 0]
      /\ UNCHANGED <<state, payload, cancel, plan, sched, due, disk, lock, stopping, token, wpc, mem, watch, latest,
                     apc, list, cur, others, stops>>
  BY DEF Retained, At, GoTo, NoRun, rowVars, planVars, workVars, actVars
<1>2. WorkType' /\ ActType' /\ token' \in [Procs -> BOOLEAN] /\ wpc'[p] = "none"
  BY <1>1, NoWorker DEF IndInv, Types, WorkType, ActType, ProcType
<1>3. CleaningOK(p)' /\ \A b \in Actors : b # p => Calm(b)
  BY <1>1, NoWorker DEF CleaningOK, Calm
<1> QED
  BY <1>1, <1>2, <1>3, NoWorker, EndOfTick

-----------------------------------------------------------------------------
(* delete_runs and cleanup.                                                *)

\* A process cleans up only where the tick waits for it.
LEMMA ActorPlace ==
  ASSUME IndInv, NEW a \in Actors, apc[a] # "idle"
  PROVE  a \in Procs => ppc[a] \in {"clean", "delete"}
  BY DEF IndInv, Working, WorkingOK

\* What the actions of an actor leave alone.
LEMMA ActOnlyFacts ==
  ASSUME IndInv, ActOnly, RowType', ActType', disk' \in [Paths -> 0 .. MaxRuns]
  PROVE  /\ Types'
         /\ UNCHANGED <<plan, lock, ppc, stopping, job, token, wpc, mem, watch, latest, due>>
<1>1. UNCHANGED <<cancel, plan, sched, due, lock, ppc, stopping, job, token, wpc, mem, watch, latest, stops>>
  BY DEF ActOnly, planVars, procVars, workVars
<1> QED
  BY <1>1 DEF IndInv, Types, PlanType, ProcType, WorkType, RestType

\* A user deletes runs, or the command ends early.
LEMMA UserStep ==
  ASSUME IndInv, NEW u \in Users, DeleteRuns(u) \/ DropCommand(u)
  PROVE  IndInv' /\ StaysEnded
<1>1. u \in Actors /\ u \notin Procs
  BY ActorsAssumption, ProcsAct
<1>2. UNCHANGED <<sched, due, disk, lock, ppc, stopping, job, token, wpc, mem, watch, latest, stops>>
  BY DEF DeleteRuns, DropCommand, planVars, procVars, workVars
<1>3. /\ RowType' /\ ActType' /\ Moves /\ RunningStays /\ CleaningOK(u)'
      /\ \A b \in Actors : b # u => Calm(b)
  <2>1. CASE DeleteRuns(u)
    <3>1. PICK R \in SUBSET {r \in Runs : Deletable(r)} : MarkDeleting(u, R)
      BY <2>1 DEF DeleteRuns
    <3>2. R \in SUBSET Runs /\ \A r \in R : Deletable(r)
      BY <3>1
    <3> QED
      BY <1>1, <3>1, <3>2, MarkFacts
  <2>2. CASE DropCommand(u)
    <3>1. UNCHANGED <<state, payload, cancel, plan>> /\ Forget(u)
      BY <2>2 DEF DropCommand, rowVars
    <3>2. RowType' /\ Moves /\ RunningStays
      BY <3>1, RowsStay DEF IndInv, Types, RowType, RunningStays
    <3> QED
      BY <1>1, <3>1, <3>2, ForgetFacts DEF IndInv, Types
  <2> QED
    BY <2>1, <2>2
<1>4. Types'
  BY <1>2, <1>3 DEF IndInv, Types, PlanType, ProcType, WorkType, RestType
<1> QED
  BY <1>1, <1>2, <1>3, <1>4, ActorStep

\* cleanup takes the next run and asks for the other paths.
LEMMA SnapshotStep == ASSUME IndInv, NEW a \in Actors, CleanupSnapshot(a) PROVE IndInv' /\ StaysEnded
<1>1. apc[a] = "snapshot" /\ UNCHANGED <<state, payload, disk, list>> /\ ActOnly
  BY DEF CleanupSnapshot
<1>2. UNCHANGED <<cancel, plan>>
  BY <1>1 DEF ActOnly
<1>3. PICK r \in DOMAIN list[a], o \in SUBSET Paths, pc \in {"remove", "failed"} :
        /\ cur' = [cur EXCEPT ![a] = r] /\ others' = [others EXCEPT ![a] = o]
        /\ apc' = [apc EXCEPT ![a] = pc]
  <2>1. PICK r \in DOMAIN list[a] :
          /\ cur' = [cur EXCEPT ![a] = r]
          /\ others' = [others EXCEPT ![a] =
               {payload[q].path : q \in {q \in Runs \ {r} : state[q] \in Present}} \ {None}]
    BY DEF CleanupSnapshot
  <2>2. {payload[q].path : q \in {q \in Runs \ {r} : state[q] \in Present}} \ {None} \in SUBSET Paths
    BY DEF IndInv, Types, RowType, Payload
  <2>3. apc' = [apc EXCEPT ![a] = "remove"] \/ apc' = [apc EXCEPT ![a] = "failed"]
    BY DEF CleanupSnapshot
  <2> QED
    BY <2>1, <2>2, <2>3
<1>4. DOMAIN list[a] \subseteq Runs
  BY ListIs DEF IndInv, Types
<1>5. ActType'
  BY <1>1, <1>3, <1>4, BoundsAssumption DEF IndInv, Types, ActType, Runs
<1>6. /\ apc'[a] = pc /\ cur'[a] = r /\ list'[a] = list[a]
      /\ \A b \in Actors : b # a => Calm(b)
  BY <1>1, <1>3 DEF IndInv, Types, ActType, Calm
<1>7. CleaningOK(a)'
  BY <1>3, <1>6 DEF IndInv, Cleaning, CleaningOK
<1>8. RowType' /\ Moves /\ RunningStays /\ disk' \in [Paths -> 0 .. MaxRuns]
  BY <1>1, <1>2, RowsStay DEF IndInv, Types, RowType, RestType, RunningStays
<1> QED
  BY <1>1, <1>5, <1>6, <1>7, <1>8, ActOnlyFacts, ActorPlace, ActorStep

\* cleanup keeps the file of the run, or drops it.
LEMMA RemoveStep == ASSUME IndInv, NEW a \in Actors, CleanupRemove(a) PROVE IndInv' /\ StaysEnded
<1> DEFINE skip == list[a][cur[a]].path \in {None} \cup others[a] \cup {f \in Paths : disk[f] = NoRun}
<1>1. apc[a] = "remove" /\ UNCHANGED <<state, payload, cur, others>> /\ ActOnly
  BY DEF CleanupRemove
<1>2. UNCHANGED <<cancel, plan>>
  BY <1>1 DEF ActOnly
<1>3. PICK c \in Runs : c = cur[a] /\ c \in DOMAIN list[a]
  BY <1>1, ListIs DEF IndInv, Types, Cleaning, CleaningOK
<1>4. PICK f \in Lists : f = list[a]
  BY DEF IndInv, Types, ActType
<1>5. DOMAIN f \subseteq Runs /\ f \in [DOMAIN f -> Payload] /\ c \in DOMAIN f /\ \A r \in DOMAIN f : f[r].status \in Finished
  BY <1>3, <1>4, ListIs DEF IndInv, Types, Cleaning, CleaningOK
<1>6. PICK x \in Payload : x = f[c]
  BY <1>5
<1> DEFINE y == [x EXCEPT !.path = None, !.owned = FALSE]
           g == [f EXCEPT ![c] = y]
<1>7. y \in Payload /\ y.status = x.status
  BY DEF Payload
<1>8. list[a] = f /\ list[a][cur[a]] = x
  BY <1>3, <1>4, <1>6
<1>9. /\ disk' \in [Paths -> 0 .. MaxRuns]
      /\ \/ apc' = [apc EXCEPT ![a] = "failed"] /\ list' = [list EXCEPT ![a] = f]
         \/ apc' = [apc EXCEPT ![a] = "settle"] /\ list' = [list EXCEPT ![a] = g]
  <2>1. disk \in [Paths -> 0 .. MaxRuns] /\ list \in [Actors -> Lists] /\ NoRun \in 0 .. MaxRuns
    BY BoundsAssumption DEF IndInv, Types, RestType, ActType, NoRun
  <2>2. disk' = disk \/ \E h \in Paths : disk' = [disk EXCEPT ![h] = NoRun]
    <3>1. x.path \in Paths \cup {None}
      BY DEF Payload
    <3> QED
      BY <1>8, <3>1 DEF CleanupRemove
  <2>3. list' = list \/ list' = [list EXCEPT ![a][cur[a]] = [@ EXCEPT !.path = None, !.owned = FALSE]]
    BY DEF CleanupRemove
  <2>4. \/ apc' = [apc EXCEPT ![a] = "failed"] /\ list' = list
        \/ /\ apc' = [apc EXCEPT ![a] = "settle"]
           /\ list' = [list EXCEPT ![a][cur[a]] = [@ EXCEPT !.path = None, !.owned = FALSE]]
    BY DEF CleanupRemove
  <2>5. list = [list EXCEPT ![a] = f]
    BY <1>4, <2>1
  <2>6. [list EXCEPT ![a][cur[a]] = [@ EXCEPT !.path = None, !.owned = FALSE]] = [list EXCEPT ![a] = g]
    BY <1>3, <1>4, <1>6, <2>1
  <2> QED
    BY <2>1, <2>2, <2>4, <2>5, <2>6
<1> HIDE DEF y
<1>10. g \in Lists /\ DOMAIN g = DOMAIN f /\ \A r \in DOMAIN f : g[r].status \in Finished
  <2>1. g \in [DOMAIN f -> Payload]
    BY <1>5, <1>7
  <2>2. \A r \in DOMAIN f : g[r].status \in Finished
    BY <1>5, <1>6, <1>7
  <2> QED
    BY <1>5, <2>1, <2>2, IsList
<1> HIDE DEF g
<1>11. ActType'
  BY <1>1, <1>9, <1>10 DEF IndInv, Types, ActType
<1>12. /\ apc'[a] \in {"failed", "settle"} /\ list'[a] \in {f, g} /\ cur'[a] = c
       /\ \A b \in Actors : b # a => Calm(b)
  BY <1>1, <1>3, <1>9 DEF IndInv, Types, ActType, Calm
<1>13. CleaningOK(a)' /\ DOMAIN list'[a] = DOMAIN list[a]
  BY <1>4, <1>5, <1>10, <1>12 DEF CleaningOK
<1>14. RowType' /\ Moves /\ RunningStays
  BY <1>1, <1>2, RowsStay DEF IndInv, Types, RowType, RunningStays
<1> QED
  BY <1>1, <1>9, <1>11, <1>12, <1>13, <1>14, ActOnlyFacts, ActorPlace, ActorStep

\* remove_run or deletion_failed.
LEMMA SettleStep == ASSUME IndInv, NEW a \in Actors, DeleteSettles(a) PROVE IndInv' /\ StaysEnded
<1> DEFINE rest == [q \in DOMAIN list[a] \ {cur[a]} |-> list[a][q]]
<1>1. /\ apc[a] \in {"settle", "failed"} /\ (a \in Procs => ppc[a] = "delete")
      /\ list' = [list EXCEPT ![a] = rest] /\ cur' = [cur EXCEPT ![a] = 0] /\ others' = [others EXCEPT ![a] = {}]
      /\ apc' = [apc EXCEPT ![a] = IF DOMAIN rest = {} THEN "idle" ELSE "snapshot"]
      /\ UNCHANGED disk /\ ActOnly
  BY DEF DeleteSettles, NoRun
<1>2. UNCHANGED <<cancel, plan>>
  BY <1>1 DEF ActOnly
<1>3. /\ DOMAIN list[a] \subseteq Runs /\ list[a] \in [DOMAIN list[a] -> Payload]
      /\ \A r \in DOMAIN list[a] : list[a][r].status \in Finished
  BY ListIs DEF IndInv, Types, Cleaning, CleaningOK
<1>4. PICK c \in Runs : c = cur[a] /\ c \in DOMAIN list[a]
  BY <1>1, <1>3 DEF IndInv, Cleaning, CleaningOK
<1>5. PICK x \in Payload : x = list[a][c] /\ x.status \in Finished
  BY <1>3, <1>4
<1>6. rest \in Lists /\ DOMAIN rest \subseteq DOMAIN list[a] /\ \A r \in DOMAIN rest : rest[r].status \in Finished
  <2>1. rest \in [DOMAIN list[a] \ {cur[a]} -> Payload] /\ DOMAIN list[a] \ {cur[a]} \in SUBSET Runs
    BY <1>3
  <2> QED
    BY <1>3, <2>1, IsList
<1> HIDE DEF rest
<1>7. ActType'
  BY <1>1, <1>6, BoundsAssumption DEF IndInv, Types, ActType
<1>8. /\ apc'[a] \in {"idle", "snapshot"} /\ list'[a] = rest
      /\ \A b \in Actors : b # a => Calm(b)
  BY <1>1 DEF IndInv, Types, ActType, Calm
<1>9. CleaningOK(a)'
  BY <1>6, <1>8 DEF CleaningOK
<1>10. RowType' /\ Moves /\ RunningStays
  <2>1. CASE state[c] # "deleting"
    <3>1. UNCHANGED <<state, payload>>
      BY <1>4, <2>1 DEF DeleteSettles
    <3> QED
      BY <1>2, <3>1, RowsStay DEF IndInv, Types, RowType, RunningStays
  <2>2. CASE state[c] = "deleting"
    <3>1. PICK st \in Finished \cup {"removed"}, y \in Payload :
            /\ st = "removed" \/ (st = x.status /\ y = x)
            /\ state' = [state EXCEPT ![c] = st] /\ payload' = [payload EXCEPT ![c] = y]
      <4>1. CASE apc[a] = "settle"
        BY <1>4, <2>2, <4>1, BlankIs DEF DeleteSettles
      <4>2. CASE apc[a] # "settle"
        BY <1>4, <1>5, <2>2, <4>2 DEF DeleteSettles
      <4> QED
        BY <4>1, <4>2
    <3>2. RowType'
      BY <1>2, <1>5, <3>1 DEF IndInv, Types, RowType, Present
    <3>3. /\ state'[c] = st /\ payload'[c] = y
          /\ \A q \in Runs : q # c => state'[q] = state[q] /\ payload'[q] = payload[q]
      BY <3>1 DEF IndInv, Types, RowType
    <3>4. ASSUME NEW q \in Runs
          PROVE  /\ state'[q] = "none" <=> state[q] = "none"
                 /\ state'[q] \in Pending => state[q] \in Pending
                 /\ state[q] \in Finished => state'[q] \in {state[q], "deleting"}
                 /\ RowOK(q)'
                 /\ state[q] = "running" => state'[q] = "running"
      <4>1. CASE q = c
        BY <1>5, <2>2, <3>1, <3>3, <4>1 DEF RowOK, Pending, Finished
      <4>2. CASE q # c
        BY <3>3, <4>2 DEF IndInv, RowsOK, RowOK
      <4> QED
        BY <4>1, <4>2
    <3> QED
      BY <1>2, <3>2, <3>4 DEF Moves, RunningStays
  <2> QED
    BY <2>1, <2>2
<1>11. disk' \in [Paths -> 0 .. MaxRuns]
  BY <1>1 DEF IndInv, Types, RestType
<1> QED
  BY <1>1, <1>7, <1>8, <1>9, <1>10, <1>11, ActOnlyFacts, ActorStep

-----------------------------------------------------------------------------
(* The theorems.                                                           *)

\* Every step keeps the invariant, and no ended run comes back.
LEMMA StepIndInv == IndInv /\ [Next]_vars => IndInv' /\ StaysEnded
<1> SUFFICES ASSUME IndInv, [Next]_vars PROVE IndInv' /\ StaysEnded
  OBVIOUS
<1>1. CASE CommandNext
  <2>1. ASSUME NEW s \in Schedules, TimePasses(s) \/ DeleteSchedule(s) PROVE IndInv' /\ StaysEnded
    BY <2>1, ScheduleStep
  <2>2. ASSUME NEW s \in Schedules, NEW e \in {"on", "off"}, NEW edited \in BOOLEAN, SaveSchedule(s, e, edited)
        PROVE  IndInv' /\ StaysEnded
    BY <2>2, ScheduleStep
  <2>3. ASSUME NEW s \in Schedules \cup {None}, Enqueue(s) PROVE IndInv' /\ StaysEnded
    BY <2>3, EnqueueStep
  <2>4. ASSUME NEW r \in Runs, Cancel(r) PROVE IndInv' /\ StaysEnded
    BY <2>4, CancelStep
  <2>5. ASSUME NEW u \in Users, DeleteRuns(u) \/ DropCommand(u) PROVE IndInv' /\ StaysEnded
    BY <2>5, UserStep
  <2> QED
    BY <1>1, <2>1, <2>2, <2>3, <2>4, <2>5 DEF CommandNext
<1>2. ASSUME NEW p \in Procs, LeaderNext(p) PROVE IndInv' /\ StaysEnded
  <2>1. CASE TryLock(p) \/ RecoverFails(p)
    BY <2>1, LockStep
  <2>2. CASE Recover(p) \/ EnqueueDue(p) \/ Claim(p) \/ TickFails(p)
    BY <2>2, RecoverStep, EnqueueDueStep, ClaimStep, TickFailsStep
  <2>3. CASE StartWorker(p) \/ PollCancel(p) \/ PollStore(p)
    BY <2>3, TickStep
  <2>4. CASE Join(p) \/ Cleaned(p) \/ Finish(p)
    BY <2>4, JoinStep, CleanedStep, FinishStep
  <2>5. CASE Retain(p) \/ RetainMark(p) \/ Retained(p)
    BY <2>5, RetainStep, RetainMarkStep, RetainedStep
  <2> QED
    BY <1>2, <2>1, <2>2, <2>3, <2>4, <2>5 DEF LeaderNext
<1>3. ASSUME NEW p \in Procs, Leave(p) \/ Crash(p) \/ Restart(p) PROVE IndInv' /\ StaysEnded
  BY <1>3, LockStep, CrashStep
<1>4. ASSUME NEW a \in Actors, CleanupSnapshot(a) \/ CleanupRemove(a) \/ DeleteSettles(a)
      PROVE  IndInv' /\ StaysEnded
  BY <1>4, SnapshotStep, RemoveStep, SettleStep
<1>5. CASE UNCHANGED vars
  <2>1. Sleep /\ UNCHANGED <<state, payload, cancel, plan, sched, due, disk, stops>>
    BY <1>5 DEF vars, rowVars, planVars, Sleep
  <2>2. Moves /\ RunningStays /\ DueSet' \subseteq DueSet
    BY <2>1, RowsStay DEF RunningStays, DueSet
  <2>3. Numbered' /\ OneActive' /\ RowsOK' /\ StaysEnded
    BY <2>2, MovesFacts
  <2>4. RestType' /\ RowType' /\ PlanType'
    BY <2>1 DEF IndInv, Types, RestType, RowType, PlanType
  <2> QED
    BY <2>1, <2>2, <2>3, <2>4, CommandStep
<1> QED
  BY <1>1, <1>2, <1>3, <1>4, <1>5, StopStep, WorkerStep0 DEF Next

\* The inductive invariant holds in every reachable state of the queue.
THEOREM Invariance == Spec => []IndInv
<1>1. Init => IndInv
  BY InitIndInv
<1>2. IndInv /\ [Next]_vars => IndInv'
  BY StepIndInv
<1> QED
  BY <1>1, <1>2, PTL DEF Spec

\* However enqueue, enqueue_due, recover and edits interleave, a schedule has at most
\* one queued or running run.
THEOREM SchedulesRunOnce == Spec => []OneActivePerSchedule
<1>1. IndInv => OneActivePerSchedule
  BY TypesAreTypeOK DEF IndInv, OneActive, OneActivePerSchedule
<1> QED
  BY <1>1, Invariance, PTL

\* A claimed run is executed by the one process that holds worker.lock, and its row is
\* still running when finish overwrites it.
THEOREM LeaderExecutes == Spec => []ExecutedByLeader
<1>1. IndInv => ExecutedByLeader
  BY DEF IndInv, Leading, Working, WorkingOK, ExecutedByLeader, Executing
<1> QED
  BY <1>1, Invariance, PTL

\* A run that has ended is never queued or run again, and its result changes only by way
\* of a deletion: crashes, recover and late deletions included.
THEOREM ResultsStay == Spec => EndedStaysEnded
<1>1. IndInv /\ [Next]_vars => [StaysEnded]_vars
  BY StepIndInv
<1> QED
  BY <1>1, Invariance, PTL DEF Spec, EndedStaysEnded, StaysEnded

-----------------------------------------------------------------------------
(* The runs and their files.                                               *)

\* A BackupRun that says success owns its file, and one that owns a file says where.
Sound(x) == (x.status = "success" => x.owned) /\ (x.owned => x.path # None)

\* With {runId} in the patterns no run has the path of another.
Fits(r, x) == UniquePaths => x.path \in {None, r}

\* The payload of a run agrees with its state.
RowTells(r) ==
  /\ Sound(payload[r]) /\ Fits(r, payload[r])
  /\ state[r] \in {"none", "queued", "running"} => payload[r].status = "running"
  /\ state[r] \in Finished => payload[r].status = state[r]

\* What the worker has in memory, in the channel and in the hands of the poll loop.
WorkerTells(p) ==
  /\ wpc[p] \in {"start", "send", "create", "export"} => mem[p].status = "running"
  /\ wpc[p] \in {"start", "send", "create"} => ~mem[p].owned
  /\ wpc[p] \in {"send", "create"} => mem[p].path # None
  /\ wpc[p] = "export" => mem[p].owned
  /\ ppc[p] \in {"work", "clean", "finish"} => Sound(mem[p]) /\ Fits(job[p], mem[p])
  /\ ppc[p] = "work" => Sound(watch[p]) /\ Fits(job[p], watch[p]) /\ watch[p].status = "running"
  /\ latest[p] # None =>
       /\ ppc[p] = "work" /\ latest[p].status = "running"
       /\ Sound(latest[p]) /\ Fits(job[p], latest[p])

\* The run has ended, or is gone.
Ended(r) == state[r] \in Finished \cup {"deleting", "removed"}

\* Actor a is a process that cleans up after its run r.
Cleans(a, r) == a \in Procs /\ ppc[a] = "clean" /\ r = job[a]

\* A run on the list of an actor has ended, but for the one a process cleans up after;
\* what the list says of it is sound, until its file is gone.
ListTells(a) ==
  /\ a \in Procs /\ ppc[a] = "clean" =>
       DOMAIN list[a] = {job[a]} /\ list[a][job[a]].status # "success" /\ apc[a] # "idle"
  /\ a \in Procs /\ ppc[a] = "delete" => \A r \in DOMAIN list[a] : Ended(r)
  /\ apc[a] # "idle" =>
       \A r \in DOMAIN list[a] :
         /\ Fits(r, list[a][r])
         /\ (apc[a] = "settle" /\ r = cur[a]) \/ Sound(list[a][r])
         /\ Ended(r) \/ Cleans(a, r)
  /\ apc[a] = "settle" => list[a][cur[a]].path = None /\ ~list[a][cur[a]].owned
  /\ apc[a] = "remove" /\ UniquePaths => cur[a] \notin others[a]

\* With {runId} in the patterns a file is found at the path of its run only.
DiskFits == UniquePaths => \A f \in Paths : disk[f] \in {NoRun, f}

Telling ==
  /\ \A r \in Runs : RowTells(r)
  /\ \A p \in Procs : WorkerTells(p)
  /\ \A a \in Actors : ListTells(a)
  /\ DiskFits

\* There are retention_count newer successful runs of the schedule of q.
Newer(q) == {n \in Runs : n > q /\ plan[n] = plan[q] /\ state[n] = "success"}
Enough(q) == Cardinality(Newer(q)) >= Retention

\* Where no user deletes runs, this is so for every run that is being deleted, and for
\* every one that retention has selected.
Sparing ==
  Users = {} =>
    /\ \A q \in Runs : state[q] = "deleting" => Enough(q)
    /\ \A p \in Procs : ppc[p] = "delete" => \A q \in DOMAIN list[p] : Enough(q)

-----------------------------------------------------------------------------
(* What a step leaves alone.                                               *)

\* The row of run r.
RowSame(r) == state'[r] = state[r] /\ payload'[r] = payload[r] /\ plan'[r] = plan[r]

\* Process q.
ProcSame(q) ==
  /\ ppc'[q] = ppc[q] /\ job'[q] = job[q] /\ stopping'[q] = stopping[q]
  /\ wpc'[q] = wpc[q] /\ mem'[q] = mem[q] /\ watch'[q] = watch[q] /\ latest'[q] = latest[q]

\* What actor a is cleaning up.
ActSame(a) == apc'[a] = apc[a] /\ list'[a] = list[a] /\ cur'[a] = cur[a] /\ others'[a] = others[a]

\* Every process and actor but p.
RestSame(p) == (\A q \in Procs : q # p => ProcSame(q)) /\ (\A a \in Actors : a # p => ActSame(a))

\* No run that has ended starts again, and the ones that are gone stay away.
EndedStays == \A r \in Runs : Ended(r) => Ended(r)'

\* The row.
LEMMA RowKept == ASSUME NEW r \in Runs, RowTells(r), RowSame(r) PROVE RowTells(r)'
  BY DEF RowTells, RowSame, Sound, Fits

\* The process.
LEMMA WorkerKept == ASSUME NEW q \in Procs, WorkerTells(q), ProcSame(q) PROVE WorkerTells(q)'
  BY DEF WorkerTells, ProcSame, Sound, Fits

\* The actor.
LEMMA ListKept ==
  ASSUME NEW a \in Actors, ListTells(a), ActSame(a), a \in Procs => ProcSame(a), EndedStays,
         DOMAIN list[a] \subseteq Runs
  PROVE  ListTells(a)'
<1>1. \A r : Cleans(a, r) => Cleans(a, r)'
  BY DEF Cleans, ProcSame
<1>2. a \in Procs => ppc'[a] = ppc[a] /\ job'[a] = job[a]
  BY DEF ProcSame
<1>3. \A r \in DOMAIN list[a] : Ended(r) => Ended(r)'
  BY DEF EndedStays
<1>4. apc'[a] = apc[a] /\ list'[a] = list[a] /\ cur'[a] = cur[a] /\ others'[a] = others[a]
  BY DEF ActSame
<1> QED
  BY <1>1, <1>2, <1>3, <1>4 DEF ListTells, Sound, Fits

\* Rows change, processes and actors do not.
LEMMA TellingRows ==
  ASSUME IndInv, Telling, \A r \in Runs : RowTells(r)', EndedStays,
         UNCHANGED <<disk, ppc, stopping, job, wpc, mem, watch, latest, apc, list, cur, others>>
  PROVE  Telling'
<1>1. \A q \in Procs : ProcSame(q)
  BY DEF ProcSame
<1>2. \A a \in Actors : ActSame(a) /\ DOMAIN list[a] \subseteq Runs
  BY ListIs DEF ActSame, IndInv, Types
<1>3. DiskFits'
  BY DEF Telling, DiskFits
<1> QED
  BY <1>1, <1>2, <1>3, WorkerKept, ListKept DEF Telling

\* Process or actor p takes a step.
LEMMA TellingStep ==
  ASSUME IndInv, Telling, NEW p \in Actors, RestSame(p), EndedStays,
         \A r \in Runs : RowTells(r)', p \in Procs => WorkerTells(p)', ListTells(p)', DiskFits'
  PROVE  Telling'
<1>1. \A q \in Procs : q # p => WorkerTells(q)'
  BY WorkerKept DEF Telling, RestSame
<1>2. ASSUME NEW a \in Actors, a # p PROVE ListTells(a)'
  BY <1>2, ListKept, ListIs DEF Telling, RestSame, IndInv, Types
<1> QED
  BY <1>1, <1>2 DEF Telling

\* Whoever had enough newer runs keeps them, if no success is lost.
LEMMA EnoughKept ==
  ASSUME NEW q \in Runs, plan'[q] = plan[q], Enough(q),
         \A n \in Runs : state[n] = "success" => state'[n] = "success" /\ plan'[n] = plan[n]
  PROVE  Enough(q)'
<1>1. Newer(q) \in SUBSET Newer(q)' /\ Newer(q)' \in SUBSET Runs
  BY DEF Newer
<1>2. IsFiniteSet(Runs)
  BY FS_Interval, BoundsAssumption DEF Runs
<1>3. IsFiniteSet(Newer(q)') /\ Cardinality(Newer(q)) <= Cardinality(Newer(q)')
  BY <1>1, <1>2, FS_Subset
<1>4. IsFiniteSet(Newer(q)) /\ Cardinality(Newer(q)) \in Nat /\ Cardinality(Newer(q)') \in Nat
  BY <1>1, <1>3, FS_Subset, FS_CardinalityType
<1> QED
  BY <1>3, <1>4, BoundsAssumption DEF Enough

\* No success is lost, and nothing more is deleted or selected.
LEMMA SparingKept ==
  ASSUME IndInv, Telling, Sparing,
         \A r \in Runs : state[r] # "none" => plan'[r] = plan[r],
         \A r \in Runs : state[r] = "success" => state'[r] = "success",
         \A r \in Runs : state'[r] = "deleting" => state[r] = "deleting",
         \A p \in Procs : ppc'[p] = "delete" => ppc[p] = "delete" /\ DOMAIN list'[p] \subseteq DOMAIN list[p]
  PROVE  Sparing'
<1> SUFFICES ASSUME Users = {} PROVE Sparing'
  BY DEF Sparing
<1>1. ASSUME NEW q \in Runs, Enough(q), state[q] # "none" PROVE Enough(q)'
  BY <1>1, EnoughKept
<1>2. \A p \in Procs : DOMAIN list[p] \subseteq Runs
  BY ListIs, ProcsAct DEF IndInv, Types
<1>3. \A p \in Procs : ppc[p] = "delete" => \A q \in DOMAIN list[p] : state[q] # "none"
  BY ProcsAct DEF Telling, ListTells, Ended, Finished
<1> QED
  BY <1>1, <1>2, <1>3 DEF Sparing
-----------------------------------------------------------------------------
(* What the steps do, run by run and process by process.                   *)

\* A BackupRun whose status is set.
LEMMA SetStatus ==
  ASSUME NEW x \in Payload, NEW st \in Statuses
  PROVE  LET y == [x EXCEPT !.status = st]
         IN y \in Payload /\ y.status = st /\ y.path = x.path /\ y.owned = x.owned
  BY DEF Payload

\* ... or whose path is.
LEMMA SetPath ==
  ASSUME NEW x \in Payload, NEW f \in Paths \cup {None}
  PROVE  LET y == [x EXCEPT !.path = f]
         IN y \in Payload /\ y.path = f /\ y.status = x.status /\ y.owned = x.owned
  BY DEF Payload

\* ... or which gets a file, or loses it.
LEMMA SetFile ==
  ASSUME NEW x \in Payload
  PROVE  /\ LET y == [x EXCEPT !.owned = TRUE]
            IN y \in Payload /\ y.owned /\ y.status = x.status /\ y.path = x.path
         /\ LET y == [x EXCEPT !.path = None, !.owned = FALSE]
            IN y \in Payload /\ y.path = None /\ ~y.owned /\ y.status = x.status
  BY DEF Payload

\* The payload of a run that has only been queued.
LEMMA BlankSays == Blank.status = "running" /\ Blank.path = None /\ ~Blank.owned
  BY DEF Blank

\* Nothing but rows, schedules and tokens changes.
AllStill == UNCHANGED <<disk, lock, ppc, stopping, job, wpc, mem, watch, latest, apc, list, cur, others>>

\* Runs are queued: nothing but their rows changes.
Queues == \A r \in Runs :
  \/ RowSame(r)
  \/ state[r] = "none" /\ state'[r] = "queued" /\ payload'[r] = payload[r]

\* Commands about schedules touch no run.
LEMMA ScheduleDoes ==
  ASSUME NEW s \in Schedules,
         \/ TimePasses(s) \/ DeleteSchedule(s)
         \/ \E e \in {"on", "off"}, edited \in BOOLEAN : SaveSchedule(s, e, edited)
  PROVE  AllStill /\ UNCHANGED <<state, payload, plan>>
  BY DEF TimePasses, DeleteSchedule, SaveSchedule, Sleep, rowVars, procVars, workVars, actVars, AllStill

\* enqueue.
LEMMA EnqueueDoes ==
  ASSUME IndInv, NEW s \in Schedules \cup {None}, Enqueue(s)
  PROVE  AllStill /\ Queues
<1>1. /\ AllStill /\ payload' = payload
      /\ state' = [state EXCEPT ![Count + 1] = "queued"] /\ plan' = [plan EXCEPT ![Count + 1] = s]
  BY DEF Enqueue, InsertJob, planVars, Sleep, procVars, workVars, actVars, AllStill
<1>2. Count + 1 \in Runs /\ state[Count + 1] = "none"
  BY Finite, BoundsAssumption DEF Enqueue, Room, DueSet, Runs, IndInv, Numbered
<1>3. \A r \in Runs : IF r = Count + 1 THEN state'[r] = "queued" ELSE state'[r] = state[r] /\ plan'[r] = plan[r]
  BY <1>1, <1>2 DEF IndInv, Types, RowType
<1> QED
  BY <1>1, <1>2, <1>3 DEF Queues, RowSame

\* enqueue_due.
LEMMA EnqueueDueDoes ==
  ASSUME IndInv, NEW p \in Procs, EnqueueDue(p)
  PROVE  /\ Queues /\ ppc[p] = "lead" /\ ppc' = [ppc EXCEPT ![p] = "claim"]
         /\ UNCHANGED <<disk, lock, stopping, job, wpc, mem, watch, latest, apc, list, cur, others>>
<1> DEFINE W == {s \in Schedules : sched[s] = "on" /\ due[s] /\ ~Active(s)}
           T == {s \in W : PendingCount + RankIn(W, s) <= MaxPending}
           run(s) == Count + RankIn(W, s)
<1>1. /\ ppc[p] = "lead" /\ ppc' = [ppc EXCEPT ![p] = "claim"]
      /\ state' = [r \in Runs |-> IF \E s \in T : run(s) = r THEN "queued" ELSE state[r]]
      /\ plan' = [r \in Runs |-> IF \E s \in T : run(s) = r THEN CHOOSE s \in T : run(s) = r ELSE plan[r]]
      /\ UNCHANGED <<payload, disk, lock, stopping, job, wpc, mem, watch, latest, apc, list, cur, others>>
  BY DEF EnqueueDue, At, GoTo, RankIn, workVars, actVars
<1>2. W \in SUBSET Nat /\ IsFiniteSet(W) /\ T \subseteq W
  BY SchedulesAssumption, FS_Subset
<1> HIDE DEF W
<1>3. ASSUME NEW r \in Runs, NEW s \in T, run(s) = r PROVE state[r] = "none"
  <2>1. s \in W
    BY <1>2
  <2>2. RankIn(W, s) \in Nat \ {0}
    BY <1>2, <2>1, Ranks
  <2>3. ~(r <= Count)
    BY <1>3, <2>2, Finite
  <2> QED
    BY <2>3 DEF IndInv, Numbered
<1> HIDE DEF T, run
<1>4. Queues
  <2>1. ASSUME NEW r \in Runs
        PROVE  RowSame(r) \/ (state[r] = "none" /\ state'[r] = "queued" /\ payload'[r] = payload[r])
    <3>1. CASE \E s \in T : run(s) = r
      <4>1. state'[r] = "queued" /\ payload'[r] = payload[r]
        BY <1>1, <3>1
      <4>2. state[r] = "none"
        BY <1>3, <3>1
      <4> QED
        BY <4>1, <4>2
    <3>2. CASE ~ \E s \in T : run(s) = r
      <4>1. state'[r] = state[r] /\ plan'[r] = plan[r] /\ payload'[r] = payload[r]
        BY <1>1, <3>2
      <4> QED
        BY <4>1 DEF RowSame
    <3> QED
      BY <3>1, <3>2
  <2> QED
    BY <2>1 DEF Queues
<1> QED
  BY <1>1, <1>4

\* The result of run r is set, the file that its payload names stays.
Ends(r, st) ==
  /\ state'[r] = st /\ payload'[r].status = st /\ plan'[r] = plan[r]
  /\ payload'[r].path = payload[r].path /\ payload'[r].owned = payload[r].owned

\* cancel.
LEMMA CancelDoes ==
  ASSUME IndInv, NEW r \in Runs, Cancel(r)
  PROVE  /\ AllStill /\ \A q \in Runs : q # r => RowSame(q)
         /\ RowSame(r) \/ (state[r] = "queued" /\ Ends(r, "cancelled"))
<1>1. AllStill /\ plan' = plan
  BY DEF Cancel, planVars, Sleep, procVars, workVars, actVars, AllStill
<1>2. PICK x \in Payload : x = payload[r]
  BY DEF IndInv, Types, RowType
<1>3. CASE state[r] = "queued"
  <2> DEFINE y == [x EXCEPT !.status = "cancelled"]
  <2>1. y \in Payload /\ y.status = "cancelled" /\ y.path = x.path /\ y.owned = x.owned
    BY SetStatus DEF Statuses
  <2>2. state' = [state EXCEPT ![r] = "cancelled"] /\ payload' = [payload EXCEPT ![r] = y]
    BY <1>2, <1>3 DEF Cancel, IndInv, Types, RowType
  <2> HIDE DEF y
  <2>3. /\ state'[r] = "cancelled" /\ payload'[r] = y
        /\ \A q \in Runs : q # r => state'[q] = state[q] /\ payload'[q] = payload[q]
    BY <2>2 DEF IndInv, Types, RowType
  <2> QED
    BY <1>1, <1>2, <1>3, <2>1, <2>3 DEF RowSame, Ends
<1>4. CASE state[r] # "queued"
  <2>1. UNCHANGED <<state, payload>>
    BY <1>4 DEF Cancel
  <2> QED
    BY <1>1, <2>1 DEF RowSame
<1> QED
  BY <1>3, <1>4

\* mark_deleting.
LEMMA MarkDoes ==
  ASSUME IndInv, NEW a \in Actors, NEW R \in SUBSET Runs, MarkDeleting(a, R)
  PROVE  /\ \A r \in R : state'[r] = "deleting" /\ payload'[r] = payload[r] /\ plan'[r] = plan[r]
         /\ \A r \in Runs : r \notin R => RowSame(r)
         /\ DOMAIN list'[a] = R /\ \A r \in R : list'[a][r] = payload[r]
         /\ apc'[a] \in {"idle", "snapshot"} /\ (R # {} => apc'[a] = "snapshot")
         /\ \A b \in Actors : b # a => ActSame(b)
<1> DEFINE f == [r \in R |-> payload[r]]
<1>1. /\ state' = [r \in Runs |-> IF r \in R THEN "deleting" ELSE state[r]]
      /\ list' = [list EXCEPT ![a] = f]
      /\ apc' = [apc EXCEPT ![a] = IF R = {} THEN "idle" ELSE "snapshot"]
      /\ UNCHANGED <<payload, plan, cur, others>>
  BY DEF MarkDeleting
<1>2. DOMAIN f = R /\ \A r \in R : f[r] = payload[r]
  OBVIOUS
<1> HIDE DEF f
<1>3. /\ list'[a] = f /\ apc'[a] = IF R = {} THEN "idle" ELSE "snapshot"
      /\ \A b \in Actors : b # a => apc'[b] = apc[b] /\ list'[b] = list[b]
  BY <1>1 DEF IndInv, Types, ActType
<1>4. \A r \in Runs : state'[r] = IF r \in R THEN "deleting" ELSE state[r]
  BY <1>1
<1> QED
  BY <1>1, <1>2, <1>3, <1>4 DEF RowSame, ActSame

\* An actor forgets what it was cleaning up.
LEMMA ForgetDoes ==
  ASSUME IndInv, NEW a \in Actors, Forget(a)
  PROVE  apc'[a] = "idle" /\ DOMAIN list'[a] = {} /\ \A b \in Actors : b # a => ActSame(b)
<1>1. /\ apc' = [apc EXCEPT ![a] = "idle"] /\ list' = [list EXCEPT ![a] = Nothing]
      /\ cur' = [cur EXCEPT ![a] = 0] /\ others' = [others EXCEPT ![a] = {}]
  BY DEF Forget, NoRun
<1>2. /\ apc'[a] = "idle" /\ list'[a] = Nothing
      /\ \A b \in Actors : b # a => apc'[b] = apc[b] /\ cur'[b] = cur[b] /\ list'[b] = list[b] /\ others'[b] = others[b]
  BY <1>1 DEF IndInv, Types, ActType
<1> QED
  BY <1>2, NothingIsList DEF ActSame

\* A process takes the lock, gives it back, leaves, or is started again.
LEMMA LockDoes ==
  ASSUME IndInv, NEW p \in Procs, TryLock(p) \/ RecoverFails(p) \/ Leave(p) \/ Restart(p)
  PROVE  /\ UNCHANGED <<state, payload, plan, disk, job, wpc, mem, watch, latest, apc, list, cur, others>>
         /\ ppc[p] \in {"idle", "recover", "lead", "down"} /\ ppc'[p] \in {"recover", "idle", "down"}
         /\ \A q \in Procs : q # p => ppc'[q] = ppc[q] /\ stopping'[q] = stopping[q]
         /\ stopping'[p] \in {stopping[p], "no"} /\ (ppc[p] = "lead" => stopping[p] # "no")
  BY DEF TryLock, RecoverFails, Leave, Restart, At, GoTo, IndInv, Types, ProcType, rowVars, planVars, workVars, actVars

\* A stop or drain is asked for.
LEMMA StopDoes ==
  ASSUME IndInv, NEW p \in Procs, NEW how \in {"drain", "stop"}, Stop(p, how)
  PROVE  /\ UNCHANGED <<state, payload, plan, disk, lock, ppc, job, wpc, mem, watch, latest, apc, list, cur, others>>
         /\ MaxStops # 0 /\ \A q \in Procs : q # p => stopping'[q] = stopping[q]
  BY BoundsAssumption DEF Stop, rowVars, workVars, actVars, IndInv, Types, ProcType, RestType

\* A process dies.
LEMMA CrashDoes ==
  ASSUME IndInv, NEW p \in Procs, Crash(p)
  PROVE  /\ UNCHANGED <<state, payload, plan, disk>> /\ RestSame(p)
         /\ ppc'[p] = "down" /\ wpc'[p] = "none" /\ latest'[p] = None /\ apc'[p] = "idle" /\ DOMAIN list'[p] = {}
<1>1. UNCHANGED <<state, payload, plan, disk>> /\ Forget(p) /\ p \in Actors
  BY ProcsAct DEF Crash, rowVars
<1>2. /\ ppc'[p] = "down" /\ wpc'[p] = "none" /\ latest'[p] = None
      /\ \A q \in Procs : q # p => ppc'[q] = ppc[q] /\ job'[q] = job[q] /\ stopping'[q] = stopping[q]
  BY DEF Crash, GoTo, IndInv, Types, ProcType, WorkType
<1>3. \A q \in Procs : q # p => wpc'[q] = wpc[q] /\ mem'[q] = mem[q] /\ watch'[q] = watch[q] /\ latest'[q] = latest[q]
  BY DEF Crash, IndInv, Types, WorkType
<1> QED
  BY <1>1, <1>2, <1>3, ForgetDoes DEF RestSame, ProcSame

\* recover.
LEMMA RecoverDoes ==
  ASSUME IndInv, NEW p \in Procs, Recover(p)
  PROVE  /\ ppc[p] = "recover" /\ ppc' = [ppc EXCEPT ![p] = "lead"]
         /\ UNCHANGED <<disk, lock, stopping, job, wpc, mem, watch, latest, apc, list, cur, others>>
         /\ \A r \in Runs : IF state[r] \in {"running", "deleting"} THEN Ends(r, "failed") ELSE RowSame(r)
<1> DEFINE hit == {r \in Runs : state[r] \in {"running", "deleting"}}
<1>1. /\ ppc[p] = "recover" /\ ppc' = [ppc EXCEPT ![p] = "lead"]
      /\ state' = [r \in Runs |-> IF r \in hit THEN "failed" ELSE state[r]]
      /\ payload' = [r \in Runs |-> IF r \in hit THEN [payload[r] EXCEPT !.status = "failed"] ELSE payload[r]]
      /\ UNCHANGED <<plan, disk, lock, stopping, job, wpc, mem, watch, latest, apc, list, cur, others>>
  BY DEF Recover, At, GoTo, workVars, actVars
<1>2. ASSUME NEW r \in Runs
      PROVE  IF state[r] \in {"running", "deleting"} THEN Ends(r, "failed") ELSE RowSame(r)
  <2>1. PICK x \in Payload : x = payload[r]
    BY DEF IndInv, Types, RowType
  <2> DEFINE y == [x EXCEPT !.status = "failed"]
  <2>2. y.status = "failed" /\ y.path = x.path /\ y.owned = x.owned
    BY SetStatus DEF Statuses
  <2>3. CASE r \in hit
    <3>1. payload'[r] = y /\ state'[r] = "failed"
      BY <1>1, <2>1, <2>3
    <3> HIDE DEF y
    <3> QED
      BY <1>1, <2>1, <2>2, <2>3, <3>1 DEF Ends
  <2>4. CASE r \notin hit
    BY <1>1, <2>4 DEF RowSame
  <2> QED
    BY <2>3, <2>4
<1> QED
  BY <1>1, <1>2

\* claim.
LEMMA ClaimDoes ==
  ASSUME IndInv, NEW p \in Procs, Claim(p)
  PROVE  /\ ppc[p] = "claim"
         /\ UNCHANGED <<payload, plan, disk, lock, stopping, wpc, mem, watch, latest, apc, list, cur, others>>
         /\ \A q \in Procs : q # p => ppc'[q] = ppc[q] /\ job'[q] = job[q]
         /\ \/ ppc'[p] = "lead" /\ UNCHANGED state
            \/ \E r \in Runs : /\ ppc'[p] = "check" /\ job'[p] = r /\ state[r] = "queued" /\ state'[r] = "running"
                               /\ \A q \in Runs : q # r => state'[q] = state[q]
<1>1. /\ ppc[p] = "claim"
      /\ UNCHANGED <<payload, plan, disk, lock, stopping, wpc, mem, watch, latest, apc, list, cur, others>>
  BY DEF Claim, At, workVars, actVars
<1>2. CASE Queued = {}
  <2>1. ppc' = [ppc EXCEPT ![p] = "lead"] /\ UNCHANGED <<state, job>>
    BY <1>2 DEF Claim, GoTo
  <2> QED
    BY <1>1, <2>1 DEF IndInv, Types, ProcType
<1>3. CASE Queued # {}
  <2>1. PICK r : /\ r = CHOOSE q \in Queued : \A q2 \in Queued : q <= q2
                 /\ state' = [state EXCEPT ![r] = "running"] /\ job' = [job EXCEPT ![p] = r]
                 /\ ppc' = [ppc EXCEPT ![p] = "check"]
    BY <1>3 DEF Claim, GoTo
  <2>2. r \in Queued
    <3>1. Queued \in SUBSET Nat /\ IsFiniteSet(Queued)
      <4>1. IsFiniteSet(Runs) /\ Queued \in SUBSET Runs /\ Runs \subseteq Nat
        BY FS_Interval, BoundsAssumption DEF Runs, Queued
      <4> QED
        BY <4>1, FS_Subset
    <3>2. \E q \in Queued : \A q2 \in Queued : q <= q2
      BY <1>3, <3>1, Oldest
    <3> QED
      BY <2>1, <3>2, Zenon
  <2>3. r \in Runs /\ state[r] = "queued"
    BY <2>2 DEF Queued
  <2>4. /\ state'[r] = "running" /\ \A q \in Runs : q # r => state'[q] = state[q]
        /\ ppc'[p] = "check" /\ job'[p] = r
        /\ \A q \in Procs : q # p => ppc'[q] = ppc[q] /\ job'[q] = job[q]
    BY <2>1, <2>3 DEF IndInv, Types, RowType, ProcType
  <2> QED
    BY <1>1, <2>3, <2>4
<1> QED
  BY <1>2, <1>3

\* A failing call ends the tick.
LEMMA TickFailsDoes ==
  ASSUME IndInv, NEW p \in Procs, TickFails(p)
  PROVE  /\ Errors /\ ppc[p] \in {"claim", "check", "finish", "retain", "delete"} /\ ppc'[p] = "lead"
         /\ UNCHANGED <<state, payload, plan, disk, lock, stopping, wpc, watch, latest>> /\ RestSame(p)
         /\ wpc[p] = "none" /\ apc'[p] = "idle" /\ DOMAIN list'[p] = {}
<1>1. /\ Errors /\ ppc[p] \in {"claim", "check", "finish", "retain", "delete"} /\ ppc' = [ppc EXCEPT ![p] = "lead"]
      /\ job' = [job EXCEPT ![p] = 0] /\ mem' = [mem EXCEPT ![p] = Blank] /\ Forget(p)
      /\ UNCHANGED <<state, payload, plan, disk, lock, stopping, wpc, watch, latest>>
  BY DEF TickFails, GoTo, NoRun, rowVars
<1>2. ppc'[p] = "lead" /\ \A q \in Procs : q # p => ppc'[q] = ppc[q] /\ job'[q] = job[q] /\ mem'[q] = mem[q]
  BY <1>1 DEF IndInv, Types, ProcType, WorkType
<1> QED
  BY <1>1, <1>2, NoWorker, ForgetDoes DEF RestSame, ProcSame

\* The worker is started.
LEMMA StartDoes ==
  ASSUME IndInv, NEW p \in Procs, StartWorker(p)
  PROVE  /\ ppc[p] = "check" /\ ppc'[p] = "work" /\ wpc'[p] = "start" /\ mem'[p] = Blank /\ watch'[p] = Blank
         /\ UNCHANGED <<state, payload, plan, disk, lock, stopping, job, latest, apc, list, cur, others>> /\ RestSame(p)
<1>1. /\ ppc[p] = "check"
      /\ UNCHANGED <<state, payload, plan, disk, lock, stopping, job, latest, apc, list, cur, others>>
  BY DEF StartWorker, At, rowVars, actVars
<1>2. /\ ppc'[p] = "work" /\ wpc'[p] = "start" /\ mem'[p] = Blank /\ watch'[p] = Blank
      /\ \A q \in Procs : q # p => ppc'[q] = ppc[q] /\ wpc'[q] = wpc[q] /\ mem'[q] = mem[q] /\ watch'[q] = watch[q]
  BY DEF StartWorker, GoTo, IndInv, Types, ProcType, WorkType
<1> QED
  BY <1>1, <1>2 DEF RestSame, ProcSame, ActSame

\* The channel is read.
LEMMA PollDoes ==
  ASSUME IndInv, NEW p \in Procs, PollCancel(p)
  PROVE  /\ ppc[p] = "work" /\ wpc[p] # "done" /\ latest'[p] = watch[p]
         /\ UNCHANGED <<state, payload, plan, disk, lock, ppc, stopping, job, wpc, mem, watch, apc, list, cur, others>>
         /\ RestSame(p)
<1>1. /\ ppc[p] = "work" /\ wpc[p] # "done"
      /\ UNCHANGED <<state, payload, plan, disk, lock, ppc, stopping, job, wpc, mem, watch, apc, list, cur, others>>
  BY DEF PollCancel, At, rowVars, actVars
<1>2. latest'[p] = watch[p] /\ \A q \in Procs : q # p => latest'[q] = latest[q]
  BY DEF PollCancel, IndInv, Types, WorkType
<1> QED
  BY <1>1, <1>2 DEF RestSame, ProcSame, ActSame

\* The payload of the run is stored, or not.
Stores(r, x) ==
  /\ UNCHANGED <<state, plan>> /\ payload'[r] \in {payload[r], x}
  /\ \A q \in Runs : q # r => RowSame(q)

\* progress.
LEMMA ProgressDoes ==
  ASSUME IndInv, NEW r \in Runs, NEW x, Progress(r, x), UNCHANGED <<state, plan>>
  PROVE  Stores(r, x)
<1>1. payload' = payload \/ payload' = [payload EXCEPT ![r] = x]
  BY DEF Progress
<1> QED
  BY <1>1 DEF Stores, RowSame, IndInv, Types, RowType

\* What was read is stored.
LEMMA StoreDoes ==
  ASSUME IndInv, NEW p \in Procs, PollStore(p)
  PROVE  /\ ppc[p] = "work" /\ latest[p] # None /\ latest'[p] = None /\ job[p] \in Runs
         /\ Stores(job[p], latest[p]) /\ RestSame(p)
         /\ UNCHANGED <<disk, lock, ppc, stopping, job, wpc, mem, watch, apc, list, cur, others>>
<1>1. /\ ppc[p] = "work" /\ latest[p] # None
      /\ UNCHANGED <<state, plan, disk, lock, ppc, stopping, job, wpc, mem, watch, apc, list, cur, others>>
  BY DEF PollStore, At, actVars
<1>2. latest'[p] = None /\ \A q \in Procs : q # p => latest'[q] = latest[q]
  BY DEF PollStore, IndInv, Types, WorkType
<1>3. job[p] \in Runs
  BY <1>1 DEF IndInv, Working, WorkingOK
<1>4. Stores(job[p], latest[p])
  <2>1. CASE Progress(job[p], latest[p])
    BY <1>1, <1>3, <2>1, ProgressDoes
  <2>2. CASE UNCHANGED payload
    BY <1>1, <2>2 DEF Stores, RowSame
  <2> QED
    BY <2>1, <2>2 DEF PollStore
<1> QED
  BY <1>1, <1>2, <1>3, <1>4 DEF RestSame, ProcSame, ActSame

\* What every step of the worker leaves alone.
LEMMA WorkerDoes ==
  ASSUME IndInv, NEW p \in Procs, WorkerNext(p)
  PROVE  /\ ppc[p] = "work" /\ wpc[p] # "none" /\ job[p] \in Runs /\ state[job[p]] = "running"
         /\ UNCHANGED <<state, plan, lock, ppc, stopping, job, latest, apc, list, cur, others>> /\ RestSame(p)
<1>1. wpc[p] # "none" /\ WorkerOnly
  BY DEF WorkerNext, WorkerRefuses, WorkerRecords, WorkerRecordFails, WorkerSends, WorkerCreates, WorkerReports,
         WorkerEnds, WorkerPanics
<1>2. UNCHANGED <<state, plan, lock, ppc, stopping, job, latest, apc, list, cur, others>>
  BY <1>1 DEF WorkerOnly, procVars, actVars
<1>3. ppc[p] = "work" /\ job[p] \in Runs /\ state[job[p]] = "running"
  BY <1>1 DEF IndInv, Working, WorkingOK
<1>4. \A q \in Procs : q # p => wpc'[q] = wpc[q] /\ mem'[q] = mem[q] /\ watch'[q] = watch[q]
  <2> USE DEF IndInv, Types, WorkType
  <2>1. CASE WorkerRefuses(p)
    BY <2>1 DEF WorkerRefuses, Return
  <2>2. ASSUME NEW f \in Paths, WorkerRecords(p, f) PROVE \A q \in Procs : q # p => wpc'[q] = wpc[q] /\ mem'[q] = mem[q] /\ watch'[q] = watch[q]
    BY <2>2 DEF WorkerRecords
  <2>3. ASSUME NEW f \in Paths, WorkerRecordFails(p, f) PROVE \A q \in Procs : q # p => wpc'[q] = wpc[q] /\ mem'[q] = mem[q] /\ watch'[q] = watch[q]
    BY <2>3 DEF WorkerRecordFails, Return
  <2>4. CASE WorkerSends(p) \/ WorkerReports(p)
    BY <2>4 DEF WorkerSends, WorkerReports
  <2>5. CASE WorkerCreates(p)
    BY <2>5 DEF WorkerCreates, Return
  <2>6. CASE WorkerEnds(p)
    BY <2>6 DEF WorkerEnds, Return
  <2>7. CASE WorkerPanics(p)
    BY <2>7 DEF WorkerPanics
  <2> QED
    BY <2>1, <2>2, <2>3, <2>4, <2>5, <2>6, <2>7 DEF WorkerNext
<1> QED
  BY <1>1, <1>2, <1>3, <1>4 DEF RestSame, ProcSame, ActSame

\* The worker has ended with result x, whose status is set.
EndsWith(p, x, ok) ==
  /\ wpc'[p] = "done" /\ mem'[p].path = x.path /\ mem'[p].owned = x.owned
  /\ mem'[p].status \in Finished /\ (mem'[p].status = "success" => ok)

\* execute, when the export returns.
LEMMA ReturnDoes ==
  ASSUME IndInv, NEW p \in Procs, NEW x \in Payload, NEW ok \in BOOLEAN, Return(p, x, ok)
  PROVE  EndsWith(p, x, ok)
<1> DEFINE st == IF token[p] THEN "cancelled" ELSE IF ok THEN "success" ELSE "failed"
           y == [x EXCEPT !.status = st]
<1>1. st \in Statuses /\ st \in Finished /\ (st = "success" => ok)
  BY DEF Statuses, Finished
<1>2. mem' = [mem EXCEPT ![p] = y] /\ wpc' = [wpc EXCEPT ![p] = "done"]
  BY DEF Return
<1> HIDE DEF st
<1>3. y.status = st /\ y.path = x.path /\ y.owned = x.owned
  BY <1>1, SetStatus
<1> HIDE DEF y
<1>4. mem'[p] = y /\ wpc'[p] = "done"
  BY <1>2 DEF IndInv, Types, WorkType
<1> QED
  BY <1>1, <1>3, <1>4 DEF EndsWith

\* The steps of the worker: it ends without a file, records a path, sends it, creates the
\* file or gives up, reports, ends, or panics.
Records(p) ==
  /\ wpc[p] = "start" /\ wpc'[p] = "send" /\ UNCHANGED <<disk, watch>>
  /\ mem'[p].path \in Paths /\ mem'[p].owned = mem[p].owned /\ mem'[p].status = mem[p].status
  /\ (UniquePaths => mem'[p].path = job[p]) /\ disk[mem'[p].path] = NoRun
  /\ Stores(job[p], mem'[p])

GivesUp(p) ==
  /\ wpc[p] \in {"start", "create"} /\ UNCHANGED <<payload, disk, watch>>
  /\ \E x \in Payload : /\ EndsWith(p, x, FALSE) /\ x.owned = mem[p].owned
                        /\ UniquePaths => x.path \in {None, mem[p].path, job[p]}

Sends(p) ==
  /\ \/ wpc[p] = "send" /\ wpc'[p] = "create"
     \/ wpc[p] = "export" /\ wpc'[p] = "export"
  /\ UNCHANGED <<payload, disk>> /\ mem'[p] = mem[p] /\ watch'[p] = mem[p]

Creates(p) ==
  /\ wpc[p] = "create" /\ wpc'[p] = "export" /\ UNCHANGED <<payload, watch>>
  /\ disk[mem[p].path] = NoRun /\ disk' = [disk EXCEPT ![mem[p].path] = job[p]]
  /\ mem'[p].path = mem[p].path /\ mem'[p].status = mem[p].status /\ mem'[p].owned

Finishes(p) ==
  /\ wpc[p] = "export" /\ UNCHANGED <<payload, disk, watch>>
  /\ \E ok \in BOOLEAN : EndsWith(p, mem[p], ok)

Panics(p) ==
  /\ wpc[p] \in {"start", "send", "create", "export"} /\ UNCHANGED <<payload, disk, watch>>
  /\ EndsWith(p, watch[p], FALSE)

\* Every step of the worker is one of these.
LEMMA WorkerDoesOne ==
  ASSUME IndInv, NEW p \in Procs, WorkerNext(p)
  PROVE  Records(p) \/ GivesUp(p) \/ Sends(p) \/ Creates(p) \/ Finishes(p) \/ Panics(p)
<1>1. PICK x \in Payload : x = mem[p]
  BY DEF IndInv, Types, WorkType
<1>2. mem \in [Procs -> Payload] /\ wpc \in [Procs -> {"none", "start", "send", "create", "export", "done"}]
      /\ watch \in [Procs -> Payload] /\ disk \in [Paths -> 0 .. MaxRuns] /\ FALSE \in BOOLEAN
  BY DEF IndInv, Types, WorkType, RestType
<1>3. CASE WorkerRefuses(p)
  <2>1. wpc[p] = "start" /\ UNCHANGED <<payload, disk, watch>> /\ Return(p, x, FALSE)
    BY <1>1, <1>3 DEF WorkerRefuses
  <2> QED
    BY <1>1, <1>2, <2>1, ReturnDoes DEF GivesUp
<1>4. ASSUME NEW f \in Paths, WorkerRecords(p, f) PROVE Records(p)
  <2> DEFINE y == [x EXCEPT !.path = f]
  <2>1. y.path = f /\ y.status = x.status /\ y.owned = x.owned
    BY SetPath
  <2>2. /\ wpc[p] = "start" /\ UNCHANGED <<disk, watch>> /\ wpc' = [wpc EXCEPT ![p] = "send"]
        /\ mem' = [mem EXCEPT ![p] = y] /\ Progress(job[p], mem'[p])
        /\ (UniquePaths => f = job[p]) /\ disk[f] = NoRun
    BY <1>1, <1>2, <1>4 DEF WorkerRecords
  <2> HIDE DEF y
  <2>3. mem'[p] = y /\ wpc'[p] = "send"
    BY <1>2, <2>2
  <2>4. Stores(job[p], mem'[p])
    BY <2>2, WorkerDoes, ProgressDoes
  <2> QED
    BY <1>1, <2>1, <2>2, <2>3, <2>4 DEF Records
<1>5. ASSUME NEW f \in Paths, WorkerRecordFails(p, f) PROVE GivesUp(p)
  <2> DEFINE y == [x EXCEPT !.path = f]
  <2>1. y \in Payload /\ y.path = f /\ y.owned = x.owned
    BY SetPath
  <2>2. wpc[p] = "start" /\ UNCHANGED <<payload, disk, watch>> /\ Return(p, y, FALSE) /\ (UniquePaths => f = job[p])
    BY <1>1, <1>5 DEF WorkerRecordFails
  <2> HIDE DEF y
  <2>3. EndsWith(p, y, FALSE)
    BY <1>2, <2>1, <2>2, ReturnDoes
  <2> QED
    BY <1>1, <2>1, <2>2, <2>3 DEF GivesUp
<1>6. CASE WorkerSends(p) \/ WorkerReports(p)
  <2>1. watch' = [watch EXCEPT ![p] = mem[p]] /\ UNCHANGED <<payload, disk, mem>>
    BY <1>6 DEF WorkerSends, WorkerReports
  <2>2. \/ wpc[p] = "send" /\ wpc'[p] = "create"
        \/ wpc[p] = "export" /\ wpc'[p] = "export"
    BY <1>2, <1>6 DEF WorkerSends, WorkerReports
  <2> QED
    BY <1>2, <2>1, <2>2 DEF Sends
<1>7. CASE WorkerCreates(p)
  <2>1. wpc[p] = "create" /\ UNCHANGED <<payload, watch>>
    BY <1>7 DEF WorkerCreates
  <2>2. CASE /\ disk[mem[p].path] = NoRun /\ disk' = [disk EXCEPT ![mem[p].path] = job[p]]
             /\ mem' = [mem EXCEPT ![p].owned = TRUE] /\ wpc' = [wpc EXCEPT ![p] = "export"]
    <3> DEFINE y == [x EXCEPT !.owned = TRUE]
    <3>1. y.owned /\ y.status = x.status /\ y.path = x.path
      BY SetFile
    <3>2. mem' = [mem EXCEPT ![p] = y]
      BY <1>1, <1>2, <2>2
    <3> HIDE DEF y
    <3>3. mem'[p] = y /\ wpc'[p] = "export"
      BY <1>2, <2>2, <3>2
    <3> QED
      BY <1>1, <2>1, <2>2, <3>1, <3>3 DEF Creates
  <2>3. CASE Return(p, [mem[p] EXCEPT !.path = None], FALSE) /\ UNCHANGED disk
    <3> DEFINE y == [x EXCEPT !.path = None]
    <3>1. y \in Payload /\ y.path = None /\ y.owned = x.owned
      BY SetPath
    <3>2. Return(p, y, FALSE)
      BY <1>1, <2>3
    <3> HIDE DEF y
    <3>3. EndsWith(p, y, FALSE)
      BY <1>2, <3>1, <3>2, ReturnDoes
    <3> QED
      BY <1>1, <2>1, <2>3, <3>1, <3>3 DEF GivesUp
  <2> QED
    BY <1>7, <2>2, <2>3 DEF WorkerCreates
<1>8. CASE WorkerEnds(p)
  <2>1. PICK ok \in BOOLEAN : Return(p, x, ok)
    BY <1>1, <1>8 DEF WorkerEnds
  <2>2. wpc[p] = "export" /\ UNCHANGED <<payload, disk, watch>>
    BY <1>8 DEF WorkerEnds
  <2> QED
    BY <1>1, <2>1, <2>2, ReturnDoes DEF Finishes
<1>9. CASE WorkerPanics(p)
  <2>1. PICK w \in Payload : w = watch[p]
    BY <1>2
  <2> DEFINE y == [w EXCEPT !.status = "failed"]
  <2>2. y.status = "failed" /\ y.path = w.path /\ y.owned = w.owned
    BY SetStatus DEF Statuses
  <2>3. /\ wpc[p] \in {"start", "send", "create", "export"} /\ UNCHANGED <<payload, disk, watch>>
        /\ mem' = [mem EXCEPT ![p] = y] /\ wpc' = [wpc EXCEPT ![p] = "done"]
    BY <1>9, <2>1 DEF WorkerPanics
  <2> HIDE DEF y
  <2>4. mem'[p] = y /\ wpc'[p] = "done"
    BY <1>2, <2>3
  <2>5. EndsWith(p, watch[p], FALSE)
    BY <2>1, <2>2, <2>4 DEF EndsWith, Finished
  <2> QED
    BY <2>3, <2>5 DEF Panics
<1> QED
  BY <1>3, <1>4, <1>5, <1>6, <1>7, <1>8, <1>9 DEF WorkerNext

\* The worker is joined.
LEMMA JoinDoes ==
  ASSUME IndInv, NEW p \in Procs, Join(p)
  PROVE  /\ ppc[p] = "work" /\ wpc[p] = "done" /\ wpc'[p] = "none" /\ latest[p] = None
         /\ UNCHANGED <<state, payload, plan, disk, lock, stopping, job, mem, latest, cur, others>> /\ RestSame(p)
         /\ IF mem[p].status = "success"
              THEN ppc'[p] = "finish" /\ apc'[p] = "idle"
              ELSE /\ ppc'[p] = "clean" /\ apc'[p] = "snapshot"
                   /\ DOMAIN list'[p] = {job[p]} /\ list'[p][job[p]] = mem[p]
<1>1. /\ ppc[p] = "work" /\ wpc[p] = "done" /\ latest[p] = None
      /\ wpc' = [wpc EXCEPT ![p] = "none"] /\ watch' = [watch EXCEPT ![p] = Blank]
      /\ UNCHANGED <<state, payload, plan, disk, lock, stopping, job, mem, latest, cur, others>>
  BY DEF Join, At, rowVars
<1>2. wpc'[p] = "none" /\ \A q \in Procs : q # p => wpc'[q] = wpc[q] /\ watch'[q] = watch[q]
  BY <1>1 DEF IndInv, Types, WorkType
<1>3. CASE mem[p].status = "success"
  <2>1. ppc' = [ppc EXCEPT ![p] = "finish"] /\ UNCHANGED <<apc, list>>
    BY <1>3 DEF Join, GoTo
  <2>2. ppc'[p] = "finish" /\ apc'[p] = "idle" /\ \A q \in Procs : q # p => ppc'[q] = ppc[q]
    BY <1>1, <2>1, NoWorker DEF IndInv, Types, ProcType
  <2> QED
    BY <1>1, <1>2, <1>3, <2>1, <2>2 DEF RestSame, ProcSame, ActSame
<1>4. CASE mem[p].status # "success"
  <2> DEFINE f == [r \in {job[p]} |-> mem[p]]
  <2>1. /\ ppc' = [ppc EXCEPT ![p] = "clean"] /\ apc' = [apc EXCEPT ![p] = "snapshot"]
        /\ list' = [list EXCEPT ![p] = f]
    BY <1>4 DEF Join, GoTo
  <2>2. DOMAIN f = {job[p]} /\ f[job[p]] = mem[p]
    OBVIOUS
  <2> HIDE DEF f
  <2>3. /\ apc'[p] = "snapshot" /\ list'[p] = f
        /\ \A b \in Actors : b # p => apc'[b] = apc[b] /\ list'[b] = list[b]
    BY <2>1, NoWorker DEF IndInv, Types, ActType
  <2>4. ppc'[p] = "clean" /\ \A q \in Procs : q # p => ppc'[q] = ppc[q]
    BY <2>1 DEF IndInv, Types, ProcType
  <2> QED
    BY <1>1, <1>2, <1>4, <2>2, <2>3, <2>4 DEF RestSame, ProcSame, ActSame
<1> QED
  BY <1>3, <1>4

\* The cleanup after a run has ended.
LEMMA CleanedDoes ==
  ASSUME IndInv, NEW p \in Procs, Cleaned(p)
  PROVE  /\ ppc[p] = "clean" /\ ppc'[p] = "finish" /\ apc[p] \in {"settle", "failed"} /\ mem'[p] = list[p][job[p]]
         /\ UNCHANGED <<state, payload, plan, disk, lock, stopping, job, wpc, watch, latest>> /\ RestSame(p)
         /\ apc'[p] = "idle" /\ DOMAIN list'[p] = {}
<1>1. /\ ppc[p] = "clean" /\ ppc' = [ppc EXCEPT ![p] = "finish"] /\ Forget(p) /\ apc[p] \in {"settle", "failed"}
      /\ mem' = [mem EXCEPT ![p] = list[p][job[p]]]
      /\ UNCHANGED <<state, payload, plan, disk, lock, stopping, job, wpc, watch, latest>>
  BY DEF Cleaned, Forget, At, GoTo, rowVars
<1>2. ppc'[p] = "finish" /\ \A q \in Procs : q # p => ppc'[q] = ppc[q] /\ mem'[q] = mem[q]
  BY <1>1 DEF IndInv, Types, ProcType, WorkType
<1>3. mem'[p] = list[p][job[p]]
  BY <1>1 DEF IndInv, Types, WorkType
<1> QED
  BY <1>1, <1>2, <1>3, NoWorker, ForgetDoes DEF RestSame, ProcSame

\* finish.
LEMMA FinishDoes ==
  ASSUME IndInv, NEW p \in Procs, Finish(p)
  PROVE  /\ ppc[p] = "finish" /\ ppc'[p] \in {"retain", "lead"} /\ job[p] \in Runs /\ state[job[p]] = "running"
         /\ mem[p].status \in Finished /\ state'[job[p]] = mem[p].status /\ payload'[job[p]] = mem[p]
         /\ \A q \in Runs : q # job[p] => RowSame(q)
         /\ UNCHANGED <<plan, disk, lock, stopping, wpc, watch, latest, apc, list, cur, others>> /\ RestSame(p)
         /\ ppc'[p] = "retain" => job'[p] = job[p] /\ state'[job[p]] = "success"
<1>1. /\ ppc[p] = "finish" /\ mem' = [mem EXCEPT ![p] = Blank]
      /\ UNCHANGED <<plan, disk, lock, stopping, wpc, watch, latest, apc, list, cur, others>>
  BY DEF Finish, At, actVars
<1>2. PICK r \in Runs : r = job[p] /\ state[r] = "running"
  BY <1>1 DEF IndInv, Working, WorkingOK
<1>3. PICK x \in Payload : x = mem[p] /\ x.status \in Finished
  BY <1>1 DEF IndInv, Working, WorkingOK, Types, WorkType
<1>4. /\ state' = [state EXCEPT ![r] = x.status] /\ payload' = [payload EXCEPT ![r] = x]
  BY <1>2, <1>3 DEF Finish, IndInv, Types, RowType, Present, Pending
<1>5. /\ state'[r] = x.status /\ payload'[r] = x
      /\ \A q \in Runs : q # r => state'[q] = state[q] /\ payload'[q] = payload[q]
  BY <1>4 DEF IndInv, Types, RowType
<1>6. /\ ppc'[p] \in {"retain", "lead"} /\ (ppc'[p] = "retain" => job'[p] = job[p] /\ x.status = "success")
      /\ \A q \in Procs : q # p => ppc'[q] = ppc[q] /\ job'[q] = job[q] /\ mem'[q] = mem[q]
  <2>1. CASE mem[p].status = "success"
    BY <1>1, <1>3, <2>1 DEF Finish, GoTo, IndInv, Types, ProcType, WorkType
  <2>2. CASE mem[p].status # "success"
    BY <1>1, <2>2 DEF Finish, GoTo, IndInv, Types, ProcType, WorkType
  <2> QED
    BY <2>1, <2>2
<1> QED
  BY <1>1, <1>2, <1>3, <1>5, <1>6 DEF RestSame, ProcSame, ActSame, RowSame

\* Retention makes its selection.
LEMMA RetainDoes ==
  ASSUME IndInv, NEW p \in Procs, Retain(p)
  PROVE  /\ ppc[p] = "retain" /\ ppc'[p] \in {"lead", "delete"} /\ apc'[p] = "idle"
         /\ UNCHANGED <<state, payload, plan, disk, lock, stopping, wpc, mem, watch, latest, apc, cur, others>>
         /\ RestSame(p) /\ DOMAIN list'[p] \subseteq Surplus(job[p])
<1> DEFINE keeps == plan[job[p]] = None \/ Retention = 0
           R == IF keeps THEN {} ELSE IF sched[plan[job[p]]] = "absent" THEN {} ELSE Surplus(job[p])
           f == [r \in R |-> payload[r]]
<1>1. /\ ppc[p] = "retain" /\ list' = [list EXCEPT ![p] = f]
      /\ UNCHANGED <<state, payload, plan, disk, lock, stopping, wpc, mem, watch, latest, apc, cur, others>>
  BY DEF Retain, At, rowVars, workVars
<1>2. \/ ppc' = [ppc EXCEPT ![p] = "lead"] /\ job' = [job EXCEPT ![p] = 0]
      \/ ppc' = [ppc EXCEPT ![p] = "delete"] /\ UNCHANGED job
  BY DEF Retain, GoTo, NoRun
<1>3. R \subseteq Surplus(job[p])
  OBVIOUS
<1>4. DOMAIN f = R
  OBVIOUS
<1> HIDE DEF R, f
<1>5. list'[p] = f /\ \A b \in Actors : b # p => list'[b] = list[b]
  BY <1>1, NoWorker DEF IndInv, Types, ActType
<1>6. ppc'[p] \in {"lead", "delete"} /\ \A q \in Procs : q # p => ppc'[q] = ppc[q] /\ job'[q] = job[q]
  BY <1>2 DEF IndInv, Types, ProcType
<1>7. apc'[p] = "idle"
  BY <1>1, NoWorker
<1> QED
  BY <1>1, <1>3, <1>4, <1>5, <1>6, <1>7 DEF RestSame, ProcSame, ActSame

\* mark_deleting of the selection, or the end of retention.
LEMMA RetainMarkDoes ==
  ASSUME IndInv, NEW p \in Procs, RetainMark(p) \/ Retained(p)
  PROVE  /\ ppc[p] = "delete" /\ apc[p] = "idle" /\ UNCHANGED <<disk, lock, stopping, wpc, mem, watch, latest>>
         /\ \A q \in Procs : q # p => ProcSame(q)
         /\ \/ /\ MarkDeleting(p, DOMAIN list[p]) /\ ppc' = ppc /\ job' = job
               /\ \A r \in DOMAIN list[p] : Deletable(r)
            \/ /\ UNCHANGED <<state, payload, plan>> /\ ppc'[p] = "lead" /\ apc'[p] = "idle" /\ DOMAIN list'[p] = {}
               /\ \A b \in Actors : b # p => ActSame(b)
<1>1. ppc[p] = "delete" /\ apc[p] = "idle" /\ UNCHANGED <<disk, lock, stopping, wpc, mem, watch, latest>>
  BY DEF RetainMark, Retained, At, workVars
<1>2. CASE RetainMark(p) /\ \A r \in DOMAIN list[p] : Deletable(r)
  <2>1. MarkDeleting(p, DOMAIN list[p]) /\ ppc' = ppc /\ job' = job
    BY <1>2 DEF RetainMark
  <2> QED
    BY <1>1, <1>2, <2>1 DEF ProcSame
<1>3. CASE RetainMark(p) /\ ~ \A r \in DOMAIN list[p] : Deletable(r)
  <2>1. /\ ppc' = [ppc EXCEPT ![p] = "lead"] /\ job' = [job EXCEPT ![p] = 0]
        /\ list' = [list EXCEPT ![p] = Nothing]
        /\ UNCHANGED <<state, payload, plan, apc, cur, others>>
    BY <1>3 DEF RetainMark, GoTo, NoRun, rowVars
  <2>2. list'[p] = Nothing /\ \A b \in Actors : b # p => list'[b] = list[b]
    BY <2>1, NoWorker DEF IndInv, Types, ActType
  <2>3. ppc'[p] = "lead" /\ \A q \in Procs : q # p => ppc'[q] = ppc[q] /\ job'[q] = job[q]
    BY <2>1 DEF IndInv, Types, ProcType
  <2> QED
    BY <1>1, <1>3, <2>1, <2>2, <2>3, NothingIsList DEF ProcSame, ActSame
<1>4. CASE Retained(p)
  <2>1. /\ ppc' = [ppc EXCEPT ![p] = "lead"] /\ job' = [job EXCEPT ![p] = 0] /\ DOMAIN list[p] = {}
        /\ UNCHANGED <<state, payload, plan, apc, list, cur, others>>
    BY <1>4 DEF Retained, GoTo, NoRun, rowVars, actVars
  <2>2. ppc'[p] = "lead" /\ \A q \in Procs : q # p => ppc'[q] = ppc[q] /\ job'[q] = job[q]
    BY <2>1 DEF IndInv, Types, ProcType
  <2> QED
    BY <1>1, <2>1, <2>2 DEF ProcSame, ActSame
<1> QED
  BY <1>2, <1>3, <1>4

\* What the steps of cleanup and delete_runs leave alone.
LEMMA ActorDoes ==
  ASSUME IndInv, NEW a \in Actors, CleanupSnapshot(a) \/ CleanupRemove(a) \/ DeleteSettles(a)
  PROVE  /\ UNCHANGED <<plan, lock, ppc, stopping, job, wpc, mem, watch, latest>>
         /\ \A q \in Procs : ProcSame(q)
         /\ a \in Procs => ppc[a] \in {"clean", "delete"}
         /\ DOMAIN list[a] \subseteq Runs
<1>1. ActOnly /\ apc[a] # "idle"
  BY DEF CleanupSnapshot, CleanupRemove, DeleteSettles
<1>2. UNCHANGED <<plan, lock, ppc, stopping, job, wpc, mem, watch, latest>>
  BY <1>1 DEF ActOnly, procVars, workVars
<1> QED
  BY <1>1, <1>2, ActorPlace, ListIs DEF ProcSame, IndInv, Types

\* The paths of the other runs are read.
LEMMA SnapshotDoes ==
  ASSUME IndInv, NEW a \in Actors, CleanupSnapshot(a)
  PROVE  /\ apc[a] = "snapshot" /\ UNCHANGED <<state, payload, disk, list>> /\ \A b \in Actors : b # a => ActSame(b)
         /\ \/ apc'[a] = "remove"
            \/ Errors /\ apc'[a] = "failed"
         /\ cur'[a] \in DOMAIN list[a]
         /\ others'[a] = {payload[q].path : q \in {q \in Runs \ {cur'[a]} : state[q] \in Present}} \ {None}
<1>1. apc[a] = "snapshot" /\ UNCHANGED <<state, payload, disk, list>>
  BY DEF CleanupSnapshot
<1>2. PICK r \in DOMAIN list[a] :
        /\ cur' = [cur EXCEPT ![a] = r]
        /\ others' = [others EXCEPT ![a] =
             {payload[q].path : q \in {q \in Runs \ {r} : state[q] \in Present}} \ {None}]
  BY DEF CleanupSnapshot
<1>3. \/ apc' = [apc EXCEPT ![a] = "remove"]
      \/ Errors /\ apc' = [apc EXCEPT ![a] = "failed"]
  BY DEF CleanupSnapshot
<1>4. cur'[a] = r /\ \A b \in Actors : b # a => cur'[b] = cur[b]
  BY <1>2 DEF IndInv, Types, ActType
<1> DEFINE o == {payload[q].path : q \in {q \in Runs \ {r} : state[q] \in Present}} \ {None}
<1>5. others' = [others EXCEPT ![a] = o]
  BY <1>2
<1>6. o = {payload[q].path : q \in {q \in Runs \ {cur'[a]} : state[q] \in Present}} \ {None}
  BY <1>4
<1> HIDE DEF o
<1>7. others'[a] = o /\ \A b \in Actors : b # a => others'[b] = others[b]
  BY <1>5 DEF IndInv, Types, ActType
<1>8. /\ \A b \in Actors : b # a => apc'[b] = apc[b]
      /\ apc'[a] = "remove" \/ (Errors /\ apc'[a] = "failed")
  BY <1>3 DEF IndInv, Types, ActType
<1> QED
  BY <1>1, <1>4, <1>6, <1>7, <1>8 DEF ActSame

\* The file of run c, which x is about, is dropped from the list of actor a.
Drops(a, c, x) ==
  /\ apc'[a] = "settle" /\ DOMAIN list'[a] = DOMAIN list[a]
  /\ list'[a][c].path = None /\ ~list'[a][c].owned /\ list'[a][c].status = x.status
  /\ \A r \in DOMAIN list[a] : r # c => list'[a][r] = list[a][r]

\* Files of other runs and files that are gone are skipped, the file of a run that owns
\* it is removed, any other is kept.
LEMMA RemoveDoes ==
  ASSUME IndInv, NEW a \in Actors, CleanupRemove(a)
  PROVE  /\ apc[a] = "remove" /\ UNCHANGED <<state, payload, cur, others>> /\ \A b \in Actors : b # a => ActSame(b)
         /\ cur[a] \in DOMAIN list[a] /\ list[a][cur[a]] \in Payload
         /\ LET x == list[a][cur[a]]
            IN \/ /\ x.path \in {None} \cup others[a] \cup {f \in Paths : disk[f] = NoRun}
                  /\ Drops(a, cur[a], x) /\ disk' = disk
               \/ /\ x.path \in Paths /\ x.path \notin others[a] /\ disk[x.path] # NoRun
                  /\ x.owned /\ Drops(a, cur[a], x) /\ disk' = [disk EXCEPT ![x.path] = NoRun]
               \/ /\ apc'[a] = "failed" /\ list'[a] = list[a] /\ disk' = disk
                  /\ ~x.owned \/ Errors
<1>1. apc[a] = "remove" /\ UNCHANGED <<state, payload, cur, others>>
  BY DEF CleanupRemove
<1>2. PICK c \in Runs : c = cur[a] /\ c \in DOMAIN list[a]
  BY <1>1, ListIs DEF IndInv, Types, Cleaning, CleaningOK
<1>3. PICK f : f = list[a] /\ f \in [DOMAIN list[a] -> Payload]
  BY ListIs DEF IndInv, Types
<1>4. PICK x \in Payload : x = f[c]
  BY <1>2, <1>3
<1> DEFINE y == [x EXCEPT !.path = None, !.owned = FALSE]
           g == [f EXCEPT ![c] = y]
           skip == x.path \in {None} \cup others[a] \cup {h \in Paths : disk[h] = NoRun}
           Keep == apc' = [apc EXCEPT ![a] = "failed"] /\ UNCHANGED <<disk, list>>
           Drop == apc' = [apc EXCEPT ![a] = "settle"] /\ list' = [list EXCEPT ![a] = g]
<1>5. list[a][cur[a]] = x
  BY <1>2, <1>3, <1>4
<1>6. y.path = None /\ ~y.owned /\ y.status = x.status
  BY SetFile
<1>7. [list EXCEPT ![a][cur[a]] = [@ EXCEPT !.path = None, !.owned = FALSE]] = [list EXCEPT ![a] = g]
  BY <1>2, <1>3, <1>4 DEF IndInv, Types, ActType
<1>8. \/ skip /\ Drop /\ UNCHANGED disk
      \/ ~skip /\ ~x.owned /\ Keep
      \/ ~skip /\ x.owned /\ Drop /\ disk' = [disk EXCEPT ![x.path] = NoRun]
      \/ ~skip /\ x.owned /\ Errors /\ Keep
  BY <1>5, <1>7 DEF CleanupRemove
<1> HIDE DEF y
<1>9. DOMAIN g = DOMAIN list[a] /\ g[c] = y /\ \A r \in DOMAIN list[a] : r # c => g[r] = list[a][r]
  BY <1>2, <1>3
<1> HIDE DEF g
<1>10. \A b \in Actors : b # a => ActSame(b)
  BY <1>1, <1>8 DEF ActSame, IndInv, Types, ActType
<1>11. Drop => Drops(a, cur[a], x)
  <2> SUFFICES ASSUME Drop PROVE Drops(a, cur[a], x)
    OBVIOUS
  <2>1. apc'[a] = "settle" /\ list'[a] = g
    BY DEF IndInv, Types, ActType
  <2> QED
    BY <1>2, <1>6, <1>9, <2>1 DEF Drops
<1>12. Keep => apc'[a] = "failed" /\ list'[a] = list[a] /\ disk' = disk
  BY DEF IndInv, Types, ActType
<1>13. ~skip => x.path \in Paths /\ x.path \notin others[a] /\ disk[x.path] # NoRun
  BY DEF Payload
<1> HIDE DEF Keep, Drop
<1>14. cur[a] \in DOMAIN list[a] /\ list[a][cur[a]] \in Payload
  BY <1>2, <1>5
<1>15. CASE skip /\ Drop /\ UNCHANGED disk
  BY <1>1, <1>5, <1>10, <1>11, <1>14, <1>15
<1>16. CASE ~skip /\ x.owned /\ Drop /\ disk' = [disk EXCEPT ![x.path] = NoRun]
  BY <1>1, <1>5, <1>10, <1>11, <1>13, <1>14, <1>16
<1>17. CASE ~skip /\ Keep /\ (~x.owned \/ Errors)
  BY <1>1, <1>5, <1>10, <1>12, <1>14, <1>17
<1> QED
  BY <1>8, <1>15, <1>16, <1>17

\* remove_run or deletion_failed.
LEMMA SettleDoes ==
  ASSUME IndInv, NEW a \in Actors, DeleteSettles(a)
  PROVE  /\ apc[a] \in {"settle", "failed"} /\ (a \in Procs => ppc[a] = "delete") /\ cur[a] \in DOMAIN list[a]
         /\ UNCHANGED disk /\ \A b \in Actors : b # a => ActSame(b)
         /\ DOMAIN list'[a] = DOMAIN list[a] \ {cur[a]}
         /\ \A r \in DOMAIN list'[a] : list'[a][r] = list[a][r]
         /\ apc'[a] = (IF DOMAIN list'[a] = {} THEN "idle" ELSE "snapshot")
         /\ \A r \in Runs : r # cur[a] => RowSame(r)
         /\ LET c == cur[a]
            IN \/ state[c] # "deleting" /\ RowSame(c)
               \/ state[c] = "deleting" /\ apc[a] = "settle" /\ state'[c] = "removed" /\ payload'[c] = Blank
               \/ /\ state[c] = "deleting" /\ apc[a] = "failed" /\ state'[c] = list[a][c].status
                  /\ payload'[c] = list[a][c]
<1> DEFINE rest == [q \in DOMAIN list[a] \ {cur[a]} |-> list[a][q]]
<1>1. /\ apc[a] \in {"settle", "failed"} /\ (a \in Procs => ppc[a] = "delete")
      /\ list' = [list EXCEPT ![a] = rest] /\ cur' = [cur EXCEPT ![a] = 0] /\ others' = [others EXCEPT ![a] = {}]
      /\ apc' = [apc EXCEPT ![a] = IF DOMAIN rest = {} THEN "idle" ELSE "snapshot"]
      /\ UNCHANGED disk
  BY DEF DeleteSettles, NoRun
<1>2. UNCHANGED plan
  BY ActorDoes
<1>3. PICK c \in Runs : c = cur[a] /\ c \in DOMAIN list[a]
  BY <1>1, ListIs DEF IndInv, Types, Cleaning, CleaningOK
<1>4. DOMAIN rest = DOMAIN list[a] \ {cur[a]} /\ \A r \in DOMAIN rest : rest[r] = list[a][r]
  OBVIOUS
<1> HIDE DEF rest
<1>5. /\ list'[a] = rest /\ apc'[a] = (IF DOMAIN rest = {} THEN "idle" ELSE "snapshot")
      /\ \A b \in Actors : b # a => ActSame(b)
  BY <1>1 DEF IndInv, Types, ActType, ActSame
<1>6. \/ state[c] # "deleting" /\ UNCHANGED <<state, payload>>
      \/ /\ state[c] = "deleting" /\ apc[a] = "settle"
         /\ state' = [state EXCEPT ![c] = "removed"] /\ payload' = [payload EXCEPT ![c] = Blank]
      \/ /\ state[c] = "deleting" /\ apc[a] = "failed"
         /\ state' = [state EXCEPT ![c] = list[a][c].status] /\ payload' = [payload EXCEPT ![c] = list[a][c]]
  BY <1>1, <1>3 DEF DeleteSettles
<1>7. /\ \A r \in Runs : r # c => RowSame(r)
      /\ \/ state[c] # "deleting" /\ RowSame(c)
         \/ state[c] = "deleting" /\ apc[a] = "settle" /\ state'[c] = "removed" /\ payload'[c] = Blank
         \/ /\ state[c] = "deleting" /\ apc[a] = "failed" /\ state'[c] = list[a][c].status
            /\ payload'[c] = list[a][c]
  BY <1>2, <1>6 DEF RowSame, IndInv, Types, RowType
<1> QED
  BY <1>1, <1>3, <1>4, <1>5, <1>7
-----------------------------------------------------------------------------
(* The payloads keep telling the truth.                                    *)

\* A process at a place where it has no worker.
LEMMA WorkerIdle ==
  ASSUME NEW p \in Procs, ppc'[p] \notin {"work", "clean", "finish"}, wpc'[p] = "none", latest'[p] = None
  PROVE  WorkerTells(p)'
  BY DEF WorkerTells

\* An actor that has nothing to clean up.
LEMMA ListIdle ==
  ASSUME NEW a \in Actors, apc'[a] = "idle", a \in Procs => ppc'[a] \notin {"clean", "delete"}
  PROVE  ListTells(a)'
  BY DEF ListTells

\* Where a process has no worker.
LEMMA NoLatest ==
  ASSUME IndInv, Telling, NEW p \in Procs, ppc[p] # "work"
  PROVE  wpc[p] = "none" /\ latest[p] = None /\ p \in Actors
  BY NoWorker DEF Telling, WorkerTells

\* The row of a run that is queued.
LEMMA RowQueued ==
  ASSUME Telling, Queues
  PROVE  (\A r \in Runs : RowTells(r)') /\ EndedStays
<1>1. ASSUME NEW r \in Runs PROVE RowTells(r)' /\ (Ended(r) => Ended(r)')
  <2>1. CASE RowSame(r)
    BY <2>1, RowKept DEF Telling, RowSame, Ended
  <2>2. CASE state[r] = "none" /\ state'[r] = "queued" /\ payload'[r] = payload[r]
    BY <2>2 DEF Telling, RowTells, Sound, Fits, Ended, Finished
  <2> QED
    BY <2>1, <2>2 DEF Queues
<1> QED
  BY <1>1 DEF EndedStays

\* All rows are as before.
LEMMA RowsSame ==
  ASSUME Telling, UNCHANGED <<state, payload, plan>>
  PROVE  (\A r \in Runs : RowTells(r)') /\ EndedStays
  BY RowKept DEF Telling, RowSame, EndedStays, Ended

\* A run that gets its result.
LEMMA RowEnds ==
  ASSUME NEW r \in Runs, RowTells(r), NEW st \in {"failed", "cancelled"}, Ends(r, st)
  PROVE  RowTells(r)' /\ Ended(r)'
  BY DEF RowTells, Ends, Sound, Fits, Ended, Finished

\* The paths on disk.
LEMMA DiskKept == ASSUME Telling, disk' = disk PROVE DiskFits'
  BY DEF Telling, DiskFits

\* Commands about schedules, and steps that change nothing here.
LEMMA StillTells ==
  ASSUME IndInv, Telling, Sparing, AllStill, UNCHANGED <<state, payload, plan>>
  PROVE  Telling' /\ Sparing'
<1>1. Telling'
  BY RowsSame, TellingRows DEF AllStill
<1>2. Sparing'
  BY SparingKept DEF AllStill
<1> QED
  BY <1>1, <1>2

\* enqueue.
LEMMA EnqueueTells ==
  ASSUME IndInv, Telling, Sparing, NEW s \in Schedules \cup {None}, Enqueue(s)
  PROVE  Telling' /\ Sparing'
<1>1. AllStill /\ Queues
  BY EnqueueDoes
<1>2. Telling'
  BY <1>1, RowQueued, TellingRows DEF AllStill
<1>3. Sparing'
  BY <1>1, SparingKept DEF AllStill, Queues, RowSame
<1> QED
  BY <1>2, <1>3

\* enqueue_due.
LEMMA EnqueueDueTells ==
  ASSUME IndInv, Telling, Sparing, NEW p \in Procs, EnqueueDue(p)
  PROVE  Telling' /\ Sparing'
<1>1. /\ Queues /\ ppc[p] = "lead" /\ ppc' = [ppc EXCEPT ![p] = "claim"]
      /\ UNCHANGED <<disk, lock, stopping, job, wpc, mem, watch, latest, apc, list, cur, others>>
  BY EnqueueDueDoes
<1>2. ppc'[p] = "claim" /\ \A q \in Procs : q # p => ppc'[q] = ppc[q]
  BY <1>1 DEF IndInv, Types, ProcType
<1>3. wpc[p] = "none" /\ latest[p] = None /\ p \in Actors /\ apc[p] = "idle"
  BY <1>1, NoLatest, NoWorker
<1>4. RestSame(p)
  BY <1>1, <1>2 DEF RestSame, ProcSame, ActSame
<1>5. WorkerTells(p)' /\ ListTells(p)' /\ DiskFits'
  BY <1>1, <1>2, <1>3, WorkerIdle, ListIdle, DiskKept
<1>6. Telling'
  BY <1>1, <1>3, <1>4, <1>5, RowQueued, TellingStep
<1>7. Sparing'
  BY <1>1, <1>2, SparingKept DEF Queues, RowSame
<1> QED
  BY <1>6, <1>7

\* cancel.
LEMMA CancelTells ==
  ASSUME IndInv, Telling, Sparing, NEW r \in Runs, Cancel(r)
  PROVE  Telling' /\ Sparing'
<1>1. /\ AllStill /\ \A q \in Runs : q # r => RowSame(q)
      /\ RowSame(r) \/ (state[r] = "queued" /\ Ends(r, "cancelled"))
  BY CancelDoes
<1>2. RowTells(r)' /\ (Ended(r) => Ended(r)')
  <2>1. CASE RowSame(r)
    BY <2>1, RowKept DEF Telling, RowSame, Ended
  <2>2. CASE Ends(r, "cancelled")
    BY <2>2, RowEnds DEF Telling
  <2> QED
    BY <1>1, <2>1, <2>2
<1>3. ASSUME NEW q \in Runs, q # r PROVE RowTells(q)' /\ (Ended(q) => Ended(q)')
  BY <1>1, <1>3, RowKept DEF Telling, RowSame, Ended
<1>4. EndedStays
  BY <1>2, <1>3 DEF EndedStays
<1>5. Telling'
  BY <1>1, <1>2, <1>3, <1>4, TellingRows DEF AllStill
<1>6. Sparing'
  BY <1>1, SparingKept DEF AllStill, RowSame, Ends
<1> QED
  BY <1>5, <1>6

\* The runs that an actor marks as deleting.
LEMMA MarkTells ==
  ASSUME IndInv, Telling, NEW a \in Actors, NEW R \in SUBSET Runs, \A r \in R : Deletable(r), MarkDeleting(a, R),
         UNCHANGED <<disk, ppc, stopping, job, wpc, mem, watch, latest>>, a \in Procs => ppc[a] # "clean"
  PROVE  Telling'
<1>1. /\ \A r \in R : state'[r] = "deleting" /\ payload'[r] = payload[r] /\ plan'[r] = plan[r]
      /\ \A r \in Runs : r \notin R => RowSame(r)
      /\ DOMAIN list'[a] = R /\ \A r \in R : list'[a][r] = payload[r]
      /\ apc'[a] \in {"idle", "snapshot"}
      /\ \A b \in Actors : b # a => ActSame(b)
  BY MarkDoes
<1>2. ASSUME NEW r \in Runs PROVE RowTells(r)' /\ (Ended(r) => Ended(r)') /\ (r \in R => Ended(r)')
  <2>1. CASE r \in R
    BY <1>1, <2>1 DEF Telling, RowTells, Sound, Fits, Ended, Finished
  <2>2. CASE r \notin R
    BY <1>1, <2>2, RowKept DEF Telling, RowSame, Ended
  <2> QED
    BY <2>1, <2>2
<1>3. ListTells(a)'
  <2>1. \A r \in R : Fits(r, list'[a][r]) /\ Sound(list'[a][r]) /\ Ended(r)'
    BY <1>1, <1>2 DEF Telling, RowTells
  <2> QED
    BY <1>1, <2>1 DEF ListTells, Fits, Sound
<1>4. RestSame(a) /\ EndedStays
  BY <1>1, <1>2 DEF RestSame, ProcSame, EndedStays
<1>5. a \in Procs => WorkerTells(a)'
  BY WorkerKept DEF Telling, ProcSame
<1> QED
  BY <1>2, <1>3, <1>4, <1>5, DiskKept, TellingStep

\* The delete command.
LEMMA UserTells ==
  ASSUME IndInv, Telling, Sparing, NEW u \in Users, DeleteRuns(u) \/ DropCommand(u)
  PROVE  Telling' /\ Sparing'
<1>1. u \in Actors /\ u \notin Procs
  BY ActorsAssumption, ProcsAct
<1>2. UNCHANGED <<disk, lock, ppc, stopping, job, wpc, mem, watch, latest>>
  BY DEF DeleteRuns, DropCommand, procVars, workVars
<1>3. Sparing'
  BY DEF Sparing
<1>4. CASE DeleteRuns(u)
  <2>1. PICK R \in SUBSET {r \in Runs : Deletable(r)} : MarkDeleting(u, R)
    BY <1>4 DEF DeleteRuns
  <2>2. R \in SUBSET Runs /\ \A r \in R : Deletable(r)
    BY <2>1
  <2> QED
    BY <1>1, <1>2, <1>3, <2>1, <2>2, MarkTells
<1>5. CASE DropCommand(u)
  <2>1. UNCHANGED <<state, payload, plan>> /\ Forget(u)
    BY <1>5 DEF DropCommand, rowVars
  <2>2. apc'[u] = "idle" /\ \A b \in Actors : b # u => ActSame(b)
    BY <1>1, <2>1, ForgetDoes
  <2>3. RestSame(u)
    BY <1>2, <2>2 DEF RestSame, ProcSame
  <2>4. ListTells(u)' /\ DiskFits'
    BY <1>1, <1>2, <2>2, ListIdle, DiskKept
  <2> QED
    BY <1>1, <1>3, <2>1, <2>3, <2>4, RowsSame, TellingStep
<1> QED
  BY <1>4, <1>5

\* The lock is taken or given back, a process leaves or is started again.
LEMMA LockTells ==
  ASSUME IndInv, Telling, Sparing, NEW p \in Procs, TryLock(p) \/ RecoverFails(p) \/ Leave(p) \/ Restart(p)
  PROVE  Telling' /\ Sparing'
<1>1. /\ UNCHANGED <<state, payload, plan, disk, job, wpc, mem, watch, latest, apc, list, cur, others>>
      /\ ppc[p] \in {"idle", "recover", "lead", "down"} /\ ppc'[p] \in {"recover", "idle", "down"}
      /\ \A q \in Procs : q # p => ppc'[q] = ppc[q] /\ stopping'[q] = stopping[q]
  BY LockDoes
<1>2. wpc[p] = "none" /\ latest[p] = None /\ p \in Actors /\ apc[p] = "idle"
  BY <1>1, NoLatest, NoWorker
<1>3. RestSame(p)
  BY <1>1 DEF RestSame, ProcSame, ActSame
<1>4. WorkerTells(p)' /\ ListTells(p)' /\ DiskFits'
  BY <1>1, <1>2, WorkerIdle, ListIdle, DiskKept
<1>5. Telling'
  BY <1>1, <1>2, <1>3, <1>4, RowsSame, TellingStep
<1>6. Sparing'
  BY <1>1, SparingKept
<1> QED
  BY <1>5, <1>6

\* A stop is asked for, or a process dies.
LEMMA StopTells ==
  ASSUME IndInv, Telling, Sparing, NEW p \in Procs, Crash(p) \/ \E how \in {"drain", "stop"} : Stop(p, how)
  PROVE  Telling' /\ Sparing'
<1>1. CASE Crash(p)
  <2>1. /\ UNCHANGED <<state, payload, plan, disk>> /\ RestSame(p)
        /\ ppc'[p] = "down" /\ wpc'[p] = "none" /\ latest'[p] = None /\ apc'[p] = "idle" /\ DOMAIN list'[p] = {}
    BY <1>1, CrashDoes
  <2>2. WorkerTells(p)' /\ ListTells(p)' /\ DiskFits'
    BY <2>1, ProcsAct, WorkerIdle, ListIdle, DiskKept
  <2>3. Telling'
    BY <2>1, <2>2, ProcsAct, RowsSame, TellingStep
  <2>4. Sparing'
    BY <2>1, ProcsAct, SparingKept DEF RestSame, ProcSame, ActSame
  <2> QED
    BY <2>3, <2>4
<1>2. ASSUME NEW how \in {"drain", "stop"}, Stop(p, how) PROVE Telling' /\ Sparing'
  <2>1. /\ UNCHANGED <<state, payload, plan, disk, lock, ppc, job, wpc, mem, watch, latest, apc, list, cur, others>>
        /\ \A q \in Procs : q # p => stopping'[q] = stopping[q]
    BY <1>2, StopDoes
  <2>2. RestSame(p)
    BY <2>1 DEF RestSame, ProcSame, ActSame
  <2>3. WorkerTells(p)'
    BY <2>1 DEF Telling, WorkerTells, Sound, Fits
  <2>4. ListTells(p)' /\ EndedStays
    <3>1. EndedStays
      BY <2>1, RowsSame
    <3>2. ListTells(p) /\ p \in Actors
      BY ProcsAct DEF Telling
    <3> QED
      BY <2>1, <3>1, <3>2 DEF ListTells, Ended, Cleans, Sound, Fits
  <2>5. Telling'
    BY <2>1, <2>2, <2>3, <2>4, ProcsAct, RowsSame, DiskKept, TellingStep
  <2>6. Sparing'
    BY <2>1, SparingKept
  <2> QED
    BY <2>5, <2>6
<1> QED
  BY <1>1, <1>2

\* recover.
LEMMA RecoverTells ==
  ASSUME IndInv, Telling, Sparing, NEW p \in Procs, Recover(p)
  PROVE  Telling' /\ Sparing'
<1>1. /\ ppc[p] = "recover" /\ ppc' = [ppc EXCEPT ![p] = "lead"]
      /\ UNCHANGED <<disk, lock, stopping, job, wpc, mem, watch, latest, apc, list, cur, others>>
      /\ \A r \in Runs : IF state[r] \in {"running", "deleting"} THEN Ends(r, "failed") ELSE RowSame(r)
  BY RecoverDoes
<1>2. ppc'[p] = "lead" /\ \A q \in Procs : q # p => ppc'[q] = ppc[q]
  BY <1>1 DEF IndInv, Types, ProcType
<1>3. wpc[p] = "none" /\ latest[p] = None /\ p \in Actors /\ apc[p] = "idle"
  BY <1>1, NoLatest, NoWorker
<1>4. RestSame(p)
  BY <1>1, <1>2 DEF RestSame, ProcSame, ActSame
<1>5. WorkerTells(p)' /\ ListTells(p)' /\ DiskFits'
  BY <1>1, <1>2, <1>3, WorkerIdle, ListIdle, DiskKept
<1>6. ASSUME NEW r \in Runs PROVE RowTells(r)' /\ (Ended(r) => Ended(r)')
  <2>1. CASE Ends(r, "failed")
    BY <2>1, RowEnds DEF Telling
  <2>2. CASE RowSame(r)
    BY <2>2, RowKept DEF Telling, RowSame, Ended
  <2> QED
    BY <1>1, <2>1, <2>2
<1>7. Telling'
  BY <1>3, <1>4, <1>5, <1>6, TellingStep DEF EndedStays
<1>8. Sparing'
  BY <1>1, <1>2, SparingKept DEF RowSame, Ends
<1> QED
  BY <1>7, <1>8

\* claim.
LEMMA ClaimTells ==
  ASSUME IndInv, Telling, Sparing, NEW p \in Procs, Claim(p)
  PROVE  Telling' /\ Sparing'
<1>1. /\ ppc[p] = "claim"
      /\ UNCHANGED <<payload, plan, disk, lock, stopping, wpc, mem, watch, latest, apc, list, cur, others>>
      /\ \A q \in Procs : q # p => ppc'[q] = ppc[q] /\ job'[q] = job[q]
      /\ \/ ppc'[p] = "lead" /\ UNCHANGED state
         \/ \E r \in Runs : /\ ppc'[p] = "check" /\ job'[p] = r /\ state[r] = "queued" /\ state'[r] = "running"
                            /\ \A q \in Runs : q # r => state'[q] = state[q]
  BY ClaimDoes
<1>2. wpc[p] = "none" /\ latest[p] = None /\ p \in Actors /\ apc[p] = "idle"
  BY <1>1, NoLatest, NoWorker
<1>3. RestSame(p)
  BY <1>1 DEF RestSame, ProcSame, ActSame
<1>4. WorkerTells(p)' /\ ListTells(p)' /\ DiskFits'
  BY <1>1, <1>2, WorkerIdle, ListIdle, DiskKept
<1>5. ASSUME NEW r \in Runs PROVE RowTells(r)' /\ (Ended(r) => Ended(r)')
  <2>1. state'[r] = state[r] \/ (state[r] = "queued" /\ state'[r] = "running")
    BY <1>1
  <2> QED
    BY <1>1, <2>1 DEF Telling, RowTells, Sound, Fits, Ended, Finished
<1>6. Telling'
  BY <1>2, <1>3, <1>4, <1>5, TellingStep DEF EndedStays
<1>7. Sparing'
  <2>1. \A r \in Runs : state'[r] = state[r] \/ (state[r] = "queued" /\ state'[r] = "running")
    BY <1>1
  <2> QED
    BY <1>1, <2>1, SparingKept
<1> QED
  BY <1>6, <1>7

\* The tick fails.
LEMMA TickFailsTells ==
  ASSUME IndInv, Telling, Sparing, NEW p \in Procs, TickFails(p)
  PROVE  Telling' /\ Sparing'
<1>1. /\ ppc[p] \in {"claim", "check", "finish", "retain", "delete"} /\ ppc'[p] = "lead"
      /\ UNCHANGED <<state, payload, plan, disk, lock, stopping, wpc, watch, latest>> /\ RestSame(p)
      /\ wpc[p] = "none" /\ apc'[p] = "idle"
  BY TickFailsDoes
<1>2. latest[p] = None /\ p \in Actors
  BY <1>1, NoLatest
<1>3. WorkerTells(p)' /\ ListTells(p)' /\ DiskFits'
  BY <1>1, <1>2, WorkerIdle, ListIdle, DiskKept
<1>4. Telling'
  BY <1>1, <1>2, <1>3, RowsSame, TellingStep
<1>5. Sparing'
  BY <1>1, ProcsAct, SparingKept DEF RestSame, ProcSame, ActSame
<1> QED
  BY <1>4, <1>5

\* The run p works on has a row like any other.
LEMMA StoreTells ==
  ASSUME IndInv, Telling, NEW r \in Runs, state[r] = "running", NEW x, Stores(r, x),
         Sound(x), Fits(r, x), x.status = "running"
  PROVE  (\A q \in Runs : RowTells(q)') /\ EndedStays
<1>1. RowTells(r)'
  <2>1. payload'[r] = payload[r] \/ payload'[r] = x
    BY DEF Stores
  <2> QED
    BY <2>1 DEF Stores, Telling, RowTells, Sound, Fits, Finished
<1>2. \A q \in Runs : q # r => RowTells(q)'
  BY RowKept DEF Stores, Telling
<1> QED
  BY <1>1, <1>2 DEF EndedStays, Ended, Stores

\* The worker is started and watched.
LEMMA WatchTells ==
  ASSUME IndInv, Telling, Sparing, NEW p \in Procs, StartWorker(p) \/ PollCancel(p) \/ PollStore(p)
  PROVE  Telling' /\ Sparing'
<1>1. CASE StartWorker(p)
  <2>1. /\ ppc[p] = "check" /\ ppc'[p] = "work" /\ wpc'[p] = "start" /\ mem'[p] = Blank /\ watch'[p] = Blank
        /\ UNCHANGED <<state, payload, plan, disk, lock, stopping, job, latest, apc, list, cur, others>> /\ RestSame(p)
    BY <1>1, StartDoes
  <2>2. latest[p] = None /\ p \in Actors /\ apc[p] = "idle"
    BY <2>1, NoLatest, NoWorker
  <2>3. WorkerTells(p)'
    BY <2>1, <2>2, BlankSays DEF WorkerTells, Sound, Fits
  <2>4. ListTells(p)' /\ DiskFits'
    BY <2>1, <2>2, ListIdle, DiskKept
  <2>5. Telling'
    BY <2>1, <2>2, <2>3, <2>4, RowsSame, TellingStep
  <2>6. Sparing'
    BY <2>1, SparingKept DEF RestSame, ProcSame
  <2> QED
    BY <2>5, <2>6
<1>2. CASE PollCancel(p)
  <2>1. /\ ppc[p] = "work" /\ wpc[p] # "done" /\ latest'[p] = watch[p] /\ RestSame(p)
        /\ UNCHANGED <<state, payload, plan, disk, lock, ppc, stopping, job, wpc, mem, watch, apc, list, cur, others>>
    BY <1>2, PollDoes
  <2>3. WorkerTells(p)'
    BY <2>1 DEF Telling, WorkerTells, Sound, Fits
  <2>4. ListTells(p)' /\ DiskFits' /\ p \in Actors
    BY <2>1, NoWorker, ListIdle, DiskKept
  <2>5. Telling'
    BY <2>1, <2>3, <2>4, RowsSame, TellingStep
  <2>6. Sparing'
    BY <2>1, SparingKept
  <2> QED
    BY <2>5, <2>6
<1>3. CASE PollStore(p)
  <2>1. /\ ppc[p] = "work" /\ latest[p] # None /\ latest'[p] = None /\ job[p] \in Runs
        /\ Stores(job[p], latest[p]) /\ RestSame(p)
        /\ UNCHANGED <<disk, lock, ppc, stopping, job, wpc, mem, watch, apc, list, cur, others>>
    BY <1>3, StoreDoes
  <2>2. state[job[p]] = "running"
    BY <2>1 DEF IndInv, Working, WorkingOK
  <2>3. Sound(latest[p]) /\ Fits(job[p], latest[p]) /\ latest[p].status = "running"
    BY <2>1 DEF Telling, WorkerTells
  <2>4. (\A q \in Runs : RowTells(q)') /\ EndedStays
    BY <2>1, <2>2, <2>3, StoreTells
  <2>5. WorkerTells(p)'
    BY <2>1 DEF Telling, WorkerTells, Sound, Fits
  <2>6. ListTells(p)' /\ DiskFits' /\ p \in Actors
    BY <2>1, NoWorker, ListIdle, DiskKept
  <2>7. Telling'
    BY <2>1, <2>4, <2>5, <2>6, TellingStep
  <2>8. Sparing'
    BY <2>1, SparingKept DEF Stores
  <2> QED
    BY <2>7, <2>8
<1> QED
  BY <1>1, <1>2, <1>3

\* The worker thread.
LEMMA WorkerTellsOn ==
  ASSUME IndInv, Telling, Sparing, NEW p \in Procs, WorkerNext(p)
  PROVE  Telling' /\ Sparing'
<1>1. /\ ppc[p] = "work" /\ wpc[p] # "none" /\ job[p] \in Runs /\ state[job[p]] = "running"
      /\ UNCHANGED <<state, plan, lock, ppc, stopping, job, latest, apc, list, cur, others>> /\ RestSame(p)
  BY WorkerDoes
<1>2. WorkerTells(p)
  BY DEF Telling
<1>3. ListTells(p)' /\ p \in Actors
  BY <1>1, NoWorker, ListIdle
<1>4. Sparing'
  BY <1>1, SparingKept
<1>5. CASE UNCHANGED payload /\ WorkerTells(p)' /\ DiskFits'
  BY <1>1, <1>3, <1>4, <1>5, RowsSame, TellingStep
<1>6. CASE Records(p)
  <2>1. /\ wpc[p] = "start" /\ wpc'[p] = "send" /\ UNCHANGED <<disk, watch>>
        /\ mem'[p].path \in Paths /\ mem'[p].owned = mem[p].owned /\ mem'[p].status = mem[p].status
        /\ UniquePaths => mem'[p].path = job[p]
    BY <1>6 DEF Records
  <2>2. mem'[p].path # None
    BY <2>1, BoundsAssumption
  <2>3. Sound(mem'[p]) /\ Fits(job[p], mem'[p]) /\ mem'[p].status = "running" /\ ~mem'[p].owned
    BY <1>2, <2>1 DEF WorkerTells, Sound, Fits
  <2>4. WorkerTells(p)'
    BY <1>1, <1>2, <2>1, <2>2, <2>3 DEF WorkerTells, Sound, Fits
  <2>5. Stores(job[p], mem'[p])
    BY <1>6 DEF Records
  <2>6. (\A q \in Runs : RowTells(q)') /\ EndedStays
    BY <1>1, <2>3, <2>5, StoreTells
  <2> QED
    BY <1>1, <1>3, <1>4, <2>1, <2>4, <2>6, DiskKept, TellingStep
<1>7. CASE GivesUp(p)
  <2>1. PICK x \in Payload : /\ EndsWith(p, x, FALSE) /\ x.owned = mem[p].owned
                             /\ UniquePaths => x.path \in {None, mem[p].path, job[p]}
    BY <1>7 DEF GivesUp
  <2>2. wpc[p] \in {"start", "create"} /\ UNCHANGED <<payload, disk, watch>>
    BY <1>7 DEF GivesUp
  <2>3. Sound(mem'[p]) /\ Fits(job[p], mem'[p])
    BY <1>1, <1>2, <2>1, <2>2 DEF WorkerTells, EndsWith, Sound, Fits, Finished
  <2>4. WorkerTells(p)'
    BY <1>1, <1>2, <2>1, <2>2, <2>3 DEF WorkerTells, EndsWith, Sound, Fits
  <2> QED
    BY <1>5, <2>2, <2>4, DiskKept
<1>8. CASE Sends(p)
  <2>1. WorkerTells(p)'
    BY <1>1, <1>2, <1>8 DEF Sends, WorkerTells, Sound, Fits
  <2> QED
    BY <1>5, <1>8, <2>1, DiskKept DEF Sends
<1>9. CASE Creates(p)
  <2>1. WorkerTells(p)'
    <3>1. Sound(mem'[p]) /\ Fits(job[p], mem'[p]) /\ mem'[p].status = "running" /\ mem'[p].owned
      BY <1>1, <1>2, <1>9 DEF Creates, WorkerTells, Sound, Fits
    <3> QED
      BY <1>1, <1>2, <1>9, <3>1 DEF Creates, WorkerTells, Sound, Fits
  <2>2. DiskFits'
    <3>1. disk' = [disk EXCEPT ![mem[p].path] = job[p]] /\ wpc[p] = "create"
      BY <1>9 DEF Creates
    <3>2. UniquePaths => mem[p].path = job[p]
      BY <1>1, <1>2, <3>1 DEF WorkerTells, Fits
    <3>3. disk \in [Paths -> 0 .. MaxRuns]
      BY DEF IndInv, Types, RestType
    <3> QED
      BY <3>1, <3>2, <3>3 DEF Telling, DiskFits
  <2> QED
    BY <1>5, <1>9, <2>1, <2>2 DEF Creates
<1>10. CASE Finishes(p)
  <2>1. PICK ok \in BOOLEAN : EndsWith(p, mem[p], ok)
    BY <1>10 DEF Finishes
  <2>2. wpc[p] = "export" /\ UNCHANGED <<payload, disk, watch>>
    BY <1>10 DEF Finishes
  <2>3. WorkerTells(p)'
    BY <1>1, <1>2, <2>1, <2>2 DEF WorkerTells, EndsWith, Sound, Fits
  <2> QED
    BY <1>5, <2>2, <2>3, DiskKept
<1>11. CASE Panics(p)
  <2>1. WorkerTells(p)'
    BY <1>1, <1>2, <1>11 DEF Panics, WorkerTells, EndsWith, Sound, Fits
  <2> QED
    BY <1>5, <1>11, <2>1, DiskKept DEF Panics
<1> QED
  BY <1>6, <1>7, <1>8, <1>9, <1>10, <1>11, WorkerDoesOne

\* The end of the run: join, cleanup, finish.
LEMMA EndTells ==
  ASSUME IndInv, Telling, Sparing, NEW p \in Procs, Join(p) \/ Cleaned(p) \/ Finish(p)
  PROVE  Telling' /\ Sparing'
<1>1. WorkerTells(p) /\ ListTells(p) /\ p \in Actors
  BY ProcsAct DEF Telling
<1>2. CASE Join(p)
  <2>1. /\ ppc[p] = "work" /\ wpc[p] = "done" /\ wpc'[p] = "none" /\ latest[p] = None
        /\ UNCHANGED <<state, payload, plan, disk, lock, stopping, job, mem, latest, cur, others>> /\ RestSame(p)
        /\ IF mem[p].status = "success"
             THEN ppc'[p] = "finish" /\ apc'[p] = "idle"
             ELSE /\ ppc'[p] = "clean" /\ apc'[p] = "snapshot"
                  /\ DOMAIN list'[p] = {job[p]} /\ list'[p][job[p]] = mem[p]
    BY <1>2, JoinDoes
  <2>2. WorkerTells(p)'
    BY <1>1, <2>1 DEF WorkerTells, Sound, Fits
  <2>3. ListTells(p)'
    <3>1. CASE mem[p].status = "success"
      BY <1>1, <2>1, <3>1, ListIdle
    <3>2. CASE mem[p].status # "success"
      <4>1. Sound(mem[p]) /\ Fits(job[p], mem[p])
        BY <1>1, <2>1 DEF WorkerTells
      <4>2. \A r \in DOMAIN list'[p] : Fits(r, list'[p][r]) /\ Sound(list'[p][r]) /\ Cleans(p, r)'
        BY <2>1, <3>2, <4>1 DEF Cleans
      <4> QED
        BY <2>1, <3>2, <4>2 DEF ListTells, Fits, Sound
    <3> QED
      BY <3>1, <3>2
  <2>4. Telling'
    BY <1>1, <2>1, <2>2, <2>3, RowsSame, DiskKept, TellingStep
  <2>5. Sparing'
    BY <2>1, ProcsAct, SparingKept DEF RestSame, ProcSame, ActSame
  <2> QED
    BY <2>4, <2>5
<1>3. CASE Cleaned(p)
  <2>1. /\ ppc[p] = "clean" /\ ppc'[p] = "finish" /\ apc[p] \in {"settle", "failed"} /\ mem'[p] = list[p][job[p]]
        /\ UNCHANGED <<state, payload, plan, disk, lock, stopping, job, wpc, watch, latest>> /\ RestSame(p)
        /\ apc'[p] = "idle" /\ DOMAIN list'[p] = {}
    BY <1>3, CleanedDoes
  <2>2. wpc[p] = "none" /\ latest[p] = None
    BY <2>1, NoLatest
  <2>3. Sound(mem'[p]) /\ Fits(job[p], mem'[p])
    <3>1. /\ DOMAIN list[p] = {job[p]} /\ list[p][job[p]].status # "success"
          /\ Fits(job[p], list[p][job[p]])
      BY <1>1, <2>1 DEF ListTells
    <3>2. CASE apc[p] = "settle" /\ job[p] = cur[p]
      BY <1>1, <2>1, <3>1, <3>2 DEF ListTells, Sound
    <3>3. CASE ~(apc[p] = "settle" /\ job[p] = cur[p])
      BY <1>1, <2>1, <3>1, <3>3 DEF ListTells
    <3> QED
      BY <2>1, <3>1, <3>2, <3>3
  <2>4. WorkerTells(p)'
    BY <2>1, <2>2, <2>3 DEF WorkerTells, Sound, Fits
  <2>5. ListTells(p)' /\ DiskFits'
    BY <1>1, <2>1, ListIdle, DiskKept
  <2>6. Telling'
    BY <1>1, <2>1, <2>4, <2>5, RowsSame, TellingStep
  <2>7. Sparing'
    BY <2>1, ProcsAct, SparingKept DEF RestSame, ProcSame, ActSame
  <2> QED
    BY <2>6, <2>7
<1>4. CASE Finish(p)
  <2>1. /\ ppc[p] = "finish" /\ ppc'[p] \in {"retain", "lead"} /\ job[p] \in Runs /\ state[job[p]] = "running"
        /\ mem[p].status \in Finished /\ state'[job[p]] = mem[p].status /\ payload'[job[p]] = mem[p]
        /\ \A q \in Runs : q # job[p] => RowSame(q)
        /\ UNCHANGED <<plan, disk, lock, stopping, wpc, watch, latest, apc, list, cur, others>> /\ RestSame(p)
    BY <1>4, FinishDoes
  <2>2. wpc[p] = "none" /\ latest[p] = None /\ apc[p] = "idle"
    BY <2>1, NoLatest, NoWorker
  <2>3. WorkerTells(p)' /\ ListTells(p)' /\ DiskFits'
    BY <1>1, <2>1, <2>2, WorkerIdle, ListIdle, DiskKept
  <2>4. ASSUME NEW r \in Runs PROVE RowTells(r)' /\ (Ended(r) => Ended(r)')
    <3>1. CASE r = job[p]
      <4>1. Sound(mem[p]) /\ Fits(job[p], mem[p])
        BY <1>1, <2>1 DEF WorkerTells
      <4> QED
        BY <2>1, <3>1, <4>1 DEF RowTells, Ended, Finished, Sound, Fits
    <3>2. CASE r # job[p]
      BY <2>1, <3>2, RowKept DEF Telling, RowSame, Ended
    <3> QED
      BY <3>1, <3>2
  <2>5. Telling'
    BY <1>1, <2>1, <2>3, <2>4, TellingStep DEF EndedStays
  <2>6. Sparing'
    <3>1. \A r \in Runs : r = job[p] \/ state'[r] = state[r]
      BY <2>1 DEF RowSame
    <3>2. state'[job[p]] # "deleting"
      BY <2>1 DEF Finished
    <3> QED
      BY <2>1, <3>1, <3>2, SparingKept DEF RestSame, ProcSame
  <2> QED
    BY <2>5, <2>6
<1> QED
  BY <1>2, <1>3, <1>4

-----------------------------------------------------------------------------
(* Retention spares the newest.                                            *)

\* A nonempty finite set of numbers has a greatest element.
LEMMA Newest ==
  ASSUME NEW W \in SUBSET Nat, IsFiniteSet(W), W # {}
  PROVE  \E m \in W : \A n \in W : n <= m
<1>1. /\ Cardinality(W) \in Nat
      /\ \A s \in W : RankIn(W, s) \in 1 .. Cardinality(W)
      /\ \A n \in 1 .. Cardinality(W) : \E s \in W : RankIn(W, s) = n
  BY TakenRanks
<1>2. Cardinality(W) \in 1 .. Cardinality(W)
  <2>1. Cardinality(W) # 0
    BY FS_EmptySet
  <2> QED
    BY <1>1, <2>1
<1>3. PICK m \in W : RankIn(W, m) = Cardinality(W)
  BY <1>1, <1>2
<1>4. ASSUME NEW n \in W PROVE ~(m < n)
  BY <1>1, <1>3, Ranks
<1>5. \A n \in W : n \in Nat
  OBVIOUS
<1> QED
  BY <1>4, <1>5

\* Enough newer runs, as soon as a set of them is large enough.
LEMMA EnoughBy ==
  ASSUME NEW N \in SUBSET Runs, NEW M \in SUBSET N, Cardinality(M) >= Retention
  PROVE  Cardinality(N) >= Retention
<1>1. IsFiniteSet(Runs)
  BY FS_Interval, BoundsAssumption DEF Runs
<1>2. IsFiniteSet(N) /\ Cardinality(M) <= Cardinality(N)
  BY <1>1, FS_Subset
<1>3. Cardinality(N) \in Nat /\ Cardinality(M) \in Nat
  BY <1>1, FS_Subset, FS_CardinalityType
<1> QED
  BY <1>2, <1>3, BoundsAssumption

\* Marking runs that all have enough newer ones takes them from nobody: the newest of
\* the marked has its own, which are not marked.
LEMMA MarkSpares ==
  ASSUME NEW R \in SUBSET Runs, \A r \in R : Enough(r), NEW q \in Runs, Enough(q),
         \A r \in Runs : plan'[r] = plan[r] /\ (r \notin R => state'[r] = state[r])
  PROVE  Enough(q)'
<1>1. \A n \in Runs : n \in Nat
  BY BoundsAssumption DEF Runs
<1>2. CASE R \cap Newer(q) = {}
  <2>1. Newer(q) \in SUBSET Newer(q)' /\ Newer(q)' \in SUBSET Runs
    BY <1>2 DEF Newer
  <2> QED
    BY <2>1, EnoughBy DEF Enough
<1>3. CASE R \cap Newer(q) # {}
  <2>1. IsFiniteSet(R \cap Newer(q)) /\ R \cap Newer(q) \in SUBSET Nat
    <3>1. IsFiniteSet(Runs)
      BY FS_Interval, BoundsAssumption DEF Runs
    <3>2. R \cap Newer(q) \in SUBSET Runs
      OBVIOUS
    <3> QED
      BY <1>1, <3>1, <3>2, FS_Subset
  <2>2. PICK m \in R \cap Newer(q) : \A n \in R \cap Newer(q) : n <= m
    BY <1>3, <2>1, Newest
  <2>3. m \in Runs /\ m > q /\ plan[m] = plan[q] /\ m \in R
    BY <2>2 DEF Newer
  <2>4. ASSUME NEW n \in Newer(m) PROVE n \in Newer(q)'
    <3>1. n \in Runs /\ n > m /\ plan[n] = plan[m] /\ state[n] = "success"
      BY <2>4 DEF Newer
    <3>2. n > q /\ ~(n <= m)
      BY <1>1, <2>3, <3>1
    <3>3. n \in Newer(q)
      BY <2>3, <3>1, <3>2 DEF Newer
    <3>4. n \notin R
      BY <2>2, <3>2, <3>3
    <3> QED
      BY <2>3, <3>1, <3>2, <3>4 DEF Newer
  <2>5. Newer(m) \in SUBSET Newer(q)' /\ Newer(q)' \in SUBSET Runs
    BY <2>4 DEF Newer
  <2> QED
    BY <2>3, <2>5, EnoughBy DEF Enough
<1> QED
  BY <1>2, <1>3

\* What retention selects has enough newer runs, although the selection goes by the
\* payloads and some of these runs may already be on their way out.
LEMMA SurplusSpared ==
  ASSUME IndInv, Telling, Sparing, Users = {}, NEW j, NEW q \in Surplus(j)
  PROVE  q \in Runs /\ Ended(q) /\ Enough(q)
<1> DEFINE S == {n \in Successes(j) : n > q}
<1>1. ASSUME NEW n \in Successes(j) PROVE n \in Runs /\ plan[n] = plan[j] /\ state[n] \in {"success", "deleting"}
  <2>1. n \in Runs /\ plan[n] = plan[j] /\ state[n] \in Present /\ payload[n].status = "success"
    BY <1>1 DEF Successes
  <2> QED
    BY <2>1 DEF Telling, RowTells, Present, Pending, Finished
<1>2. q \in Successes(j) /\ Cardinality(S) >= Retention
  BY DEF Surplus
<1>3. q \in Runs /\ Ended(q) /\ plan[q] = plan[j]
  BY <1>1, <1>2 DEF Ended, Finished
<1>4. Newer(q) \in SUBSET Runs
  BY DEF Newer
<1>5. CASE \A n \in S : state[n] = "success"
  <2>1. S \in SUBSET Newer(q)
    BY <1>1, <1>3, <1>5 DEF Newer
  <2> HIDE DEF S
  <2> QED
    BY <1>2, <1>3, <1>4, <2>1, EnoughBy DEF Enough
<1>6. CASE \E n \in S : state[n] # "success"
  <2>1. PICK n \in S : state[n] = "deleting"
    BY <1>1, <1>6
  <2>2. n \in Runs /\ n > q /\ plan[n] = plan[q]
    BY <1>1, <1>3
  <2>3. Enough(n)
    BY <2>1, <2>2 DEF Sparing
  <2>4. \A k \in Runs : k \in Nat
    BY BoundsAssumption DEF Runs
  <2>5. \A k \in Runs : k > n => k > q
    BY <1>3, <2>2, <2>4
  <2>6. Newer(n) \in SUBSET Newer(q)
    BY <2>2, <2>5 DEF Newer
  <2> QED
    BY <1>3, <1>4, <2>3, <2>6, EnoughBy DEF Enough
<1> QED
  BY <1>3, <1>5, <1>6

\* What retention selects has ended.
LEMMA SurplusEnded ==
  ASSUME IndInv, Telling, NEW j, NEW q \in Surplus(j)
  PROVE  q \in Runs /\ Ended(q) /\ state[q] \in {"success", "deleting"}
<1>1. q \in Runs /\ state[q] \in Present /\ payload[q].status = "success"
  BY DEF Surplus, Successes
<1> QED
  BY <1>1 DEF Telling, RowTells, Present, Pending, Finished, Ended

\* Retention.
LEMMA RetainTells ==
  ASSUME IndInv, Telling, Sparing, NEW p \in Procs, Retain(p) \/ RetainMark(p) \/ Retained(p)
  PROVE  Telling' /\ Sparing'
<1>1. p \in Actors
  BY ProcsAct
<1>2. CASE Retain(p)
  <2>1. /\ ppc[p] = "retain" /\ ppc'[p] \in {"lead", "delete"} /\ apc'[p] = "idle"
        /\ UNCHANGED <<state, payload, plan, disk, lock, stopping, wpc, mem, watch, latest, apc, cur, others>>
        /\ RestSame(p) /\ DOMAIN list'[p] \subseteq Surplus(job[p])
    BY <1>2, RetainDoes
  <2>2. wpc[p] = "none" /\ latest[p] = None
    BY <2>1, NoLatest
  <2>3. \A q \in DOMAIN list'[p] : Ended(q)'
    BY <2>1, SurplusEnded DEF Ended
  <2>4. WorkerTells(p)' /\ ListTells(p)' /\ DiskFits'
    BY <1>1, <2>1, <2>2, <2>3, WorkerIdle, DiskKept DEF ListTells
  <2>5. Telling'
    BY <1>1, <2>1, <2>4, RowsSame, TellingStep
  <2>6. Sparing'
    <3> SUFFICES ASSUME Users = {} PROVE Sparing'
      BY DEF Sparing
    <3>1. \A q \in DOMAIN list'[p] : Enough(q)
      BY <2>1, SurplusSpared
    <3>2. \A q \in Procs : q # p => q \in Actors /\ ppc'[q] = ppc[q] /\ list'[q] = list[q]
      BY <2>1, ProcsAct DEF RestSame, ProcSame, ActSame
    <3>3. \A q : Enough(q) => Enough(q)'
      BY <2>1 DEF Enough, Newer
    <3> QED
      BY <2>1, <3>1, <3>2, <3>3 DEF Sparing
  <2> QED
    BY <2>5, <2>6
<1>3. CASE RetainMark(p) \/ Retained(p)
  <2> DEFINE R == DOMAIN list[p]
  <2>1. /\ ppc[p] = "delete" /\ UNCHANGED <<disk, lock, stopping, wpc, mem, watch, latest>>
        /\ \A q \in Procs : q # p => ProcSame(q)
        /\ \/ /\ MarkDeleting(p, R) /\ ppc' = ppc /\ job' = job
              /\ \A r \in R : Deletable(r)
           \/ /\ UNCHANGED <<state, payload, plan>> /\ ppc'[p] = "lead" /\ apc'[p] = "idle" /\ DOMAIN list'[p] = {}
              /\ \A b \in Actors : b # p => ActSame(b)
    BY <1>3, RetainMarkDoes
  <2>2. R \in SUBSET Runs
    BY <1>1, ListIs DEF IndInv, Types
  <2>3. wpc[p] = "none" /\ latest[p] = None
    BY <2>1, NoLatest
  <2>4. CASE MarkDeleting(p, R) /\ ppc' = ppc /\ job' = job /\ \A r \in R : Deletable(r)
    <3>1. Telling'
      BY <1>1, <2>1, <2>2, <2>4, MarkTells
    <3>2. Sparing'
      <4> SUFFICES ASSUME Users = {} PROVE Sparing'
        BY DEF Sparing
      <4>1. /\ \A r \in R : state'[r] = "deleting" /\ plan'[r] = plan[r]
            /\ \A r \in Runs : r \notin R => RowSame(r)
            /\ DOMAIN list'[p] = R
            /\ \A b \in Actors : b # p => ActSame(b)
        BY <1>1, <2>2, <2>4, MarkDoes
      <4>2. \A r \in R : Enough(r)
        BY <2>1 DEF Sparing
      <4>3. ASSUME NEW q \in Runs, Enough(q) PROVE Enough(q)'
        <5>1. \A r \in Runs : plan'[r] = plan[r] /\ (r \notin R => state'[r] = state[r])
          BY <4>1 DEF RowSame
        <5> QED
          BY <2>2, <4>2, <4>3, <5>1, MarkSpares
      <4>4. ASSUME NEW q \in Runs, state'[q] = "deleting" PROVE Enough(q)'
        <5>1. q \in R \/ state[q] = "deleting"
          BY <4>1, <4>4 DEF RowSame
        <5> QED
          BY <4>2, <4>3, <5>1 DEF Sparing
      <4>5. ASSUME NEW r \in Procs, ppc'[r] = "delete", NEW q \in DOMAIN list'[r] PROVE Enough(q)'
        <5>1. ppc[r] = "delete" /\ q \in DOMAIN list[r] /\ DOMAIN list[r] \subseteq Runs
          BY <2>4, <4>1, <4>5, ProcsAct, ListIs DEF ActSame, IndInv, Types
        <5> QED
          BY <4>3, <5>1 DEF Sparing
      <4> QED
        BY <4>4, <4>5 DEF Sparing
    <3> QED
      BY <3>1, <3>2
  <2>5. CASE /\ UNCHANGED <<state, payload, plan>> /\ ppc'[p] = "lead" /\ apc'[p] = "idle" /\ DOMAIN list'[p] = {}
             /\ \A b \in Actors : b # p => ActSame(b)
    <3>1. RestSame(p)
      BY <2>1, <2>5 DEF RestSame
    <3>2. WorkerTells(p)' /\ ListTells(p)' /\ DiskFits'
      BY <1>1, <2>1, <2>3, <2>5, WorkerIdle, ListIdle, DiskKept
    <3>3. Telling'
      BY <1>1, <2>5, <3>1, <3>2, RowsSame, TellingStep
    <3>4. Sparing'
      BY <2>1, <2>5, ProcsAct, SparingKept DEF ProcSame, ActSame
    <3> QED
      BY <3>3, <3>4
  <2> QED
    BY <2>1, <2>4, <2>5
<1> QED
  BY <1>2, <1>3

\* The paths of the other runs are read, files are removed, rows settled.
LEMMA ActorTells ==
  ASSUME IndInv, Telling, Sparing, NEW a \in Actors, CleanupSnapshot(a) \/ CleanupRemove(a) \/ DeleteSettles(a)
  PROVE  Telling' /\ Sparing'
<1>1. /\ UNCHANGED <<plan, lock, ppc, stopping, job, wpc, mem, watch, latest>>
      /\ \A q \in Procs : ProcSame(q)
      /\ a \in Procs => ppc[a] \in {"clean", "delete"}
      /\ DOMAIN list[a] \subseteq Runs
  BY ActorDoes
<1>2. ListTells(a) /\ (a \in Procs => WorkerTells(a)')
  BY <1>1, WorkerKept DEF Telling
<1>3. CASE CleanupSnapshot(a)
  <2>1. /\ apc[a] = "snapshot" /\ UNCHANGED <<state, payload, disk, list>> /\ \A b \in Actors : b # a => ActSame(b)
        /\ apc'[a] \in {"remove", "failed"} /\ cur'[a] \in DOMAIN list[a]
        /\ others'[a] = {payload[q].path : q \in {q \in Runs \ {cur'[a]} : state[q] \in Present}} \ {None}
    BY <1>3, SnapshotDoes
  <2>2. UniquePaths => cur'[a] \notin others'[a]
    BY <2>1 DEF Telling, RowTells, Fits
  <2>3. \A r : (Ended(r) => Ended(r)') /\ (Cleans(a, r) => Cleans(a, r)')
    BY <1>1, <2>1 DEF Ended, Cleans
  <2>4. ListTells(a)'
    BY <1>1, <1>2, <2>1, <2>2, <2>3 DEF ListTells, Sound, Fits
  <2>5. Telling'
    BY <1>1, <1>2, <2>1, <2>4, RowsSame, DiskKept, TellingStep DEF RestSame
  <2>6. Sparing'
    BY <1>1, <2>1, SparingKept
  <2> QED
    BY <2>5, <2>6
<1>4. CASE CleanupRemove(a)
  <2> DEFINE x == list[a][cur[a]]
  <2>1. /\ apc[a] = "remove" /\ UNCHANGED <<state, payload, cur, others>> /\ \A b \in Actors : b # a => ActSame(b)
        /\ cur[a] \in DOMAIN list[a]
    BY <1>4, RemoveDoes
  <2>2. /\ Drops(a, cur[a], x) \/ (apc'[a] = "failed" /\ list'[a] = list[a])
        /\ disk' = disk \/ (x.path \in Paths /\ disk' = [disk EXCEPT ![x.path] = NoRun])
    BY <1>4, RemoveDoes
  <2> HIDE DEF x
  <2>3. DiskFits'
    <3>1. CASE disk' = disk
      BY <3>1, DiskKept
    <3>2. CASE x.path \in Paths /\ disk' = [disk EXCEPT ![x.path] = NoRun]
      BY <3>2 DEF Telling, DiskFits, IndInv, Types, RestType
    <3> QED
      BY <2>2, <3>1, <3>2
  <2>4. \A r : (Ended(r) => Ended(r)') /\ (Cleans(a, r) => Cleans(a, r)')
    BY <1>1, <2>1 DEF Ended, Cleans
  <2>5. ListTells(a)' /\ DOMAIN list'[a] = DOMAIN list[a]
    <3>1. CASE apc'[a] = "failed" /\ list'[a] = list[a]
      BY <1>1, <1>2, <2>1, <2>4, <3>1 DEF ListTells, Sound, Fits
    <3>2. CASE Drops(a, cur[a], x)
      <4>1. /\ apc'[a] = "settle" /\ DOMAIN list'[a] = DOMAIN list[a]
            /\ list'[a][cur[a]].path = None /\ ~list'[a][cur[a]].owned /\ list'[a][cur[a]].status = list[a][cur[a]].status
            /\ \A r \in DOMAIN list[a] : r # cur[a] => list'[a][r] = list[a][r]
        BY <3>2 DEF Drops, x
      <4>2. \A r \in DOMAIN list[a] : list'[a][r].status = list[a][r].status
        BY <4>1
      <4>3. ASSUME NEW r \in DOMAIN list[a]
            PROVE  /\ Fits(r, list'[a][r]) /\ (Ended(r) \/ Cleans(a, r))
                   /\ r = cur[a] \/ Sound(list'[a][r])
        BY <1>2, <2>1, <4>1 DEF ListTells, Fits
      <4>4. /\ a \in Procs /\ ppc[a] = "clean" =>
                 DOMAIN list[a] = {job[a]} /\ list[a][job[a]].status # "success"
            /\ a \in Procs /\ ppc[a] = "delete" => \A r \in DOMAIN list[a] : Ended(r)
        BY <1>2 DEF ListTells
      <4> QED
        BY <1>1, <2>1, <2>4, <4>1, <4>2, <4>3, <4>4 DEF ListTells, Fits, Sound
    <3> QED
      BY <2>2, <3>1, <3>2
  <2>6. Telling'
    BY <1>1, <1>2, <2>1, <2>3, <2>5, RowsSame, TellingStep DEF RestSame
  <2>7. Sparing'
    BY <1>1, <2>1, <2>5, ProcsAct, SparingKept DEF ActSame
  <2> QED
    BY <2>6, <2>7
<1>5. CASE DeleteSettles(a)
  <2>0. PICK c : c = cur[a]
    OBVIOUS
  <2>1. /\ apc[a] \in {"settle", "failed"} /\ (a \in Procs => ppc[a] = "delete") /\ c \in DOMAIN list[a]
        /\ UNCHANGED disk /\ \A b \in Actors : b # a => ActSame(b)
        /\ DOMAIN list'[a] = DOMAIN list[a] \ {c}
        /\ \A r \in DOMAIN list'[a] : list'[a][r] = list[a][r]
        /\ apc'[a] = (IF DOMAIN list'[a] = {} THEN "idle" ELSE "snapshot")
        /\ \A r \in Runs : r # c => RowSame(r)
        /\ \/ state[c] # "deleting" /\ RowSame(c)
           \/ state[c] = "deleting" /\ apc[a] = "settle" /\ state'[c] = "removed" /\ payload'[c] = Blank
           \/ /\ state[c] = "deleting" /\ apc[a] = "failed" /\ state'[c] = list[a][c].status
              /\ payload'[c] = list[a][c]
    BY <1>5, <2>0, SettleDoes
  <2>2. list[a][c].status \in Finished /\ c = cur[a] /\ c \in Runs
    BY <1>1, <2>0, <2>1 DEF IndInv, Cleaning, CleaningOK
  <2>3. RowTells(c)' /\ (Ended(c) => Ended(c)')
    <3>1. CASE RowSame(c)
      BY <2>2, <3>1, RowKept DEF Telling, RowSame, Ended
    <3>2. CASE state[c] = "deleting" /\ apc[a] = "settle" /\ state'[c] = "removed" /\ payload'[c] = Blank
      BY <3>2, BlankSays DEF RowTells, Sound, Fits, Ended, Finished
    <3>3. CASE state[c] = "deleting" /\ apc[a] = "failed" /\ state'[c] = list[a][c].status /\ payload'[c] = list[a][c]
      <4>1. Sound(list[a][c]) /\ Fits(c, list[a][c])
        BY <1>2, <2>1, <3>3 DEF ListTells
      <4> QED
        BY <2>2, <3>3, <4>1 DEF RowTells, Sound, Fits, Ended, Finished
    <3> QED
      BY <2>1, <3>1, <3>2, <3>3
  <2>4. ASSUME NEW r \in Runs PROVE RowTells(r)' /\ (Ended(r) => Ended(r)')
    <3>1. CASE r = c
      BY <2>3, <3>1
    <3>2. CASE r # c
      BY <2>1, <3>2, RowKept DEF Telling, RowSame, Ended
    <3> QED
      BY <3>1, <3>2
  <2>5. ListTells(a)'
    <3>1. \A r : Cleans(a, r) => Cleans(a, r)'
      BY <1>1 DEF Cleans
    <3>2. ASSUME NEW r \in DOMAIN list'[a]
          PROVE  /\ Fits(r, list'[a][r]) /\ Sound(list'[a][r]) /\ (Ended(r)' \/ Cleans(a, r)')
                 /\ (a \in Procs => Ended(r)')
      <4>1. r \in DOMAIN list[a] /\ r # cur[a] /\ r \in Runs /\ list'[a][r] = list[a][r]
        BY <1>1, <2>1, <2>2
      <4> QED
        BY <1>2, <2>1, <2>4, <3>1, <4>1 DEF ListTells
    <3> QED
      BY <1>1, <2>1, <3>2 DEF ListTells, Fits, Sound
  <2>6. Telling'
    BY <1>1, <1>2, <2>1, <2>4, <2>5, DiskKept, TellingStep DEF RestSame, EndedStays
  <2>7. Sparing'
    <3>1. \A r \in Runs : r = c \/ state'[r] = state[r]
      BY <2>1 DEF RowSame
    <3>2. (state[c] = "success" => state'[c] = "success") /\ (state'[c] = "deleting" => state[c] = "deleting")
      BY <2>1, <2>2 DEF RowSame, Finished
    <3>3. \A p \in Procs : DOMAIN list'[p] \subseteq DOMAIN list[p]
      BY <2>1, ProcsAct DEF ActSame
    <3> QED
      BY <1>1, <3>1, <3>2, <3>3, SparingKept
  <2> QED
    BY <2>6, <2>7
<1> QED
  BY <1>3, <1>4, <1>5

\* At the start.
LEMMA InitTells == Init => Telling /\ Sparing
<1> SUFFICES ASSUME Init PROVE Telling /\ Sparing
  OBVIOUS
<1>1. \A r \in Runs : RowTells(r)
  BY BlankSays DEF Init, RowTells, Sound, Fits, Finished
<1>2. \A p \in Procs : WorkerTells(p)
  BY DEF Init, WorkerTells
<1>3. \A a \in Actors : ListTells(a)
  BY DEF Init, ListTells
<1>4. DiskFits
  BY DEF Init, DiskFits
<1> QED
  BY <1>1, <1>2, <1>3, <1>4 DEF Telling, Sparing, Init

\* Every step.
LEMMA StepTells == IndInv /\ Telling /\ Sparing /\ [Next]_vars => Telling' /\ Sparing'
<1> SUFFICES ASSUME IndInv, Telling, Sparing, [Next]_vars PROVE Telling' /\ Sparing'
  OBVIOUS
<1>1. CASE UNCHANGED vars
  <2>1. AllStill /\ UNCHANGED <<state, payload, plan>>
    BY <1>1 DEF vars, rowVars, procVars, workVars, actVars, AllStill
  <2> QED
    BY <2>1, StillTells
<1>2. CASE CommandNext
  <2>1. ASSUME NEW s \in Schedules,
               \/ TimePasses(s) \/ DeleteSchedule(s)
               \/ \E e \in {"on", "off"}, edited \in BOOLEAN : SaveSchedule(s, e, edited)
        PROVE  Telling' /\ Sparing'
    BY <2>1, ScheduleDoes, StillTells
  <2> QED
    BY <1>2, <2>1, EnqueueTells, CancelTells, UserTells DEF CommandNext
<1>3. ASSUME NEW p \in Procs, LeaderNext(p) PROVE Telling' /\ Sparing'
  BY <1>3, LockTells, RecoverTells, EnqueueDueTells, ClaimTells, TickFailsTells, WatchTells, EndTells, RetainTells
     DEF LeaderNext
<1>4. ASSUME NEW p \in Procs, WorkerNext(p) PROVE Telling' /\ Sparing'
  BY <1>4, WorkerTellsOn
<1>5. ASSUME NEW p \in Procs, \/ \E how \in {"drain", "stop"} : Stop(p, how)
                              \/ Leave(p) \/ Crash(p) \/ Restart(p)
      PROVE  Telling' /\ Sparing'
  BY <1>5, StopTells, LockTells
<1>6. ASSUME NEW a \in Actors, CleanupSnapshot(a) \/ CleanupRemove(a) \/ DeleteSettles(a)
      PROVE  Telling' /\ Sparing'
  BY <1>6, ActorTells
<1> QED
  BY <1>1, <1>2, <1>3, <1>4, <1>5, <1>6 DEF Next

\* What the payloads say, always.
LEMMA AlwaysTells == Spec => [](IndInv /\ Telling /\ Sparing)
<1>1. Init => IndInv /\ Telling /\ Sparing
  BY InitIndInv, InitTells
<1>2. (IndInv /\ Telling /\ Sparing) /\ [Next]_vars => (IndInv /\ Telling /\ Sparing)'
  BY StepIndInv, StepTells
<1> QED
  BY <1>1, <1>2, PTL DEF Spec

\* Where no user deletes runs, retention leaves retention_count newer successful runs of
\* the schedule for whatever it selects, although it selects by payloads that also count
\* runs on their way out, and although crashes and failing calls leave such runs behind.
THEOREM RetentionSpares == ASSUME Users = {} PROVE Spec => []RetentionSparesNewest
<1>1. Sparing => RetentionSparesNewest
  BY DEF Sparing, Enough, Newer, RetentionSparesNewest
<1> QED
  BY <1>1, AlwaysTells, PTL

-----------------------------------------------------------------------------
(* A successful run keeps its file.                                        *)

\* What is claimed where no statement of the leader fails, and where either no two runs
\* share a path or no user deletes runs.
Sure == ~Errors /\ (UniquePaths \/ Users = {})

\* The file that x says run r owns is there or gone, and is not another run's.
Own(r, x) == x.owned => disk[x.path] \in {NoRun, r}

RowSafe(r) ==
  /\ state[r] = "success" => disk[payload[r].path] = r
  /\ state[r] = "deleting" => Own(r, payload[r])

ProcSafe(p) ==
  /\ ppc[p] = "work" /\ mem[p].owned => disk[mem[p].path] = job[p]
  /\ ppc[p] = "work" /\ watch[p].owned => disk[watch[p].path] = job[p]
  /\ ppc[p] = "finish" /\ mem[p].status = "success" => disk[mem[p].path] = job[p]

\* Nothing an actor is about to clean up is a success, or goes back to be one.
ListSafe(a) ==
  apc[a] # "idle" =>
    /\ \A r \in DOMAIN list[a] : Own(r, list[a][r]) /\ state[r] # "success"
    /\ apc[a] = "failed" => list[a][cur[a]].status # "success"

\* Where no user deletes runs, only the leader does, and it selects successes only.
Outside == {"down", "idle", "recover"}
Alone(p) ==
  ppc[p] \notin Outside =>
    /\ \A r \in Runs : state[r] = "deleting" => ppc[p] = "delete" /\ apc[p] # "idle" /\ r \in DOMAIN list[p]
    /\ ppc[p] = "delete" /\ apc[p] = "idle" => \A r \in DOMAIN list[p] : state[r] = "success"

Safe ==
  /\ \A r \in Runs : RowSafe(r)
  /\ \A p \in Procs : ProcSafe(p)
  /\ \A a \in Actors : ListSafe(a)
  /\ Users = {} => \A p \in Procs : Alone(p)

\* With unique paths a run owns no file but its own.
LEMMA OwnFits == ASSUME UniquePaths, Telling, NEW r \in Runs, NEW x \in Payload, Sound(x), Fits(r, x) PROVE Own(r, x)
<1> SUFFICES ASSUME x.owned PROVE disk[x.path] \in {NoRun, r}
  BY DEF Own
<1>1. x.path = r /\ x.path # None
  BY DEF Sound, Fits
<1>2. x.path \in Paths
  BY <1>1 DEF Payload
<1> QED
  BY <1>1, <1>2 DEF Telling, DiskFits

\* No run becomes a success or starts being deleted, and successes stay.
Settled ==
  \A r \in Runs :
    /\ state'[r] \in {"success", "deleting"} => RowSame(r)
    /\ state[r] = "success" => state'[r] = "success"

\* The rows.
LEMMA RowsSafe == ASSUME Safe, Settled, disk' = disk PROVE \A r \in Runs : RowSafe(r)'
<1> SUFFICES ASSUME NEW r \in Runs PROVE RowSafe(r)'
  OBVIOUS
<1>1. CASE RowSame(r)
  BY <1>1 DEF RowSame, Safe, RowSafe, Own
<1>2. CASE ~RowSame(r)
  BY <1>2 DEF Settled, RowSafe
<1> QED
  BY <1>1, <1>2

\* A process that does nothing.
LEMMA ProcSafeKept == ASSUME NEW q \in Procs, ProcSafe(q), ProcSame(q), disk' = disk PROVE ProcSafe(q)'
  BY DEF ProcSafe, ProcSame

\* An actor that does nothing.
LEMMA ListSafeKept ==
  ASSUME NEW a \in Actors, ListSafe(a), ActSame(a), disk' = disk,
         \A r \in DOMAIN list[a] : state'[r] = "success" => state[r] = "success"
  PROVE  ListSafe(a)'
  BY DEF ListSafe, ActSame, Own

\* A process that stays where it is.
LEMMA AloneKept ==
  ASSUME Settled, NEW q \in Procs, Alone(q), ppc'[q] = ppc[q], ActSame(q), DOMAIN list[q] \subseteq Runs
  PROVE  Alone(q)'
<1>1. \A r \in Runs : state'[r] = "deleting" => state[r] = "deleting"
  BY DEF Settled, RowSame
<1>2. \A r \in DOMAIN list[q] : state[r] = "success" => state'[r] = "success"
  BY DEF Settled
<1> QED
  BY <1>1, <1>2 DEF Alone, ActSame

\* A process that goes on to where it deletes nothing.
LEMMA AloneMoves ==
  ASSUME Settled, NEW q \in Procs, Alone(q),
         ppc'[q] \in Outside \/ (ppc[q] \notin Outside \cup {"delete"} /\ ppc'[q] # "delete")
  PROVE  Alone(q)'
<1>1. \A r \in Runs : state'[r] = "deleting" => state[r] = "deleting"
  BY DEF Settled, RowSame
<1> QED
  BY <1>1 DEF Alone

\* A step of p that touches no file.
LEMMA QuietSafe ==
  ASSUME IndInv, Safe, Settled, disk' = disk, NEW p \in Actors, RestSame(p),
         p \in Procs => ProcSafe(p)', ListSafe(p)', p \in Procs /\ Users = {} => Alone(p)'
  PROVE  Safe'
<1>1. \A r \in Runs : RowSafe(r)'
  BY RowsSafe
<1>2. \A q \in Procs : ProcSafe(q)'
  BY ProcSafeKept DEF RestSame, Safe
<1>3. ASSUME NEW a \in Actors, a # p PROVE ListSafe(a)' /\ DOMAIN list[a] \subseteq Runs
  <2>1. DOMAIN list[a] \subseteq Runs
    BY ListIs DEF IndInv, Types
  <2>2. \A r \in DOMAIN list[a] : state'[r] = "success" => state[r] = "success"
    BY <2>1 DEF Settled, RowSame
  <2> QED
    BY <1>3, <2>1, <2>2, ListSafeKept DEF RestSame, Safe
<1>4. ASSUME Users = {}, NEW q \in Procs, q # p PROVE Alone(q)'
  <2>1. q \in Actors /\ ActSame(q) /\ ppc'[q] = ppc[q]
    BY <1>4, ProcsAct DEF RestSame, ProcSame
  <2> QED
    BY <1>3, <1>4, <2>1, AloneKept DEF Safe
<1> QED
  BY <1>1, <1>2, <1>3, <1>4 DEF Safe

\* Only rows change, and none of them matters here.
LEMMA RowsOnlySafe ==
  ASSUME IndInv, Safe, Settled,
         UNCHANGED <<disk, ppc, job, mem, watch, apc, list, cur, others>>
  PROVE  Safe'
<1>1. \A a \in Actors : ActSame(a)
  BY DEF ActSame
<1>2. ASSUME NEW a \in Actors PROVE ListSafe(a)' /\ DOMAIN list[a] \subseteq Runs
  <2>1. DOMAIN list[a] \subseteq Runs
    BY ListIs DEF IndInv, Types
  <2>2. \A r \in DOMAIN list[a] : state'[r] = "success" => state[r] = "success"
    BY <2>1 DEF Settled, RowSame
  <2> QED
    BY <1>1, <2>1, <2>2, ListSafeKept DEF Safe
<1>3. ASSUME Users = {}, NEW q \in Procs PROVE Alone(q)'
  BY <1>1, <1>2, <1>3, ProcsAct, AloneKept DEF Safe
<1>4. \A q \in Procs : ProcSafe(q)'
  BY DEF Safe, ProcSafe
<1> QED
  BY <1>1, <1>2, <1>3, <1>4, RowsSafe DEF Safe

\* Nothing happens to the rows.
LEMMA SettledSame == ASSUME UNCHANGED <<state, payload, plan>> PROVE Settled
  BY DEF Settled, RowSame

\* A process at a place where it has no worker, and an actor that has nothing to do.
LEMMA IdleSafe ==
  /\ \A p \in Procs : ppc'[p] \notin {"work", "finish"} => ProcSafe(p)'
  /\ \A a \in Actors : apc'[a] = "idle" => ListSafe(a)'
  BY DEF ProcSafe, ListSafe

\* mark_deleting of runs whose files are their own.
LEMMA MarkSafe ==
  ASSUME IndInv, Safe, NEW a \in Actors, NEW R \in SUBSET Runs, MarkDeleting(a, R),
         \A r \in R : Own(r, payload[r]), UNCHANGED <<disk, ppc, job, mem, watch>>
  PROVE  /\ \A r \in Runs : RowSafe(r)'
         /\ \A p \in Procs : ProcSafe(p)'
         /\ \A b \in Actors : ListSafe(b)'
<1>1. /\ \A r \in R : state'[r] = "deleting" /\ payload'[r] = payload[r] /\ plan'[r] = plan[r]
      /\ \A r \in Runs : r \notin R => RowSame(r)
      /\ DOMAIN list'[a] = R /\ \A r \in R : list'[a][r] = payload[r]
      /\ apc'[a] \in {"idle", "snapshot"}
      /\ \A b \in Actors : b # a => ActSame(b)
  BY MarkDoes
<1>2. \A r \in Runs : RowSafe(r)'
  BY <1>1 DEF RowSafe, RowSame, Own, Safe
<1>3. \A q \in Procs : ProcSafe(q)'
  BY DEF ProcSafe, Safe
<1>4. \A r \in Runs : state'[r] = "success" => state[r] = "success"
  BY <1>1 DEF RowSame
<1>5. ASSUME NEW b \in Actors, b # a PROVE ListSafe(b)'
  <2>1. DOMAIN list[b] \subseteq Runs
    BY ListIs DEF IndInv, Types
  <2> QED
    BY <1>1, <1>4, <1>5, <2>1, ListSafeKept DEF Safe
<1>6. ListSafe(a)'
  <2>1. \A r \in R : (list'[a][r].owned => disk'[list'[a][r].path] \in {NoRun, r}) /\ state'[r] # "success"
    BY <1>1 DEF Own
  <2> QED
    BY <1>1, <2>1 DEF ListSafe, Own
<1> QED
  BY <1>2, <1>3, <1>5, <1>6

-----------------------------------------------------------------------------
\* The commands.
LEMMA CommandSafe == ASSUME IndInv, Telling, Safe, Sure, CommandNext PROVE Safe'
<1>1. ASSUME NEW s \in Schedules,
             \/ TimePasses(s) \/ DeleteSchedule(s)
             \/ \E e \in {"on", "off"}, edited \in BOOLEAN : SaveSchedule(s, e, edited)
      PROVE  Safe'
  BY <1>1, ScheduleDoes, SettledSame, RowsOnlySafe DEF AllStill
<1>2. ASSUME NEW s \in Schedules \cup {None}, Enqueue(s) PROVE Safe'
  <2>1. Settled /\ AllStill
    BY <1>2, EnqueueDoes DEF Queues, Settled, RowSame
  <2> QED
    BY <2>1, RowsOnlySafe DEF AllStill
<1>3. ASSUME NEW r \in Runs, Cancel(r) PROVE Safe'
  <2>1. /\ AllStill /\ \A q \in Runs : q # r => RowSame(q)
        /\ RowSame(r) \/ (state[r] = "queued" /\ Ends(r, "cancelled"))
    BY <1>3, CancelDoes
  <2>2. Settled
    BY <2>1 DEF Settled, RowSame, Ends
  <2> QED
    BY <2>1, <2>2, RowsOnlySafe DEF AllStill
<1>4. ASSUME NEW u \in Users, DropCommand(u) PROVE Safe'
  <2>1. u \in Actors /\ u \notin Procs
    BY ActorsAssumption, ProcsAct
  <2>2. UNCHANGED <<state, payload, plan, disk, lock, ppc, stopping, job, wpc, mem, watch, latest>> /\ Forget(u)
    BY <1>4 DEF DropCommand, procVars, workVars, rowVars
  <2>3. apc'[u] = "idle" /\ \A b \in Actors : b # u => ActSame(b)
    BY <2>1, <2>2, ForgetDoes
  <2>4. RestSame(u)
    BY <2>2, <2>3 DEF RestSame, ProcSame
  <2> QED
    BY <2>1, <2>2, <2>3, <2>4, SettledSame, IdleSafe, QuietSafe
<1>5. ASSUME NEW u \in Users, DeleteRuns(u) PROVE Safe'
  <2>1. u \in Actors /\ u \notin Procs /\ UniquePaths /\ Users # {}
    BY <1>5, ActorsAssumption, ProcsAct DEF Sure
  <2>2. UNCHANGED <<disk, lock, ppc, stopping, job, wpc, mem, watch, latest>>
    BY <1>5 DEF DeleteRuns, procVars, workVars
  <2>3. PICK R \in SUBSET {r \in Runs : Deletable(r)} : MarkDeleting(u, R)
    BY <1>5 DEF DeleteRuns
  <2>4. R \in SUBSET Runs
    BY <2>3
  <2>6. \A r \in Runs : Own(r, payload[r])
    BY <2>1, OwnFits DEF Telling, RowTells, IndInv, Types, RowType
  <2> QED
    BY <2>1, <2>2, <2>3, <2>4, <2>6, MarkSafe DEF Safe
<1> QED
  BY <1>1, <1>2, <1>3, <1>4, <1>5 DEF CommandNext

\* The leader until it starts its worker, and the life of a process.
LEMMA TickSafe ==
  ASSUME IndInv, Telling, Safe, Sure, NEW p \in Procs,
         \/ TryLock(p) \/ RecoverFails(p) \/ Leave(p) \/ Restart(p) \/ Crash(p) \/ \E how \in {"drain", "stop"} : Stop(p, how)
         \/ Recover(p) \/ EnqueueDue(p) \/ Claim(p) \/ TickFails(p) \/ StartWorker(p) \/ PollCancel(p) \/ PollStore(p)
  PROVE  Safe'
<1>1. p \in Actors /\ ProcSafe(p) /\ ListSafe(p) /\ (Users = {} => Alone(p))
  BY ProcsAct DEF Safe
<1>2. CASE TryLock(p) \/ RecoverFails(p) \/ Leave(p) \/ Restart(p)
  <2>1. /\ UNCHANGED <<state, payload, plan, disk, job, wpc, mem, watch, latest, apc, list, cur, others>>
        /\ ppc[p] \in {"idle", "recover", "lead", "down"} /\ ppc'[p] \in {"recover", "idle", "down"}
        /\ \A q \in Procs : q # p => ppc'[q] = ppc[q] /\ stopping'[q] = stopping[q]
    BY <1>2, LockDoes
  <2>2. RestSame(p) /\ apc[p] = "idle" /\ Settled
    BY <2>1, NoWorker, SettledSame DEF RestSame, ProcSame, ActSame
  <2> QED
    BY <1>1, <2>1, <2>2, IdleSafe, AloneMoves, QuietSafe DEF Outside
<1>3. CASE Crash(p)
  <2>1. /\ UNCHANGED <<state, payload, plan, disk>> /\ RestSame(p)
        /\ ppc'[p] = "down" /\ apc'[p] = "idle"
    BY <1>3, CrashDoes
  <2> QED
    BY <1>1, <2>1, SettledSame, IdleSafe, AloneMoves, QuietSafe DEF Outside
<1>4. CASE \E how \in {"drain", "stop"} : Stop(p, how)
  BY <1>4, StopDoes, SettledSame, RowsOnlySafe
<1>5. CASE Recover(p)
  <2>1. /\ ppc[p] = "recover" /\ ppc' = [ppc EXCEPT ![p] = "lead"]
        /\ UNCHANGED <<disk, lock, stopping, job, wpc, mem, watch, latest, apc, list, cur, others>>
        /\ \A r \in Runs : IF state[r] \in {"running", "deleting"} THEN Ends(r, "failed") ELSE RowSame(r)
    BY <1>5, RecoverDoes
  <2>2. ppc'[p] = "lead" /\ \A q \in Procs : q # p => ppc'[q] = ppc[q]
    BY <2>1 DEF IndInv, Types, ProcType
  <2>3. RestSame(p) /\ apc[p] = "idle"
    BY <2>1, <2>2, NoWorker DEF RestSame, ProcSame, ActSame
  <2>4. Settled /\ \A r \in Runs : state'[r] # "deleting"
    BY <2>1 DEF Settled, Ends, RowSame
  <2>5. Alone(p)'
    BY <2>2, <2>4 DEF Alone
  <2> QED
    BY <1>1, <2>1, <2>2, <2>3, <2>4, <2>5, IdleSafe, QuietSafe
<1>6. CASE EnqueueDue(p)
  <2>1. /\ Queues /\ ppc[p] = "lead" /\ ppc' = [ppc EXCEPT ![p] = "claim"]
        /\ UNCHANGED <<disk, lock, stopping, job, wpc, mem, watch, latest, apc, list, cur, others>>
    BY <1>6, EnqueueDueDoes
  <2>2. ppc'[p] = "claim" /\ \A q \in Procs : q # p => ppc'[q] = ppc[q]
    BY <2>1 DEF IndInv, Types, ProcType
  <2>3. RestSame(p) /\ apc[p] = "idle"
    BY <2>1, <2>2, NoWorker DEF RestSame, ProcSame, ActSame
  <2>4. Settled
    BY <2>1 DEF Settled, Queues, RowSame
  <2> QED
    BY <1>1, <2>1, <2>2, <2>3, <2>4, IdleSafe, AloneMoves, QuietSafe DEF Outside
<1>7. CASE Claim(p)
  <2>1. /\ ppc[p] = "claim"
        /\ UNCHANGED <<payload, plan, disk, lock, stopping, wpc, mem, watch, latest, apc, list, cur, others>>
        /\ \A q \in Procs : q # p => ppc'[q] = ppc[q] /\ job'[q] = job[q]
        /\ \/ ppc'[p] = "lead" /\ UNCHANGED state
           \/ \E r \in Runs : /\ ppc'[p] = "check" /\ job'[p] = r /\ state[r] = "queued" /\ state'[r] = "running"
                              /\ \A q \in Runs : q # r => state'[q] = state[q]
    BY <1>7, ClaimDoes
  <2>2. RestSame(p) /\ apc[p] = "idle"
    BY <2>1, NoWorker DEF RestSame, ProcSame, ActSame
  <2>3. Settled /\ ppc'[p] \in {"lead", "check"}
    BY <2>1 DEF Settled, RowSame
  <2> QED
    BY <1>1, <2>1, <2>2, <2>3, IdleSafe, AloneMoves, QuietSafe DEF Outside
<1>8. CASE StartWorker(p)
  <2>1. /\ ppc[p] = "check" /\ ppc'[p] = "work" /\ wpc'[p] = "start" /\ mem'[p] = Blank /\ watch'[p] = Blank
        /\ UNCHANGED <<state, payload, plan, disk, lock, stopping, job, latest, apc, list, cur, others>> /\ RestSame(p)
    BY <1>8, StartDoes
  <2>2. apc[p] = "idle" /\ Settled
    BY <2>1, NoWorker, SettledSame
  <2>3. ProcSafe(p)'
    BY <2>1, BlankSays DEF ProcSafe
  <2> QED
    BY <1>1, <2>1, <2>2, <2>3, IdleSafe, AloneMoves, QuietSafe DEF Outside
<1>9. CASE PollCancel(p)
  <2>1. /\ ppc[p] = "work" /\ RestSame(p)
        /\ UNCHANGED <<state, payload, plan, disk, lock, ppc, stopping, job, wpc, mem, watch, apc, list, cur, others>>
    BY <1>9, PollDoes
  <2> QED
    BY <2>1, SettledSame, RowsOnlySafe
<1>10. CASE PollStore(p)
  <2>1. /\ ppc[p] = "work" /\ job[p] \in Runs /\ Stores(job[p], latest[p]) /\ RestSame(p)
        /\ UNCHANGED <<disk, lock, ppc, stopping, job, wpc, mem, watch, apc, list, cur, others>>
    BY <1>10, StoreDoes
  <2>2. state[job[p]] = "running"
    BY <2>1 DEF IndInv, Working, WorkingOK
  <2>3. Settled
    BY <2>1, <2>2 DEF Settled, Stores, RowSame
  <2> QED
    BY <2>1, <2>3, RowsOnlySafe
<1> QED
  BY <1>2, <1>3, <1>4, <1>5, <1>6, <1>7, <1>8, <1>9, <1>10 DEF Sure, TickFails

\* Whoever executes a run, cleans up after it or deletes runs for retention leads alone.
LEMMA OneLeads ==
  ASSUME IndInv, NEW p \in Procs, NEW q \in Procs, ppc[p] \notin {"down", "idle"}, p # q
  PROVE  ppc[q] \in {"down", "idle"}
  BY DEF IndInv, Leading

\* The worker thread.
LEMMA WorkerSafe == ASSUME IndInv, Telling, Safe, Sure, NEW p \in Procs, WorkerNext(p) PROVE Safe'
<1>1. /\ ppc[p] = "work" /\ wpc[p] # "none" /\ job[p] \in Runs /\ state[job[p]] = "running"
      /\ UNCHANGED <<state, plan, lock, ppc, stopping, job, latest, apc, list, cur, others>> /\ RestSame(p)
  BY WorkerDoes
<1>2. WorkerTells(p) /\ ProcSafe(p) /\ p \in Actors
  BY ProcsAct DEF Telling, Safe
<1>3. apc[p] = "idle" /\ ListSafe(p)'
  BY <1>1, <1>2, NoWorker, IdleSafe
<1>4. CASE disk' = disk /\ Settled /\ ProcSafe(p)'
  BY <1>1, <1>2, <1>3, <1>4, AloneMoves, QuietSafe DEF Outside, Safe
<1>5. CASE Records(p)
  <2>1. Settled
    BY <1>1, <1>5 DEF Records, Stores, Settled, RowSame
  <2> QED
    BY <1>1, <1>2, <1>4, <1>5, <2>1 DEF Records, WorkerTells, ProcSafe
<1>6. UNCHANGED payload => Settled
  BY <1>1, SettledSame
<1>7. CASE GivesUp(p)
  <2>1. PICK x \in Payload : EndsWith(p, x, FALSE) /\ x.owned = mem[p].owned
    BY <1>7 DEF GivesUp
  <2>2. wpc[p] \in {"start", "create"} /\ UNCHANGED <<payload, disk, watch>>
    BY <1>7 DEF GivesUp
  <2>3. ProcSafe(p)'
    BY <1>1, <1>2, <2>1, <2>2 DEF EndsWith, WorkerTells, ProcSafe
  <2> QED
    BY <1>4, <1>6, <2>2, <2>3
<1>8. CASE Sends(p)
  <2>1. ProcSafe(p)'
    BY <1>1, <1>2, <1>8 DEF Sends, ProcSafe
  <2> QED
    BY <1>4, <1>6, <1>8, <2>1 DEF Sends
<1>9. CASE Finishes(p)
  <2>1. PICK ok \in BOOLEAN : EndsWith(p, mem[p], ok)
    BY <1>9 DEF Finishes
  <2>2. UNCHANGED <<payload, disk, watch>>
    BY <1>9 DEF Finishes
  <2>3. ProcSafe(p)'
    BY <1>1, <1>2, <2>1, <2>2 DEF EndsWith, ProcSafe
  <2> QED
    BY <1>4, <1>6, <2>2, <2>3
<1>10. CASE Panics(p)
  <2>1. ProcSafe(p)'
    BY <1>1, <1>2, <1>10 DEF Panics, EndsWith, ProcSafe
  <2> QED
    BY <1>4, <1>6, <1>10, <2>1 DEF Panics
<1>11. CASE Creates(p)
  <2>1. PICK f : f = mem[p].path
    OBVIOUS
  <2>2. PICK j : j = job[p] /\ j \in Runs /\ j # NoRun
    BY <1>1, BoundsAssumption DEF Runs, NoRun
  <2>3. /\ wpc[p] = "create" /\ UNCHANGED <<payload, watch>> /\ disk[f] = NoRun /\ disk' = [disk EXCEPT ![f] = j]
        /\ mem'[p].path = f
    BY <1>11, <2>1, <2>2 DEF Creates
  <2>4. f \in Paths /\ (UniquePaths => f = j)
    BY <1>1, <1>2, <2>1, <2>2, <2>3 DEF WorkerTells, Fits, IndInv, Types, WorkType, Payload
  <2>5. disk'[f] = j /\ \A g \in Paths : g # f => disk'[g] = disk[g]
    BY <2>3, <2>4 DEF IndInv, Types, RestType
  <2>6. \A r \in Runs : r # NoRun
    BY BoundsAssumption DEF Runs, NoRun
  <2>7. ASSUME NEW r \in Runs, NEW x \in Payload, Sound(x), Fits(r, x), UniquePaths, x.owned
        PROVE  disk'[x.path] \in {NoRun, r}
    <3>1. x.path = r /\ x.path \in Paths
      BY <2>7 DEF Sound, Fits, Payload
    <3> QED
      BY <2>4, <2>5, <2>7, <3>1 DEF Telling, DiskFits
  <2>8. ASSUME NEW r \in Runs PROVE RowSafe(r)'
    <3>1. payload[r] \in Payload /\ Sound(payload[r]) /\ Fits(r, payload[r])
      BY DEF Telling, RowTells, IndInv, Types, RowType
    <3>2. CASE state[r] = "success"
      <4>1. payload[r].path \in Paths /\ disk[payload[r].path] = r
        BY <3>1, <3>2 DEF Telling, RowTells, Sound, Payload, Finished, Safe, RowSafe
      <4> QED
        BY <1>1, <2>3, <2>5, <2>6, <3>2, <4>1 DEF RowSafe
    <3>3. CASE state[r] = "deleting"
      <4>1. UniquePaths
        BY <1>1, <3>3 DEF Sure, Safe, Alone, Outside
      <4> QED
        BY <1>1, <2>3, <2>7, <3>1, <3>3, <4>1 DEF RowSafe, Own
    <3> QED
      BY <1>1, <3>2, <3>3 DEF RowSafe
  <2>9. ASSUME NEW q \in Procs PROVE ProcSafe(q)'
    <3>1. CASE q = p
      <4>1. watch[p].owned => watch[p].path \in Paths /\ disk[watch[p].path] = j
        BY <1>1, <1>2, <2>2 DEF WorkerTells, Sound, ProcSafe, IndInv, Types, WorkType, Payload
      <4> QED
        BY <1>1, <2>2, <2>3, <2>5, <3>1, <4>1 DEF ProcSafe
    <3>2. CASE q # p
      BY <1>1, <3>2, OneLeads DEF ProcSafe
    <3> QED
      BY <3>1, <3>2
  <2>10. ASSUME NEW a \in Actors PROVE ListSafe(a)'
    <3>1. CASE apc[a] = "idle"
      BY <1>1, <3>1, IdleSafe
    <3>2. CASE apc[a] # "idle"
      <4>1. UniquePaths
        <5>1. ASSUME Users = {} PROVE FALSE
          <6>1. a \in Procs
            BY <5>1 DEF Actors
          <6>2. ppc[a] \in {"clean", "delete"}
            BY <3>2, <6>1, NoWorker
          <6> QED
            BY <1>1, <6>1, <6>2, OneLeads
        <5> QED
          BY <5>1 DEF Sure
      <4>2. DOMAIN list[a] \subseteq Runs /\ list[a] \in [DOMAIN list[a] -> Payload]
        BY ListIs DEF IndInv, Types
      <4>3. ASSUME NEW r \in DOMAIN list[a] PROVE list[a][r].owned => disk'[list[a][r].path] \in {NoRun, r}
        <5>1. r \in Runs /\ list[a][r] \in Payload
          BY <4>2
        <5>2. Fits(r, list[a][r]) /\ (list[a][r].owned => Sound(list[a][r]))
          BY <3>2 DEF Telling, ListTells
        <5> QED
          BY <2>7, <4>1, <5>1, <5>2
      <4> QED
        BY <1>1, <4>3 DEF ListSafe, Own, Safe
    <3> QED
      BY <3>1, <3>2
  <2>11. Users = {} => \A q \in Procs : Alone(q)'
    BY <1>1 DEF Safe, Alone
  <2> QED
    BY <2>8, <2>9, <2>10, <2>11 DEF Safe
<1> QED
  BY <1>5, <1>7, <1>8, <1>9, <1>10, <1>11, WorkerDoesOne

\* The end of the run.
LEMMA EndSafe ==
  ASSUME IndInv, Telling, Safe, Sure, NEW p \in Procs, Join(p) \/ Cleaned(p) \/ Finish(p)
  PROVE  Safe'
<1>1. WorkerTells(p) /\ ListTells(p) /\ ProcSafe(p) /\ ListSafe(p) /\ p \in Actors /\ (Users = {} => Alone(p))
  BY ProcsAct DEF Telling, Safe
<1>2. CASE Join(p)
  <2>1. /\ ppc[p] = "work" /\ wpc[p] = "done" /\ wpc'[p] = "none" /\ latest[p] = None
        /\ UNCHANGED <<state, payload, plan, disk, lock, stopping, job, mem, latest, cur, others>> /\ RestSame(p)
        /\ IF mem[p].status = "success"
             THEN ppc'[p] = "finish" /\ apc'[p] = "idle"
             ELSE /\ ppc'[p] = "clean" /\ apc'[p] = "snapshot"
                  /\ DOMAIN list'[p] = {job[p]} /\ list'[p][job[p]] = mem[p]
    BY <1>2, JoinDoes
  <2>2. state[job[p]] = "running"
    BY <2>1 DEF IndInv, Working, WorkingOK
  <2>3. ProcSafe(p)'
    BY <1>1, <2>1 DEF ProcSafe, WorkerTells, Sound
  <2>4. ListSafe(p)'
    BY <1>1, <2>1, <2>2 DEF ListSafe, ProcSafe, Own
  <2>5. Users = {} => Alone(p)'
    BY <1>1, <2>1, SettledSame, AloneMoves DEF Outside
  <2> QED
    BY <1>1, <2>1, <2>3, <2>4, <2>5, SettledSame, QuietSafe
<1>3. CASE Cleaned(p)
  <2>1. /\ ppc[p] = "clean" /\ ppc'[p] = "finish" /\ mem'[p] = list[p][job[p]]
        /\ UNCHANGED <<state, payload, plan, disk, lock, stopping, job, wpc, watch, latest>> /\ RestSame(p)
        /\ apc'[p] = "idle" /\ DOMAIN list'[p] = {}
    BY <1>3, CleanedDoes
  <2>2. ProcSafe(p)'
    BY <1>1, <2>1 DEF ListTells, ProcSafe
  <2>3. Users = {} => Alone(p)'
    BY <1>1, <2>1, SettledSame, AloneMoves DEF Outside
  <2> QED
    BY <1>1, <2>1, <2>2, <2>3, IdleSafe, SettledSame, QuietSafe
<1>4. CASE Finish(p)
  <2>1. /\ ppc[p] = "finish" /\ ppc'[p] \in {"retain", "lead"} /\ job[p] \in Runs /\ state[job[p]] = "running"
        /\ mem[p].status \in Finished /\ state'[job[p]] = mem[p].status /\ payload'[job[p]] = mem[p]
        /\ \A q \in Runs : q # job[p] => RowSame(q)
        /\ UNCHANGED <<plan, disk, lock, stopping, wpc, watch, latest, apc, list, cur, others>> /\ RestSame(p)
    BY <1>4, FinishDoes
  <2>2. apc[p] = "idle"
    BY <2>1, NoWorker
  <2>3. ASSUME NEW r \in Runs PROVE RowSafe(r)' /\ (state'[r] = "deleting" => state[r] = "deleting")
    <3>1. CASE r = job[p]
      BY <1>1, <2>1, <3>1 DEF RowSafe, ProcSafe, Finished
    <3>2. CASE r # job[p]
      BY <2>1, <3>2 DEF RowSame, RowSafe, Own, Safe
    <3> QED
      BY <3>1, <3>2
  <2>4. ASSUME NEW q \in Procs PROVE ProcSafe(q)'
    <3>1. CASE q = p
      BY <2>1, <3>1 DEF ProcSafe
    <3>2. CASE q # p
      BY <2>1, <3>2, ProcSafeKept DEF RestSame, Safe
    <3> QED
      BY <3>1, <3>2
  <2>5. ASSUME NEW a \in Actors PROVE ListSafe(a)'
    <3>1. CASE apc[a] = "idle"
      BY <2>1, <3>1, IdleSafe
    <3>2. CASE apc[a] # "idle"
      <4>1. a # p
        BY <2>2, <3>2
      <4>2. job[p] \notin DOMAIN list[a]
        <5>1. ~Ended(job[p])
          BY <2>1 DEF Ended, Finished
        <5>2. ~Cleans(a, job[p])
          BY <2>1, <4>1, OneLeads DEF Cleans
        <5> QED
          BY <3>2, <5>1, <5>2 DEF Telling, ListTells
      <4>3. DOMAIN list[a] \subseteq Runs
        BY ListIs DEF IndInv, Types
      <4>4. \A r \in DOMAIN list[a] : state'[r] = state[r]
        BY <2>1, <4>2, <4>3 DEF RowSame
      <4> QED
        BY <2>1, <4>1, <4>4, ListSafeKept DEF RestSame, Safe
    <3> QED
      BY <3>1, <3>2
  <2>6. ASSUME Users = {}, NEW q \in Procs PROVE Alone(q)'
    <3>1. CASE q = p
      BY <1>1, <2>1, <2>3, <2>6, <3>1 DEF Alone, Outside
    <3>2. CASE q # p
      BY <2>1, <3>2, OneLeads DEF RestSame, ProcSame, Alone, Outside
    <3> QED
      BY <3>1, <3>2
  <2> QED
    BY <2>3, <2>4, <2>5, <2>6 DEF Safe
<1> QED
  BY <1>2, <1>3, <1>4

\* Retention.
LEMMA RetainSafe ==
  ASSUME IndInv, Telling, Safe, Sure, NEW p \in Procs, Retain(p) \/ RetainMark(p) \/ Retained(p)
  PROVE  Safe'
<1>1. p \in Actors /\ (Users = {} => Alone(p))
  BY ProcsAct DEF Safe
<1>2. CASE Retain(p)
  <2>1. /\ ppc[p] = "retain" /\ ppc'[p] \in {"lead", "delete"} /\ apc'[p] = "idle"
        /\ UNCHANGED <<state, payload, plan, disk, lock, stopping, wpc, mem, watch, latest, apc, cur, others>>
        /\ RestSame(p) /\ DOMAIN list'[p] \subseteq Surplus(job[p])
    BY <1>2, RetainDoes
  <2>2. \A q \in DOMAIN list'[p] : q \in Runs /\ state[q] \in {"success", "deleting"}
    BY <2>1, SurplusEnded
  <2>3. Users = {} => Alone(p)'
    BY <1>1, <2>1, <2>2 DEF Alone, Outside
  <2> QED
    BY <1>1, <2>1, <2>3, IdleSafe, SettledSame, QuietSafe
<1>3. CASE RetainMark(p) \/ Retained(p)
  <2> DEFINE R == DOMAIN list[p]
  <2>1. /\ ppc[p] = "delete" /\ apc[p] = "idle" /\ UNCHANGED <<disk, lock, stopping, wpc, mem, watch, latest>>
        /\ \A q \in Procs : q # p => ProcSame(q)
        /\ \/ MarkDeleting(p, R) /\ ppc' = ppc /\ job' = job
           \/ /\ UNCHANGED <<state, payload, plan>> /\ ppc'[p] = "lead" /\ apc'[p] = "idle" /\ DOMAIN list'[p] = {}
              /\ \A b \in Actors : b # p => ActSame(b)
    BY <1>3, RetainMarkDoes
  <2>2. R \in SUBSET Runs
    BY <1>1, ListIs DEF IndInv, Types
  <2>3. CASE MarkDeleting(p, R) /\ ppc' = ppc /\ job' = job
    <3>1. ASSUME NEW r \in R PROVE Own(r, payload[r])
      <4>1. CASE UniquePaths
        BY <2>2, <4>1, OwnFits DEF Telling, RowTells, IndInv, Types, RowType
      <4>2. CASE Users = {}
        <5>1. state[r] = "success" /\ r \in Runs
          BY <1>1, <2>1, <2>2, <4>2 DEF Alone, Outside
        <5> QED
          BY <5>1 DEF Safe, RowSafe, Own
      <4> QED
        BY <4>1, <4>2 DEF Sure
    <3>2. /\ \A r \in Runs : RowSafe(r)'
          /\ \A q \in Procs : ProcSafe(q)'
          /\ \A b \in Actors : ListSafe(b)'
      BY <1>1, <2>1, <2>2, <2>3, <3>1, MarkSafe
    <3>3. /\ \A r \in Runs : r \notin R => RowSame(r)
          /\ DOMAIN list'[p] = R /\ apc'[p] \in {"idle", "snapshot"} /\ (R # {} => apc'[p] = "snapshot")
      BY <1>1, <2>2, <2>3, MarkDoes
    <3>4. ASSUME Users = {}, NEW q \in Procs PROVE Alone(q)'
      <4>1. CASE q = p
        <5>1. ASSUME NEW r \in Runs, state'[r] = "deleting" PROVE r \in R
          BY <1>1, <2>1, <3>3, <3>4, <5>1 DEF RowSame, Alone, Outside
        <5>2. apc'[p] = "idle" => R = {}
          BY <3>3
        <5>3. \A r \in Runs : state'[r] = "deleting" => ppc'[p] = "delete" /\ apc'[p] # "idle" /\ r \in DOMAIN list'[p]
          BY <2>1, <2>3, <3>3, <5>1, <5>2
        <5>4. apc'[p] = "idle" => \A r \in DOMAIN list'[p] : state'[r] = "success"
          BY <3>3, <5>2
        <5> HIDE DEF R
        <5> QED
          BY <4>1, <5>3, <5>4 DEF Alone
      <4>2. CASE q # p
        BY <2>1, <2>3, <4>2, OneLeads DEF Alone, Outside
      <4> QED
        BY <4>1, <4>2
    <3> QED
      BY <3>2, <3>4 DEF Safe
  <2>4. CASE /\ UNCHANGED <<state, payload, plan>> /\ ppc'[p] = "lead" /\ apc'[p] = "idle" /\ DOMAIN list'[p] = {}
             /\ \A b \in Actors : b # p => ActSame(b)
    <3>1. Users = {} => Alone(p)'
      BY <1>1, <2>1, <2>4 DEF Alone, Outside
    <3>2. RestSame(p)
      BY <2>1, <2>4 DEF RestSame
    <3> QED
      BY <1>1, <2>1, <2>4, <3>1, <3>2, IdleSafe, SettledSame, QuietSafe
  <2> QED
    BY <2>1, <2>3, <2>4
<1> QED
  BY <1>2, <1>3

\* cleanup and delete_runs.
LEMMA ActorSafe ==
  ASSUME IndInv, Telling, Safe, Sure, NEW a \in Actors, CleanupSnapshot(a) \/ CleanupRemove(a) \/ DeleteSettles(a)
  PROVE  Safe'
<1>1. /\ UNCHANGED <<plan, lock, ppc, stopping, job, wpc, mem, watch, latest>>
      /\ \A q \in Procs : ProcSame(q)
      /\ a \in Procs => ppc[a] \in {"clean", "delete"}
      /\ DOMAIN list[a] \subseteq Runs
  BY ActorDoes
<1>2. ListTells(a) /\ ListSafe(a) /\ (a \in Procs /\ Users = {} => Alone(a))
  BY DEF Telling, Safe
<1>3. a \in Procs => ProcSafe(a)'
  BY <1>1, IdleSafe
<1>4. CASE CleanupSnapshot(a)
  <2>1. /\ apc[a] = "snapshot" /\ UNCHANGED <<state, payload, disk, list>> /\ \A b \in Actors : b # a => ActSame(b)
        /\ apc'[a] = "remove"
    BY <1>4, SnapshotDoes DEF Sure
  <2>2. ListSafe(a)'
    BY <1>2, <2>1 DEF ListSafe, Own
  <2>3. a \in Procs /\ Users = {} => Alone(a)'
    BY <1>1, <1>2, <2>1 DEF Alone
  <2>4. RestSame(a)
    BY <1>1, <2>1 DEF RestSame
  <2> QED
    BY <1>1, <1>3, <2>1, <2>2, <2>3, <2>4, SettledSame, QuietSafe
<1>5. CASE CleanupRemove(a)
  <2>1. PICK x \in Payload : x = list[a][cur[a]]
    BY <1>5, RemoveDoes
  <2>2. PICK c \in Runs : c = cur[a] /\ c \in DOMAIN list[a]
    BY <1>1, <1>5, RemoveDoes
  <2>3. /\ apc[a] = "remove" /\ UNCHANGED <<state, payload, cur, others>> /\ \A b \in Actors : b # a => ActSame(b)
        /\ \/ Drops(a, c, x) /\ disk' = disk
           \/ /\ x.path \in Paths /\ disk[x.path] # NoRun /\ x.owned
              /\ Drops(a, c, x) /\ disk' = [disk EXCEPT ![x.path] = NoRun]
           \/ apc'[a] = "failed" /\ list'[a] = list[a] /\ disk' = disk /\ ~x.owned
    BY <1>5, <2>1, <2>2, RemoveDoes DEF Sure
  <2>4. x = list[a][c] /\ Own(c, x) /\ state[c] # "success" /\ (Ended(c) \/ Cleans(a, c)) /\ Sound(x)
    BY <1>2, <2>1, <2>2, <2>3 DEF ListSafe, ListTells
  <2>5. RestSame(a)
    BY <1>1, <2>3 DEF RestSame
  <2>6. DOMAIN list'[a] = DOMAIN list[a] /\ apc'[a] \in {"settle", "failed"}
    BY <2>3 DEF Drops
  <2>7. a \in Procs /\ Users = {} => Alone(a)'
    BY <1>1, <1>2, <2>3, <2>6 DEF Alone
  <2>8. \A f \in Paths : disk'[f] \in {disk[f], NoRun}
    BY <2>3 DEF IndInv, Types, RestType
  <2>9. ASSUME NEW r, NEW y \in Payload, Own(r, y), y.owned => y.path # None PROVE y.owned => disk'[y.path] \in {NoRun, r}
    <3>1. y.owned => y.path \in Paths
      BY <2>9 DEF Payload
    <3> QED
      BY <2>8, <2>9, <3>1 DEF Own
  <2>10. ListSafe(a)'
    <3>1. ASSUME NEW r \in DOMAIN list[a]
          PROVE  (list'[a][r].owned => disk'[list'[a][r].path] \in {NoRun, r}) /\ state'[r] # "success"
      <4>1. Own(r, list[a][r]) /\ state[r] # "success" /\ Sound(list[a][r]) /\ list[a][r] \in Payload
        BY <1>2, <2>3, ListIs DEF ListSafe, ListTells, IndInv, Types
      <4>2. list[a][r].owned => disk'[list[a][r].path] \in {NoRun, r}
        BY <2>9, <4>1 DEF Sound
      <4>3. list'[a][r] = list[a][r] \/ ~list'[a][r].owned
        BY <2>3 DEF Drops
      <4> QED
        BY <2>3, <4>1, <4>2, <4>3
    <3>2. apc'[a] = "failed" => list'[a][cur'[a]].status # "success"
      BY <2>1, <2>2, <2>3, <2>4 DEF Sound, Drops
    <3> QED
      BY <2>6, <3>1, <3>2 DEF ListSafe, Own
  <2>11. CASE disk' = disk
    BY <1>1, <1>3, <2>3, <2>5, <2>7, <2>10, <2>11, SettledSame, QuietSafe
  <2>12. CASE x.path \in Paths /\ disk[x.path] # NoRun /\ x.owned /\ disk' = [disk EXCEPT ![x.path] = NoRun]
    <3>1. disk[x.path] = c
      BY <2>4, <2>12 DEF Own
    <3>2. ASSUME NEW r, r # c, NEW f \in Paths, disk[f] = r PROVE disk'[f] = r
      BY <2>12, <3>1, <3>2 DEF IndInv, Types, RestType
    <3>3. ASSUME NEW r \in Runs PROVE RowSafe(r)'
      <4>1. payload[r] \in Payload /\ Sound(payload[r])
        BY DEF Telling, RowTells, IndInv, Types, RowType
      <4>2. CASE state[r] = "success"
        <5>1. payload[r].path \in Paths /\ disk[payload[r].path] = r /\ r # c
          BY <2>4, <4>1, <4>2 DEF Telling, RowTells, Sound, Payload, Finished, Safe, RowSafe
        <5> QED
          BY <2>3, <3>2, <4>2, <5>1 DEF RowSafe
      <4>3. CASE state[r] = "deleting"
        <5>1. Own(r, payload[r])
          BY <4>3 DEF Safe, RowSafe
        <5> QED
          BY <2>3, <2>9, <4>1, <4>3, <5>1 DEF RowSafe, Own, Sound
      <4> QED
        BY <2>3, <4>2, <4>3 DEF RowSafe
    <3>4. ASSUME NEW q \in Procs PROVE ProcSafe(q)'
      <4>1. CASE ppc[q] \in {"work", "finish"}
        <5>1. state[job[q]] = "running"
          BY <4>1 DEF IndInv, Working, WorkingOK
        <5>2. job[q] # c
          <6>1. CASE Ended(c)
            BY <5>1, <6>1 DEF Ended, Finished
          <6>2. CASE Cleans(a, c)
            BY <4>1, <6>2, OneLeads DEF Cleans
          <6> QED
            BY <2>4, <6>1, <6>2
        <5>3. /\ mem[q] \in Payload /\ watch[q] \in Payload
              /\ Sound(mem[q]) /\ (ppc[q] = "work" => Sound(watch[q]))
          BY <4>1 DEF Telling, WorkerTells, IndInv, Types, WorkType
        <5>4. /\ mem[q].owned => mem[q].path \in Paths
              /\ ppc[q] = "work" /\ watch[q].owned => watch[q].path \in Paths
              /\ mem[q].status = "success" => mem[q].owned
          BY <5>3 DEF Sound, Payload
        <5> QED
          BY <1>1, <3>2, <5>2, <5>4 DEF Safe, ProcSafe
      <4>2. CASE ppc[q] \notin {"work", "finish"}
        BY <1>1, <4>2 DEF ProcSafe
      <4> QED
        BY <4>1, <4>2
    <3>5. ASSUME NEW b \in Actors, b # a PROVE ListSafe(b)'
      <4>1. ActSame(b) /\ ListSafe(b) /\ ListTells(b)
        BY <2>3, <3>5 DEF Safe, Telling
      <4>2. CASE apc[b] = "idle"
        BY <4>1, <4>2 DEF ActSame, ListSafe
      <4>3. CASE apc[b] # "idle"
        <5>1. ASSUME NEW r \in DOMAIN list[b] PROVE list[b][r].owned => disk'[list[b][r].path] \in {NoRun, r}
          <6>1. list[b][r] \in Payload
            BY ListIs DEF IndInv, Types
          <6>2. Own(r, list[b][r]) /\ (list[b][r].owned => list[b][r].path # None)
            BY <4>1, <4>3 DEF ListSafe, ListTells, Sound
          <6> QED
            BY <2>9, <6>1, <6>2
        <5> QED
          BY <2>3, <4>1, <5>1 DEF ActSame, ListSafe, Own
      <4> QED
        BY <4>2, <4>3
    <3>6. ASSUME Users = {}, NEW q \in Procs, q # a PROVE Alone(q)'
      <4>1. ActSame(q)
        BY <2>3, <3>6, ProcsAct
      <4> QED
        BY <1>1, <2>3, <3>6, <4>1 DEF Safe, Alone, ActSame
    <3> QED
      BY <2>7, <2>10, <3>3, <3>4, <3>5, <3>6 DEF Safe
  <2> QED
    BY <2>3, <2>11, <2>12
<1>6. CASE DeleteSettles(a)
  <2>0. PICK c : c = cur[a]
    OBVIOUS
  <2>1. /\ apc[a] \in {"settle", "failed"} /\ (a \in Procs => ppc[a] = "delete") /\ c \in DOMAIN list[a]
        /\ UNCHANGED disk /\ \A b \in Actors : b # a => ActSame(b)
        /\ DOMAIN list'[a] = DOMAIN list[a] \ {c}
        /\ \A r \in DOMAIN list'[a] : list'[a][r] = list[a][r]
        /\ apc'[a] = (IF DOMAIN list'[a] = {} THEN "idle" ELSE "snapshot")
        /\ \A r \in Runs : r # c => RowSame(r)
        /\ \/ state[c] # "deleting" /\ RowSame(c)
           \/ state[c] = "deleting" /\ apc[a] = "settle" /\ state'[c] = "removed" /\ payload'[c] = Blank
           \/ /\ state[c] = "deleting" /\ apc[a] = "failed" /\ state'[c] = list[a][c].status
              /\ payload'[c] = list[a][c]
    BY <1>6, <2>0, SettleDoes
  <2>2. list[a][c].status \in Finished /\ c \in Runs /\ (apc[a] = "failed" => list[a][c].status # "success")
    BY <1>1, <1>2, <2>0, <2>1 DEF IndInv, Cleaning, CleaningOK, ListSafe
  <2>3. Settled
    <3>1. state'[c] \in {"success", "deleting"} => RowSame(c)
      BY <2>1, <2>2 DEF Finished
    <3>2. state[c] = "success" => state'[c] = "success"
      BY <2>1 DEF RowSame
    <3> QED
      BY <2>1, <3>1, <3>2 DEF Settled, RowSame
  <2>4. ListSafe(a)'
    <3>1. ASSUME NEW r \in DOMAIN list'[a] PROVE Own(r, list[a][r]) /\ state'[r] # "success" /\ list'[a][r] = list[a][r]
      <4>1. r \in DOMAIN list[a] /\ r # c /\ r \in Runs
        BY <1>1, <2>1
      <4> QED
        BY <1>2, <2>1, <4>1 DEF ListSafe, RowSame
    <3> QED
      BY <2>1, <3>1 DEF ListSafe, Own
  <2>5. a \in Procs /\ Users = {} => Alone(a)'
    <3> SUFFICES ASSUME a \in Procs, Users = {} PROVE Alone(a)'
      OBVIOUS
    <3>1. ASSUME NEW r \in Runs, state'[r] = "deleting" PROVE r \in DOMAIN list'[a]
      <4>1. r # c /\ state[r] = "deleting"
        BY <2>1, <2>2, <3>1 DEF RowSame, Finished
      <4>2. r \in DOMAIN list[a]
        BY <1>2, <2>1, <4>1 DEF Alone, Outside
      <4> QED
        BY <2>1, <4>1, <4>2
    <3> QED
      BY <1>1, <2>1, <3>1 DEF Alone
  <2>6. RestSame(a)
    BY <1>1, <2>1 DEF RestSame
  <2> QED
    BY <1>3, <2>1, <2>3, <2>4, <2>5, <2>6, QuietSafe
<1> QED
  BY <1>4, <1>5, <1>6

\* At the start.
LEMMA InitSafe == Init => Safe
  BY DEF Init, Safe, RowSafe, ProcSafe, ListSafe, Alone, Outside

\* Every step.
LEMMA StepSafe == ASSUME Sure PROVE IndInv /\ Telling /\ Safe /\ [Next]_vars => Safe'
<1> SUFFICES ASSUME IndInv, Telling, Safe, [Next]_vars PROVE Safe'
  OBVIOUS
<1>1. CASE UNCHANGED vars
  <2>1. UNCHANGED <<state, payload, plan, disk, ppc, job, mem, watch, apc, list, cur, others>>
    BY <1>1 DEF vars, rowVars, procVars, workVars, actVars
  <2> QED
    BY <2>1, SettledSame, RowsOnlySafe
<1>2. ASSUME NEW p \in Procs, LeaderNext(p) PROVE Safe'
  BY <1>2, TickSafe, EndSafe, RetainSafe DEF LeaderNext
<1>3. ASSUME NEW p \in Procs, \/ \E how \in {"drain", "stop"} : Stop(p, how)
                              \/ Leave(p) \/ Crash(p) \/ Restart(p)
      PROVE  Safe'
  BY <1>3, TickSafe
<1> QED
  BY <1>1, <1>2, <1>3, CommandSafe, WorkerSafe, ActorSafe DEF Next

\* Where no statement of the leader fails, a successful run has its file, across crashes,
\* panics, recoveries and interrupted deletions: with {runId} in the patterns whatever
\* users delete meanwhile, and with patterns that repeat paths if no user deletes runs.
THEOREM SuccessKeepsFile ==
  ASSUME ~Errors, UniquePaths \/ Users = {} PROVE Spec => []SuccessHasFile
<1>1. Sure
  BY DEF Sure
<1>2. IndInv /\ Telling /\ Safe => SuccessHasFile
  <2> SUFFICES ASSUME IndInv, Telling, Safe, NEW r \in Runs, state[r] = "success"
               PROVE  payload[r].path # None /\ disk[payload[r].path] = r
    BY DEF SuccessHasFile
  <2>1. Sound(payload[r]) /\ payload[r].status = "success"
    BY DEF Telling, RowTells, Finished
  <2> QED
    BY <2>1 DEF Sound, Safe, RowSafe
<1>3. IndInv /\ Telling /\ Safe /\ [Next]_vars => Safe'
  BY <1>1, StepSafe
<1> QED
  BY <1>2, <1>3, InitSafe, AlwaysTells, PTL DEF Spec

-----------------------------------------------------------------------------
(* A removed run leaves no file.                                           *)

\* What is claimed where no two runs share a path and no process crashes; statements may
\* fail if no process is ever stopped.
Firm == UniquePaths /\ (Errors => MaxStops = 0)

HasFile(r) == r \in Paths /\ disk[r] = r

\* A leader that is never stopped leads for ever.
Stuck == MaxStops = 0 /\ \E p \in Procs : ppc[p] \notin Outside

\* Somebody is busy with the run that is running, or nobody will ever recover it.
Busy == {"work", "clean", "finish"}
Held(r) == Stuck \/ \E p \in Procs : job[p] = r /\ ppc[p] \in Busy

\* As long as run r has a file, its row knows it or will.
RowKnown(r) ==
  HasFile(r) =>
    /\ state[r] \in Finished \cup {"deleting", "running"}
    /\ state[r] # "running" => payload[r].path = r
    /\ state[r] = "running" => Held(r)

\* So does the process that executes it, even if its worker panics, ...
ProcKnown(p) ==
  /\ ppc[p] = "check" \/ wpc[p] \in {"start", "send", "create"} => ~HasFile(job[p])
  /\ ppc[p] \in {"work", "finish"} /\ HasFile(job[p]) => mem[p].path = job[p]
  /\ wpc[p] \in {"create", "export"} => watch[p].path = mem[p].path

\* ... and whoever deletes it.
ListKnown(a) == apc[a] # "idle" => \A r \in DOMAIN list[a] : HasFile(r) => list[a][r].path = r

Unstopped == MaxStops = 0 => \A p \in Procs : stopping[p] = "no"

Known ==
  /\ \A r \in Runs : RowKnown(r)
  /\ \A p \in Procs : ProcKnown(p)
  /\ \A a \in Actors : ListKnown(a)
  /\ Unstopped

\* No file appears.
NoFiles == \A r \in Runs : HasFile(r)' => HasFile(r)

\* The files stay.
LEMMA SameFiles == ASSUME disk' = disk PROVE NoFiles
  BY DEF NoFiles, HasFile

\* A row that stays.
LEMMA RowKnownKept ==
  ASSUME NoFiles, NEW r \in Runs, RowKnown(r), RowSame(r), Held(r) => Held(r)'
  PROVE  RowKnown(r)'
  BY DEF NoFiles, RowKnown, RowSame

\* A row that has no file.
LEMMA NoFileKnown == ASSUME NoFiles, NEW r \in Runs, ~HasFile(r) PROVE RowKnown(r)'
  BY DEF NoFiles, RowKnown

\* The run that somebody is busy with, when p takes a step.
LEMMA HeldKept ==
  ASSUME NEW p, \A q \in Procs : q # p => ProcSame(q), NEW r, Held(r),
         p \in Procs /\ MaxStops = 0 /\ ppc[p] \notin Outside => ppc'[p] \notin Outside,
         p \in Procs /\ job[p] = r /\ ppc[p] \in Busy => (job'[p] = r /\ ppc'[p] \in Busy) \/ Stuck'
  PROVE  Held(r)'
<1>1. CASE Stuck
  <2>1. PICK q \in Procs : ppc[q] \notin Outside
    BY <1>1 DEF Stuck
  <2>2. ppc'[q] \notin Outside
    BY <1>1, <2>1 DEF Stuck, ProcSame
  <2> QED
    BY <1>1, <2>2 DEF Stuck, Held
<1>2. CASE \E q \in Procs : job[q] = r /\ ppc[q] \in Busy
  BY <1>2 DEF Held, ProcSame
<1> QED
  BY <1>1, <1>2 DEF Held

\* A process that does nothing.
LEMMA ProcKnownKept ==
  ASSUME IndInv, NoFiles, NEW q \in Procs, ProcKnown(q), ProcSame(q)
  PROVE  ProcKnown(q)'
<1>1. ppc[q] \in {"check", "work", "finish"} \/ wpc[q] # "none" => job[q] \in Runs
  BY DEF IndInv, Working, WorkingOK
<1> QED
  BY <1>1 DEF NoFiles, ProcKnown, ProcSame, HasFile

\* An actor that does nothing.
LEMMA ListKnownKept ==
  ASSUME NoFiles, NEW a \in Actors, ListKnown(a), ActSame(a), DOMAIN list[a] \subseteq Runs
  PROVE  ListKnown(a)'
  BY DEF NoFiles, ListKnown, ActSame

\* A step of p.
LEMMA KnownStep ==
  ASSUME IndInv, Known, NoFiles, NEW p \in Actors, RestSame(p), \A r \in Runs : RowKnown(r)',
         p \in Procs => ProcKnown(p)', ListKnown(p)', Unstopped'
  PROVE  Known'
<1>1. \A q \in Procs : ProcKnown(q)'
  BY ProcKnownKept DEF RestSame, Known
<1>2. ASSUME NEW a \in Actors, a # p PROVE ListKnown(a)'
  <2>1. DOMAIN list[a] \subseteq Runs
    BY ListIs DEF IndInv, Types
  <2> QED
    BY <1>2, <2>1, ListKnownKept DEF RestSame, Known
<1> QED
  BY <1>1, <1>2 DEF Known

\* Only rows change.
LEMMA RowsOnlyKnown ==
  ASSUME IndInv, Known, UNCHANGED <<disk, ppc, stopping, job, wpc, mem, watch, latest, apc, list, cur, others>>,
         \A r \in Runs : RowSame(r) \/ ~HasFile(r)
  PROVE  Known'
<1>1. (\A q \in Procs : ProcSame(q)) /\ (\A a \in Actors : ActSame(a)) /\ NoFiles
  BY SameFiles DEF ProcSame, ActSame
<1>2. \A r : Held(r) => Held(r)'
  BY DEF Held, Stuck
<1>3. \A r \in Runs : RowKnown(r)'
  BY <1>1, <1>2, RowKnownKept, NoFileKnown DEF Known
<1>4. \A q \in Procs : ProcKnown(q)'
  BY <1>1, ProcKnownKept DEF Known
<1>5. ASSUME NEW a \in Actors PROVE ListKnown(a)'
  BY <1>1, ListIs, ListKnownKept DEF Known, IndInv, Types
<1> QED
  BY <1>3, <1>4, <1>5 DEF Known, Unstopped

\* A process at a place where it has no run, and an actor that has nothing to do.
LEMMA IdleKnown ==
  /\ \A p \in Procs : ppc'[p] \notin {"check", "work", "finish"} /\ wpc'[p] = "none" => ProcKnown(p)'
  /\ \A a \in Actors : apc'[a] = "idle" => ListKnown(a)'
  BY DEF ProcKnown, ListKnown

\* mark_deleting.
LEMMA MarkKnown ==
  ASSUME IndInv, Known, NEW a \in Actors, NEW R \in SUBSET Runs, MarkDeleting(a, R), \A r \in R : Deletable(r),
         UNCHANGED <<disk, ppc, stopping, job, wpc, mem, watch, latest>>
  PROVE  Known'
<1>1. /\ \A r \in R : state'[r] = "deleting" /\ payload'[r] = payload[r] /\ plan'[r] = plan[r]
      /\ \A r \in Runs : r \notin R => RowSame(r)
      /\ DOMAIN list'[a] = R /\ \A r \in R : list'[a][r] = payload[r]
      /\ \A b \in Actors : b # a => ActSame(b)
  BY MarkDoes
<1>2. NoFiles /\ (\A q \in Procs : ProcSame(q)) /\ \A r : Held(r) => Held(r)'
  BY SameFiles DEF ProcSame, Held, Stuck
<1>3. ASSUME NEW r \in R PROVE HasFile(r) => payload[r].path = r
  BY DEF Known, RowKnown, Deletable, Finished
<1>4. ASSUME NEW r \in Runs PROVE RowKnown(r)'
  <2>1. CASE r \in R
    BY <1>1, <1>2, <1>3, <2>1 DEF RowKnown, NoFiles
  <2>2. CASE r \notin R
    BY <1>1, <1>2, <2>2, RowKnownKept DEF Known
  <2> QED
    BY <2>1, <2>2
<1>5. ListKnown(a)'
  BY <1>1, <1>2, <1>3 DEF ListKnown, NoFiles
<1> QED
  BY <1>1, <1>2, <1>4, <1>5, ProcKnownKept, KnownStep DEF RestSame, Known, Unstopped

\* The commands.
LEMMA CommandKnown == ASSUME IndInv, Telling, Known, Firm, CommandNext PROVE Known'
<1>1. ASSUME NEW s \in Schedules,
             \/ TimePasses(s) \/ DeleteSchedule(s)
             \/ \E e \in {"on", "off"}, edited \in BOOLEAN : SaveSchedule(s, e, edited)
      PROVE  Known'
  <2>1. AllStill /\ UNCHANGED <<state, payload, plan>>
    BY <1>1, ScheduleDoes
  <2> QED
    BY <2>1, RowsOnlyKnown DEF AllStill, RowSame
<1>2. ASSUME NEW s \in Schedules \cup {None}, Enqueue(s) PROVE Known'
  <2>1. AllStill /\ Queues
    BY <1>2, EnqueueDoes
  <2>2. \A r \in Runs : RowSame(r) \/ ~HasFile(r)
    BY <2>1 DEF Queues, Known, RowKnown, Finished
  <2> QED
    BY <2>1, <2>2, RowsOnlyKnown DEF AllStill
<1>3. ASSUME NEW r \in Runs, Cancel(r) PROVE Known'
  <2>1. /\ AllStill /\ \A q \in Runs : q # r => RowSame(q)
        /\ RowSame(r) \/ state[r] = "queued"
    BY <1>3, CancelDoes
  <2>2. \A q \in Runs : RowSame(q) \/ ~HasFile(q)
    BY <2>1 DEF Known, RowKnown, Finished
  <2> QED
    BY <2>1, <2>2, RowsOnlyKnown DEF AllStill
<1>4. ASSUME NEW u \in Users, DropCommand(u) PROVE Known'
  <2>1. u \in Actors /\ u \notin Procs
    BY ActorsAssumption, ProcsAct
  <2>2. UNCHANGED <<state, payload, plan, disk, lock, ppc, stopping, job, wpc, mem, watch, latest>> /\ Forget(u)
    BY <1>4 DEF DropCommand, procVars, workVars, rowVars
  <2>3. apc'[u] = "idle" /\ \A b \in Actors : b # u => ActSame(b)
    BY <2>1, <2>2, ForgetDoes
  <2>4. RestSame(u) /\ NoFiles
    BY <2>2, <2>3, SameFiles DEF RestSame, ProcSame
  <2>5. \A r \in Runs : RowKnown(r)'
    BY <2>2, <2>4, RowKnownKept DEF RowSame, Held, Stuck, Known
  <2>6. Unstopped'
    BY <2>2 DEF Known, Unstopped
  <2> QED
    BY <2>1, <2>3, <2>4, <2>5, <2>6, IdleKnown, KnownStep
<1>5. ASSUME NEW u \in Users, DeleteRuns(u) PROVE Known'
  <2>1. u \in Actors
    BY ProcsAct
  <2>2. UNCHANGED <<disk, ppc, stopping, job, wpc, mem, watch, latest>>
    BY <1>5 DEF DeleteRuns, procVars, workVars
  <2>3. PICK R \in SUBSET {r \in Runs : Deletable(r)} : MarkDeleting(u, R)
    BY <1>5 DEF DeleteRuns
  <2>4. R \in SUBSET Runs /\ \A r \in R : Deletable(r)
    BY <2>3
  <2> QED
    BY <2>1, <2>2, <2>3, <2>4, MarkKnown
<1> QED
  BY <1>1, <1>2, <1>3, <1>4, <1>5 DEF CommandNext

\* The leader until it starts its worker, and the life of a process.
LEMMA TickKnown ==
  ASSUME IndInv, Telling, Known, Firm, NEW p \in Procs,
         \/ TryLock(p) \/ RecoverFails(p) \/ Leave(p) \/ Restart(p) \/ \E how \in {"drain", "stop"} : Stop(p, how)
         \/ Recover(p) \/ EnqueueDue(p) \/ Claim(p) \/ TickFails(p) \/ StartWorker(p) \/ PollCancel(p) \/ PollStore(p)
  PROVE  Known'
<1>1. p \in Actors /\ ProcKnown(p) /\ ListKnown(p) /\ Unstopped /\ \A r \in Runs : RowKnown(r)
  BY ProcsAct DEF Known
<1>2. CASE TryLock(p) \/ RecoverFails(p) \/ Leave(p) \/ Restart(p)
  <2>1. /\ UNCHANGED <<state, payload, plan, disk, job, wpc, mem, watch, latest, apc, list, cur, others>>
        /\ ppc[p] \in {"idle", "recover", "lead", "down"} /\ ppc'[p] \in {"recover", "idle", "down"}
        /\ \A q \in Procs : q # p => ppc'[q] = ppc[q] /\ stopping'[q] = stopping[q]
        /\ stopping'[p] \in {stopping[p], "no"} /\ (ppc[p] = "lead" => stopping[p] # "no")
    BY <1>2, LockDoes
  <2>2. RestSame(p) /\ apc[p] = "idle" /\ wpc[p] = "none" /\ NoFiles
    BY <2>1, NoWorker, SameFiles DEF RestSame, ProcSame, ActSame
  <2>3. MaxStops = 0 => ppc[p] \in Outside
    BY <1>1, <2>1 DEF Unstopped, Outside
  <2>4. ASSUME NEW r \in Runs PROVE RowKnown(r)'
    <3>1. Held(r) => Held(r)'
      BY <2>1, <2>2, <2>3, HeldKept DEF RestSame, Busy
    <3> QED
      BY <1>1, <2>1, <2>2, <3>1, RowKnownKept DEF RowSame
  <2>5. Unstopped'
    BY <1>1, <2>1 DEF Unstopped
  <2> QED
    BY <1>1, <2>1, <2>2, <2>4, <2>5, IdleKnown, KnownStep
<1>3. CASE \E how \in {"drain", "stop"} : Stop(p, how)
  <2>1. /\ UNCHANGED <<state, payload, plan, disk, lock, ppc, job, wpc, mem, watch, latest, apc, list, cur, others>>
        /\ MaxStops # 0
    BY <1>3, StopDoes
  <2>2. \A r : HasFile(r)' = HasFile(r) /\ Held(r)' = Held(r)
    BY <2>1 DEF HasFile, Held, Stuck
  <2> QED
    BY <2>1, <2>2 DEF Known, RowKnown, ProcKnown, ListKnown, Unstopped
<1>4. CASE Recover(p)
  <2>1. /\ ppc[p] = "recover" /\ ppc' = [ppc EXCEPT ![p] = "lead"]
        /\ UNCHANGED <<disk, lock, stopping, job, wpc, mem, watch, latest, apc, list, cur, others>>
        /\ \A r \in Runs : IF state[r] \in {"running", "deleting"} THEN Ends(r, "failed") ELSE RowSame(r)
    BY <1>4, RecoverDoes
  <2>2. ppc'[p] = "lead" /\ \A q \in Procs : q # p => ppc'[q] = ppc[q]
    BY <2>1 DEF IndInv, Types, ProcType
  <2>3. RestSame(p) /\ apc[p] = "idle" /\ wpc[p] = "none" /\ NoFiles
    BY <2>1, <2>2, NoWorker, SameFiles DEF RestSame, ProcSame, ActSame
  <2>4. \A r : ~Held(r)
    <3>1. \A q \in Procs : q # p => ppc[q] \in {"down", "idle"}
      BY <2>1, OneLeads
    <3> QED
      BY <2>1, <3>1 DEF Held, Stuck, Busy, Outside
  <2>5. ASSUME NEW r \in Runs PROVE RowKnown(r)'
    <3>1. CASE RowSame(r)
      BY <1>1, <2>3, <2>4, <3>1, RowKnownKept
    <3>2. CASE Ends(r, "failed") /\ state[r] \in {"running", "deleting"}
      BY <1>1, <2>3, <2>4, <3>2 DEF RowKnown, Ends, NoFiles, Finished
    <3> QED
      BY <2>1, <3>1, <3>2
  <2>6. Unstopped'
    BY <1>1, <2>1 DEF Unstopped
  <2> QED
    BY <1>1, <2>1, <2>2, <2>3, <2>5, <2>6, IdleKnown, KnownStep
<1>5. CASE EnqueueDue(p)
  <2>1. /\ Queues /\ ppc[p] = "lead" /\ ppc' = [ppc EXCEPT ![p] = "claim"]
        /\ UNCHANGED <<disk, lock, stopping, job, wpc, mem, watch, latest, apc, list, cur, others>>
    BY <1>5, EnqueueDueDoes
  <2>2. ppc'[p] = "claim" /\ \A q \in Procs : q # p => ppc'[q] = ppc[q]
    BY <2>1 DEF IndInv, Types, ProcType
  <2>3. RestSame(p) /\ apc[p] = "idle" /\ wpc[p] = "none" /\ NoFiles
    BY <2>1, <2>2, NoWorker, SameFiles DEF RestSame, ProcSame, ActSame
  <2>4. ASSUME NEW r \in Runs PROVE RowKnown(r)'
    <3>1. Held(r) => Held(r)'
      BY <2>1, <2>2, <2>3, HeldKept DEF RestSame, Busy, Outside
    <3>2. RowSame(r) \/ ~HasFile(r)
      BY <1>1, <2>1 DEF Queues, RowKnown, Finished
    <3> QED
      BY <1>1, <2>3, <3>1, <3>2, RowKnownKept, NoFileKnown
  <2>5. Unstopped'
    BY <1>1, <2>1 DEF Unstopped
  <2> QED
    BY <1>1, <2>1, <2>2, <2>3, <2>4, <2>5, IdleKnown, KnownStep
<1>6. CASE Claim(p)
  <2>1. /\ ppc[p] = "claim"
        /\ UNCHANGED <<payload, plan, disk, lock, stopping, wpc, mem, watch, latest, apc, list, cur, others>>
        /\ \A q \in Procs : q # p => ppc'[q] = ppc[q] /\ job'[q] = job[q]
        /\ \/ ppc'[p] = "lead" /\ UNCHANGED state
           \/ \E r \in Runs : /\ ppc'[p] = "check" /\ job'[p] = r /\ state[r] = "queued" /\ state'[r] = "running"
                              /\ \A q \in Runs : q # r => state'[q] = state[q]
    BY <1>6, ClaimDoes
  <2>2. RestSame(p) /\ apc[p] = "idle" /\ wpc[p] = "none" /\ NoFiles
    BY <2>1, NoWorker, SameFiles DEF RestSame, ProcSame, ActSame
  <2>3. ppc'[p] \in {"lead", "check"} /\ \A r \in Runs : RowSame(r) \/ state[r] = "queued"
    BY <2>1 DEF RowSame
  <2>4. \A r \in Runs : state[r] = "queued" => ~HasFile(r)
    BY <1>1 DEF RowKnown, Finished
  <2>5. ASSUME NEW r \in Runs PROVE RowKnown(r)'
    <3>1. Held(r) => Held(r)'
      BY <2>1, <2>2, <2>3, HeldKept DEF RestSame, Busy, Outside
    <3> QED
      BY <1>1, <2>2, <2>3, <2>4, <3>1, RowKnownKept, NoFileKnown
  <2>6. ProcKnown(p)'
    <3>1. ppc'[p] = "check" => ~HasFile(job'[p])
      BY <2>1, <2>4
    <3> QED
      BY <2>1, <2>2, <2>3, <3>1 DEF ProcKnown, HasFile
  <2>7. Unstopped'
    BY <1>1, <2>1 DEF Unstopped
  <2> QED
    BY <1>1, <2>1, <2>2, <2>5, <2>6, <2>7, IdleKnown, KnownStep
<1>7. CASE TickFails(p)
  <2>1. /\ Errors /\ ppc[p] \in {"claim", "check", "finish", "retain", "delete"} /\ ppc'[p] = "lead"
        /\ UNCHANGED <<state, payload, plan, disk, lock, stopping, wpc, watch, latest>> /\ RestSame(p)
        /\ wpc[p] = "none" /\ apc'[p] = "idle"
    BY <1>7, TickFailsDoes
  <2>2. \A r : Held(r)'
    BY <2>1 DEF Firm, Held, Stuck, Outside
  <2>3. NoFiles /\ \A r \in Runs : RowKnown(r)'
    BY <1>1, <2>1, <2>2, SameFiles, RowKnownKept DEF RowSame
  <2>4. Unstopped'
    BY <1>1, <2>1 DEF Unstopped
  <2> QED
    BY <1>1, <2>1, <2>3, <2>4, IdleKnown, KnownStep
<1>8. CASE StartWorker(p)
  <2>1. /\ ppc[p] = "check" /\ ppc'[p] = "work" /\ wpc'[p] = "start" /\ mem'[p] = Blank /\ watch'[p] = Blank
        /\ UNCHANGED <<state, payload, plan, disk, lock, stopping, job, latest, apc, list, cur, others>> /\ RestSame(p)
    BY <1>8, StartDoes
  <2>2. apc[p] = "idle" /\ NoFiles /\ \A r : HasFile(r)' = HasFile(r)
    BY <2>1, NoWorker, SameFiles DEF HasFile
  <2>3. ASSUME NEW r \in Runs PROVE RowKnown(r)'
    <3>1. Held(r) => Held(r)'
      BY <2>1, HeldKept DEF RestSame, Busy, Outside
    <3> QED
      BY <1>1, <2>1, <2>2, <3>1, RowKnownKept DEF RowSame
  <2>4. ProcKnown(p)'
    BY <1>1, <2>1, <2>2 DEF ProcKnown, HasFile
  <2>5. Unstopped'
    BY <1>1, <2>1 DEF Unstopped
  <2> QED
    BY <1>1, <2>1, <2>2, <2>3, <2>4, <2>5, IdleKnown, KnownStep
<1>9. CASE PollCancel(p) \/ PollStore(p)
  <2>1. /\ UNCHANGED <<disk, ppc, stopping, job, wpc, mem, watch, apc, list, cur, others>>
        /\ \A r \in Runs : state'[r] = state[r] /\ (payload'[r] = payload[r] \/ state[r] = "running")
    <3>1. CASE PollCancel(p)
      BY <3>1, PollDoes
    <3>2. CASE PollStore(p)
      <4>1. ppc[p] = "work" /\ Stores(job[p], latest[p])
            /\ UNCHANGED <<disk, lock, ppc, stopping, job, wpc, mem, watch, apc, list, cur, others>>
        BY <3>2, StoreDoes
      <4>2. state[job[p]] = "running"
        BY <4>1 DEF IndInv, Working, WorkingOK
      <4> QED
        BY <4>1, <4>2 DEF Stores, RowSame
    <3> QED
      BY <1>9, <3>1, <3>2
  <2>2. \A r : HasFile(r)' = HasFile(r) /\ Held(r)' = Held(r)
    BY <2>1 DEF HasFile, Held, Stuck
  <2>3. \A r \in Runs : RowKnown(r)'
    BY <1>1, <2>1, <2>2 DEF RowKnown
  <2> QED
    BY <2>1, <2>2, <2>3 DEF Known, ProcKnown, ListKnown, Unstopped, HasFile
<1> QED
  BY <1>2, <1>3, <1>4, <1>5, <1>6, <1>7, <1>8, <1>9

\* The worker thread.
LEMMA WorkerKnown == ASSUME IndInv, Telling, Known, Firm, NEW p \in Procs, WorkerNext(p) PROVE Known'
<1>1. /\ ppc[p] = "work" /\ wpc[p] # "none" /\ job[p] \in Runs /\ state[job[p]] = "running"
      /\ UNCHANGED <<state, plan, lock, ppc, stopping, job, latest, apc, list, cur, others>> /\ RestSame(p)
  BY WorkerDoes
<1>2. WorkerTells(p) /\ ProcKnown(p) /\ p \in Actors
  BY ProcsAct DEF Telling, Known
<1>3. ListKnown(p)' /\ Unstopped' /\ \A r : Held(r)' = Held(r)
  BY <1>1, <1>2, NoWorker, IdleKnown DEF Known, Unstopped, Held, Stuck
<1>4. CASE disk' = disk /\ ProcKnown(p)' /\ \A r \in Runs : payload'[r] = payload[r] \/ state[r] = "running"
  <2>1. \A r \in Runs : RowKnown(r)'
    BY <1>1, <1>3, <1>4, SameFiles DEF Known, RowKnown, NoFiles
  <2> QED
    BY <1>1, <1>2, <1>3, <1>4, <2>1, SameFiles, KnownStep
<1>5. disk' = disk => (HasFile(job[p])' <=> HasFile(job[p]))
  BY <1>1 DEF HasFile
<1>6. CASE Records(p)
  <2>1. \A r \in Runs : payload'[r] = payload[r] \/ state[r] = "running"
    BY <1>1, <1>6 DEF Records, Stores, RowSame
  <2>2. ProcKnown(p)'
    BY <1>1, <1>2, <1>5, <1>6 DEF Records, ProcKnown, Firm
  <2> QED
    BY <1>4, <1>6, <2>1, <2>2 DEF Records
<1>7. CASE GivesUp(p)
  <2>1. wpc'[p] = "done" /\ wpc[p] \in {"start", "create"} /\ UNCHANGED <<payload, disk, watch>>
    BY <1>7 DEF GivesUp, EndsWith
  <2>2. ProcKnown(p)'
    BY <1>1, <1>2, <1>5, <2>1 DEF ProcKnown
  <2> QED
    BY <1>4, <2>1, <2>2
<1>8. CASE Sends(p)
  <2>1. ProcKnown(p)'
    BY <1>1, <1>2, <1>5, <1>8 DEF Sends, ProcKnown
  <2> QED
    BY <1>4, <1>8, <2>1 DEF Sends
<1>9. CASE Finishes(p)
  <2>1. wpc'[p] = "done" /\ mem'[p].path = mem[p].path /\ UNCHANGED <<payload, disk, watch>>
    BY <1>9 DEF Finishes, EndsWith
  <2>2. ProcKnown(p)'
    BY <1>1, <1>2, <1>5, <2>1 DEF ProcKnown
  <2> QED
    BY <1>4, <2>1, <2>2
<1>10. CASE Panics(p)
  <2>1. /\ wpc[p] \in {"start", "send", "create", "export"} /\ UNCHANGED <<payload, disk, watch>>
        /\ wpc'[p] = "done" /\ mem'[p].path = watch[p].path
    BY <1>10 DEF Panics, EndsWith
  <2>2. ProcKnown(p)'
    BY <1>1, <1>2, <1>5, <2>1 DEF ProcKnown
  <2> QED
    BY <1>4, <2>1, <2>2
<1>11. CASE Creates(p)
  <2>1. PICK j \in Runs : j = job[p] /\ state[j] = "running"
    BY <1>1
  <2>2. /\ wpc[p] = "create" /\ wpc'[p] = "export" /\ UNCHANGED <<payload, watch>>
        /\ disk' = [disk EXCEPT ![mem[p].path] = j] /\ mem'[p].path = mem[p].path
    BY <1>11, <2>1 DEF Creates
  <2>3. mem[p].path = j
    BY <1>1, <1>2, <2>1, <2>2 DEF WorkerTells, Fits, Firm
  <2>4. ASSUME NEW r \in Runs, r # j, HasFile(r)' PROVE HasFile(r)
    BY <2>2, <2>3, <2>4 DEF HasFile, IndInv, Types, RestType
  <2>5. ASSUME NEW r \in Runs PROVE RowKnown(r)'
    <3>1. CASE r = j
      <4>1. Held(j)
        BY <1>1, <2>1 DEF Held, Busy
      <4> QED
        BY <1>1, <1>3, <2>1, <3>1, <4>1 DEF RowKnown
    <3>2. CASE r # j
      BY <1>1, <1>3, <2>2, <2>4, <3>2 DEF Known, RowKnown
    <3> QED
      BY <3>1, <3>2
  <2>6. ASSUME NEW q \in Procs PROVE ProcKnown(q)'
    <3>1. CASE q = p
      BY <1>1, <1>2, <2>1, <2>2, <2>3, <3>1 DEF ProcKnown
    <3>2. CASE q # p
      <4>1. ppc[q] \in {"down", "idle"} /\ ppc'[q] = ppc[q] /\ wpc'[q] = wpc[q]
        BY <1>1, <3>2, OneLeads DEF RestSame, ProcSame
      <4>2. wpc[q] = "none"
        BY <4>1, NoWorker
      <4> QED
        BY <4>1, <4>2, IdleKnown
    <3> QED
      BY <3>1, <3>2
  <2>7. ASSUME NEW a \in Actors PROVE ListKnown(a)'
    <3>1. CASE apc[a] = "idle"
      BY <1>1, <3>1, IdleKnown
    <3>2. CASE apc[a] # "idle"
      <4>1. j \notin DOMAIN list[a]
        <5>1. ~Ended(j)
          BY <2>1 DEF Ended, Finished
        <5>2. ~Cleans(a, j)
          BY <1>1, OneLeads DEF Cleans
        <5> QED
          BY <3>2, <5>1, <5>2 DEF Telling, ListTells
      <4>2. DOMAIN list[a] \subseteq Runs
        BY ListIs DEF IndInv, Types
      <4> QED
        BY <1>1, <2>4, <4>1, <4>2 DEF Known, ListKnown
    <3> QED
      BY <3>1, <3>2
  <2> QED
    BY <1>3, <2>5, <2>6, <2>7 DEF Known
<1> QED
  BY <1>6, <1>7, <1>8, <1>9, <1>10, <1>11, WorkerDoesOne

\* The end of the run.
LEMMA EndKnown ==
  ASSUME IndInv, Telling, Known, Firm, NEW p \in Procs, Join(p) \/ Cleaned(p) \/ Finish(p)
  PROVE  Known'
<1>1. WorkerTells(p) /\ ListTells(p) /\ ProcKnown(p) /\ ListKnown(p) /\ p \in Actors /\ Unstopped /\ \A r \in Runs : RowKnown(r)
  BY ProcsAct DEF Telling, Known
<1>2. CASE Join(p)
  <2>1. /\ ppc[p] = "work" /\ wpc[p] = "done" /\ wpc'[p] = "none" /\ latest[p] = None
        /\ UNCHANGED <<state, payload, plan, disk, lock, stopping, job, mem, latest, cur, others>> /\ RestSame(p)
        /\ IF mem[p].status = "success"
             THEN ppc'[p] = "finish" /\ apc'[p] = "idle"
             ELSE /\ ppc'[p] = "clean" /\ apc'[p] = "snapshot"
                  /\ DOMAIN list'[p] = {job[p]} /\ list'[p][job[p]] = mem[p]
    BY <1>2, JoinDoes
  <2>2. NoFiles /\ Unstopped' /\ \A r : HasFile(r)' <=> HasFile(r)
    BY <1>1, <2>1, SameFiles DEF HasFile, Unstopped
  <2>3. ASSUME NEW r \in Runs PROVE RowKnown(r)'
    <3>1. Held(r) => Held(r)'
      BY <2>1, HeldKept DEF RestSame, Busy, Outside
    <3> QED
      BY <1>1, <2>1, <2>2, <3>1, RowKnownKept DEF RowSame
  <2>4. ProcKnown(p)'
    BY <1>1, <2>1 DEF ProcKnown, HasFile
  <2>5. ListKnown(p)'
    BY <1>1, <2>1, <2>2 DEF ListKnown, ProcKnown
  <2> QED
    BY <1>1, <2>1, <2>2, <2>3, <2>4, <2>5, KnownStep
<1>3. CASE Cleaned(p)
  <2>1. /\ ppc[p] = "clean" /\ ppc'[p] = "finish" /\ apc[p] \in {"settle", "failed"} /\ mem'[p] = list[p][job[p]]
        /\ UNCHANGED <<state, payload, plan, disk, lock, stopping, job, wpc, watch, latest>> /\ RestSame(p)
        /\ apc'[p] = "idle" /\ DOMAIN list'[p] = {}
    BY <1>3, CleanedDoes
  <2>2. NoFiles /\ Unstopped' /\ \A r : HasFile(r)' <=> HasFile(r)
    BY <1>1, <2>1, SameFiles DEF HasFile, Unstopped
  <2>3. ASSUME NEW r \in Runs PROVE RowKnown(r)'
    <3>1. Held(r) => Held(r)'
      BY <2>1, HeldKept DEF RestSame, Busy, Outside
    <3> QED
      BY <1>1, <2>1, <2>2, <3>1, RowKnownKept DEF RowSame
  <2>4. wpc[p] = "none" /\ (HasFile(job[p]) => list[p][job[p]].path = job[p])
    BY <1>1, <2>1, NoWorker DEF ListTells, ListKnown
  <2>5. ProcKnown(p)'
    BY <2>1, <2>4 DEF ProcKnown, HasFile
  <2> QED
    BY <1>1, <2>1, <2>2, <2>3, <2>5, IdleKnown, KnownStep
<1>4. CASE Finish(p)
  <2>0. PICK j \in Runs : j = job[p]
    BY <1>4, FinishDoes
  <2>1. /\ ppc[p] = "finish" /\ ppc'[p] \in {"retain", "lead"} /\ state[j] = "running"
        /\ mem[p].status \in Finished /\ state'[j] = mem[p].status /\ payload'[j] = mem[p]
        /\ \A q \in Runs : q # j => RowSame(q)
        /\ UNCHANGED <<plan, disk, lock, stopping, wpc, watch, latest, apc, list, cur, others>> /\ RestSame(p)
    BY <1>4, <2>0, FinishDoes
  <2>2. NoFiles /\ Unstopped'
    BY <1>1, <2>1, SameFiles DEF Unstopped
  <2>3. ASSUME NEW r \in Runs PROVE RowKnown(r)'
    <3>1. CASE r = j
      BY <1>1, <2>0, <2>1, <2>2, <3>1 DEF RowKnown, ProcKnown, NoFiles, Finished
    <3>2. CASE r # j
      <4>1. Held(r) => Held(r)'
        BY <2>0, <2>1, <3>2, HeldKept DEF RestSame, Outside
      <4> QED
        BY <1>1, <2>1, <2>2, <3>2, <4>1, RowKnownKept
    <3> QED
      BY <3>1, <3>2
  <2>4. apc[p] = "idle" /\ wpc[p] = "none"
    BY <2>1, NoWorker
  <2> QED
    BY <1>1, <2>1, <2>2, <2>3, <2>4, IdleKnown, KnownStep
<1> QED
  BY <1>2, <1>3, <1>4

\* Retention.
LEMMA RetainKnown ==
  ASSUME IndInv, Telling, Known, Firm, NEW p \in Procs, Retain(p) \/ RetainMark(p) \/ Retained(p)
  PROVE  Known'
<1>1. p \in Actors /\ Unstopped /\ \A r \in Runs : RowKnown(r)
  BY ProcsAct DEF Known
<1>2. CASE /\ UNCHANGED <<state, payload, plan, disk, stopping, wpc>> /\ RestSame(p)
           /\ ppc[p] \in {"retain", "delete"} /\ ppc'[p] \in {"lead", "delete"} /\ apc'[p] = "idle"
  <2>1. NoFiles /\ Unstopped' /\ wpc[p] = "none"
    BY <1>1, <1>2, SameFiles, NoWorker DEF Unstopped
  <2>2. ASSUME NEW r \in Runs PROVE RowKnown(r)'
    <3>1. Held(r) => Held(r)'
      BY <1>2, HeldKept DEF RestSame, Busy, Outside
    <3> QED
      BY <1>1, <1>2, <2>1, <3>1, RowKnownKept DEF RowSame
  <2> QED
    BY <1>1, <1>2, <2>1, <2>2, IdleKnown, KnownStep
<1>3. CASE Retain(p)
  BY <1>2, <1>3, RetainDoes
<1>4. CASE RetainMark(p) \/ Retained(p)
  <2> DEFINE R == DOMAIN list[p]
  <2>1. /\ ppc[p] = "delete" /\ UNCHANGED <<disk, lock, stopping, wpc, mem, watch, latest>>
        /\ \A q \in Procs : q # p => ProcSame(q)
        /\ \/ MarkDeleting(p, R) /\ ppc' = ppc /\ job' = job /\ \A r \in R : Deletable(r)
           \/ /\ UNCHANGED <<state, payload, plan>> /\ ppc'[p] = "lead" /\ apc'[p] = "idle"
              /\ \A b \in Actors : b # p => ActSame(b)
    BY <1>4, RetainMarkDoes
  <2>2. R \in SUBSET Runs
    BY <1>1, ListIs DEF IndInv, Types
  <2>3. CASE MarkDeleting(p, R) /\ ppc' = ppc /\ job' = job /\ \A r \in R : Deletable(r)
    BY <1>1, <2>1, <2>2, <2>3, MarkKnown
  <2>4. CASE /\ UNCHANGED <<state, payload, plan>> /\ ppc'[p] = "lead" /\ apc'[p] = "idle"
             /\ \A b \in Actors : b # p => ActSame(b)
    BY <1>2, <2>1, <2>4 DEF RestSame
  <2> QED
    BY <2>1, <2>3, <2>4
<1> QED
  BY <1>3, <1>4

\* cleanup and delete_runs.
LEMMA ActorKnown ==
  ASSUME IndInv, Telling, Known, Firm, NEW a \in Actors, CleanupSnapshot(a) \/ CleanupRemove(a) \/ DeleteSettles(a)
  PROVE  Known'
<1>1. /\ UNCHANGED <<plan, lock, ppc, stopping, job, wpc, mem, watch, latest>>
      /\ \A q \in Procs : ProcSame(q)
      /\ a \in Procs => ppc[a] \in {"clean", "delete"}
      /\ DOMAIN list[a] \subseteq Runs
  BY ActorDoes
<1>2. ListTells(a) /\ ListKnown(a) /\ \A r \in Runs : RowKnown(r)
  BY DEF Telling, Known
<1>3. a \in Procs => ProcKnown(a)'
  BY <1>1, IdleKnown, NoWorker
<1>4. Unstopped' /\ \A r : Held(r)' = Held(r)
  BY <1>1 DEF Known, Unstopped, Held, Stuck
<1>5. \A r \in Runs : HasFile(r) => r # None /\ disk[r] # NoRun
  BY BoundsAssumption DEF HasFile, Runs, NoRun
<1>6. CASE CleanupSnapshot(a)
  <2>1. /\ apc[a] = "snapshot" /\ UNCHANGED <<state, payload, disk, list>> /\ \A b \in Actors : b # a => ActSame(b)
    BY <1>6, SnapshotDoes
  <2>2. NoFiles /\ \A r \in Runs : RowKnown(r)'
    BY <1>1, <1>2, <1>4, <2>1, SameFiles, RowKnownKept DEF RowSame
  <2>3. ListKnown(a)'
    BY <1>1, <1>2, <2>1, <2>2 DEF ListKnown, NoFiles
  <2> QED
    BY <1>1, <1>3, <1>4, <2>1, <2>2, <2>3, KnownStep DEF RestSame
<1>7. CASE CleanupRemove(a)
  <2>1. PICK x \in Payload : x = list[a][cur[a]]
    BY <1>7, RemoveDoes
  <2>2. PICK c \in Runs : c = cur[a] /\ c \in DOMAIN list[a]
    BY <1>1, <1>7, RemoveDoes
  <2>3. /\ apc[a] = "remove" /\ UNCHANGED <<state, payload, cur, others>> /\ \A b \in Actors : b # a => ActSame(b)
        /\ \/ /\ x.path \in {None} \cup others[a] \cup {f \in Paths : disk[f] = NoRun}
              /\ Drops(a, c, x) /\ disk' = disk
           \/ /\ x.path \in Paths /\ x.owned /\ Drops(a, c, x) /\ disk' = [disk EXCEPT ![x.path] = NoRun]
           \/ list'[a] = list[a] /\ disk' = disk
    BY <1>7, <2>1, <2>2, RemoveDoes
  <2>4. /\ x = list[a][c] /\ (HasFile(c) => x.path = c) /\ Fits(c, x) /\ c \notin others[a]
    BY <1>2, <2>1, <2>2, <2>3 DEF ListTells, ListKnown, Firm
  <2>5. NoFiles /\ (Drops(a, c, x) => ~HasFile(c)')
    <3>1. CASE x.path \in {None} \cup others[a] \cup {f \in Paths : disk[f] = NoRun} /\ disk' = disk
      <4>1. ~HasFile(c)
        BY <1>5, <2>4, <3>1
      <4> QED
        BY <3>1, <4>1, SameFiles DEF NoFiles
    <3>2. CASE x.path \in Paths /\ x.owned /\ disk' = [disk EXCEPT ![x.path] = NoRun]
      <4>1. x.path = c
        BY <2>4, <3>2, BoundsAssumption DEF Fits, Firm
      <4>2. disk'[c] = NoRun /\ \A f \in Paths : f # c => disk'[f] = disk[f]
        BY <3>2, <4>1 DEF IndInv, Types, RestType
      <4>3. c # NoRun
        BY BoundsAssumption DEF Runs, NoRun
      <4>4. ~HasFile(c)'
        BY <4>2, <4>3 DEF HasFile
      <4>5. \A r \in Runs : r # c => (HasFile(r)' => HasFile(r))
        BY <4>2 DEF HasFile
      <4> QED
        BY <4>4, <4>5 DEF NoFiles
    <3>3. CASE list'[a] = list[a] /\ disk' = disk
      <4>1. Drops(a, c, x) => ~HasFile(c)
        BY <1>5, <2>2, <2>4, <3>3 DEF Drops
      <4> QED
        BY <3>3, <4>1, SameFiles DEF NoFiles
    <3> QED
      BY <2>3, <3>1, <3>2, <3>3
  <2>6. \A r \in Runs : RowKnown(r)'
    BY <1>1, <1>2, <1>4, <2>3, <2>5, RowKnownKept DEF RowSame
  <2>7. ListKnown(a)'
    <3>1. CASE list'[a] = list[a]
      BY <1>1, <1>2, <2>3, <2>5, <3>1 DEF ListKnown, NoFiles
    <3>2. CASE Drops(a, c, x)
      <4>1. ASSUME NEW r \in DOMAIN list'[a], HasFile(r)' PROVE list'[a][r].path = r
        <5>1. r \in DOMAIN list[a] /\ r \in Runs /\ r # c /\ list'[a][r] = list[a][r] /\ HasFile(r)
          BY <1>1, <2>5, <3>2, <4>1 DEF Drops, NoFiles
        <5> QED
          BY <1>2, <2>3, <5>1 DEF ListKnown
      <4> QED
        BY <4>1 DEF ListKnown
    <3> QED
      BY <2>3, <3>1, <3>2
  <2> QED
    BY <1>1, <1>3, <1>4, <2>3, <2>5, <2>6, <2>7, KnownStep DEF RestSame
<1>8. CASE DeleteSettles(a)
  <2>0. PICK c : c = cur[a]
    OBVIOUS
  <2>1. /\ apc[a] \in {"settle", "failed"} /\ c \in DOMAIN list[a]
        /\ UNCHANGED disk /\ \A b \in Actors : b # a => ActSame(b)
        /\ DOMAIN list'[a] = DOMAIN list[a] \ {c}
        /\ \A r \in DOMAIN list'[a] : list'[a][r] = list[a][r]
        /\ \A r \in Runs : r # c => RowSame(r)
        /\ \/ state[c] # "deleting" /\ RowSame(c)
           \/ state[c] = "deleting" /\ apc[a] = "settle" /\ state'[c] = "removed" /\ payload'[c] = Blank
           \/ /\ state[c] = "deleting" /\ apc[a] = "failed" /\ state'[c] = list[a][c].status
              /\ payload'[c] = list[a][c]
    BY <1>8, <2>0, SettleDoes
  <2>2. c \in Runs /\ list[a][c].status \in Finished /\ (HasFile(c) => list[a][c].path = c)
    BY <1>1, <1>2, <2>1 DEF ListKnown, IndInv, Cleaning, CleaningOK
  <2>3. apc[a] = "settle" => ~HasFile(c)
    BY <1>2, <1>5, <2>0, <2>2 DEF ListTells
  <2>4. NoFiles
    BY <2>1, SameFiles
  <2>5. RowKnown(c)'
    <3>1. CASE RowSame(c)
      BY <1>2, <1>4, <2>2, <2>4, <3>1, RowKnownKept
    <3>2. CASE apc[a] = "settle"
      BY <2>2, <2>3, <2>4, <3>2, NoFileKnown
    <3>3. CASE state'[c] = list[a][c].status /\ payload'[c] = list[a][c]
      BY <2>2, <2>4, <3>3 DEF RowKnown, NoFiles, Finished
    <3> QED
      BY <2>1, <3>1, <3>2, <3>3
  <2>6. \A r \in Runs : RowKnown(r)'
    BY <1>2, <1>4, <2>1, <2>4, <2>5, RowKnownKept
  <2>7. ListKnown(a)'
    <3>1. ASSUME NEW r \in DOMAIN list'[a], HasFile(r)' PROVE list'[a][r].path = r
      <4>1. r \in DOMAIN list[a] /\ r \in Runs /\ list'[a][r] = list[a][r] /\ HasFile(r)
        BY <1>1, <2>1, <2>4, <3>1 DEF NoFiles
      <4> QED
        BY <1>2, <2>1, <4>1 DEF ListKnown
    <3> QED
      BY <3>1 DEF ListKnown
  <2> QED
    BY <1>1, <1>3, <1>4, <2>1, <2>4, <2>6, <2>7, KnownStep DEF RestSame
<1> QED
  BY <1>6, <1>7, <1>8

\* At the start.
LEMMA InitKnown == Init => Known
<1> SUFFICES ASSUME Init PROVE Known
  OBVIOUS
<1>1. \A r \in Runs : ~HasFile(r)
  BY BoundsAssumption DEF Init, HasFile, Runs, NoRun
<1> QED
  BY <1>1 DEF Init, Known, RowKnown, ProcKnown, ListKnown, Unstopped

\* No process dies in this step.
NoCrash == \A p \in Procs : ~Crash(p)

\* Every other step.
LEMMA StepKnown ==
  ASSUME Firm PROVE IndInv /\ Telling /\ Known /\ [Next]_vars /\ [NoCrash]_vars => Known'
<1> SUFFICES ASSUME IndInv, Telling, Known, [Next]_vars, [NoCrash]_vars PROVE Known'
  OBVIOUS
<1>1. CASE UNCHANGED vars
  <2>1. UNCHANGED <<state, payload, plan, disk, ppc, stopping, job, wpc, mem, watch, latest, apc, list, cur, others>>
    BY <1>1 DEF vars, rowVars, procVars, workVars, actVars
  <2> QED
    BY <2>1, RowsOnlyKnown DEF RowSame
<1>2. ASSUME NEW p \in Procs, LeaderNext(p) PROVE Known'
  BY <1>2, TickKnown, EndKnown, RetainKnown DEF LeaderNext
<1>3. ASSUME NEW p \in Procs, (\E how \in {"drain", "stop"} : Stop(p, how)) \/ Leave(p) \/ Restart(p) PROVE Known'
  BY <1>3, TickKnown
<1>4. CASE Next /\ NoCrash
  BY <1>2, <1>3, <1>4, CommandKnown, WorkerKnown, ActorKnown DEF Next, NoCrash
<1> QED
  BY <1>1, <1>4

\* Where no two runs share a path, a removed run leaves no file behind, whichever way it
\* ended, however its deletion was interrupted and whoever else deleted it: as long as no
\* process crashes, and statements fail only where no process is stopped either.
THEOREM RemovedIsGone ==
  ASSUME UniquePaths, Errors => MaxStops = 0
  PROVE  Spec /\ [][NoCrash]_vars => []RemovedLeavesNoFile
<1>1. Firm
  BY DEF Firm
<1>2. IndInv /\ Telling /\ Known => RemovedLeavesNoFile
  <2> SUFFICES ASSUME IndInv, Telling, Known, NEW r \in Runs, state[r] = "removed", NEW f \in Paths, disk[f] = r
               PROVE  FALSE
    BY DEF RemovedLeavesNoFile
  <2>1. r # NoRun
    BY BoundsAssumption DEF Runs, NoRun
  <2>2. HasFile(r)
    BY <2>1 DEF Telling, DiskFits, HasFile
  <2> QED
    BY <2>2 DEF Known, RowKnown, Finished
<1>3. IndInv /\ Telling /\ Known /\ [Next]_vars /\ [NoCrash]_vars => Known'
  BY <1>1, StepKnown
<1> QED
  BY <1>2, <1>3, InitKnown, AlwaysTells, PTL DEF Spec
=============================================================================
