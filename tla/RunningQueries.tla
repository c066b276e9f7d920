--------------------------- MODULE RunningQueries ---------------------------
(***************************************************************************)
(* The in-memory registry of running executions                            *)
(* (crates/dbx-core/src/query/query_cancel.rs).                            *)
(*                                                                         *)
(* An owner registers an execution id and receives a guard.  Other threads *)
(* cancel the id, wait for it, or register the same id again, which        *)
(* displaces the earlier registration.  Registrations are numbered by      *)
(* next_registration_id, so `r1 < r2` says that r2 was registered later.   *)
(*                                                                         *)
(* A mutex-protected region is one step.  What the code does after it has  *)
(* released the mutex (running the interrupt, cancelling the displaced     *)
(* token, sending the completion) is a step of its own, so every other     *)
(* thread may run in between.                                              *)
(***************************************************************************)
EXTENDS Naturals

CONSTANTS
  Ids,      \* execution ids
  NoId,     \* the id of a registration that does not exist yet
  Clients,  \* threads that call cancel, cancel_and_wait, ...
  Kinds,    \* the kinds of registration that are made (see below)
  MaxReg    \* bound: number of registrations made in one behaviour

Regs  == 1 .. MaxReg
NoReg == 0

(***************************************************************************)
(* How the execution was registered: `register_task`, `..._for_terminal_   *)
(* confirmation`, or the same bound to a connection's parent token.  The   *)
(* last two are the ones with remember_completion.                         *)
(***************************************************************************)
AllKinds == {"plain", "tracked", "child"}
Tracked  == {"tracked", "child"}

ASSUME NoIdAssumption == NoId \notin Ids
ASSUME KindsAssumption == Kinds \subseteq AllKinds
ASSUME MaxRegAssumption == MaxReg \in Nat

VARIABLES
  count,       \* next_registration_id
  inner,       \* [Ids -> registration whose RunningTask is in the map]
  completed,   \* [Ids -> "none" | "unproven" | "proven"]
  id,          \* execution id of each registration
  kind,        \* its kind
  token,       \* is its CancellationToken cancelled
  completion,  \* the value of its watch channel
  slot,        \* whose interrupt closure is in its RunningTask.interrupt
  intr,        \* what became of the interrupt closure each owner made
  phase,       \* where the owner of the registration is
  previous,    \* the registration its register call displaced
  hand,        \* closure taken from `previous`, not yet run
  db,          \* may its statement still execute at the database (external)
  pc, op,      \* where each client is, and in which call
  target,      \* execution id of the call
  todo,        \* ids that cancel_matching has still to cancel
  matched,     \* registrations that cancel_matching's predicate selected
  sub,         \* registration whose completion the client subscribed to
  taken,       \* closure the client took out of a task, not yet run
  gone,        \* task the client removed, completion not yet sent
  ans          \* the CancellationWaitResult the client was given

regVars    == <<count, inner, completed, id, kind>>
taskVars   == <<token, completion, slot, intr>>
ownerVars  == <<phase, previous, hand, db>>
clientVars == <<pc, op, target, todo, matched, sub, taken, gone, ans>>
vars       == <<regVars, taskVars, ownerVars, clientVars>>

NoAnswer == [requested |-> FALSE, terminal |-> FALSE, proven |-> FALSE]

TypeOK ==
  /\ count \in 0 .. MaxReg
  /\ inner \in [Ids -> Regs \cup {NoReg}]
  /\ completed \in [Ids -> {"none", "unproven", "proven"}]
  /\ id \in [Regs -> Ids \cup {NoId}]
  /\ kind \in [Regs -> AllKinds]
  /\ token \in [Regs -> BOOLEAN]
  /\ completion \in [Regs -> BOOLEAN]
  /\ slot \in [Regs -> Regs \cup {NoReg}]
  /\ intr \in [Regs -> {"none", "stored", "taken", "run", "dropped"}]
  /\ phase \in [Regs -> {"unused", "displace", "complete", "interrupt",
                         "running", "detached", "notify", "done"}]
  /\ previous \in [Regs -> Regs \cup {NoReg}]
  /\ hand \in [Regs -> Regs \cup {NoReg}]
  /\ db \in [Regs -> {"executing", "ended"}]
  /\ pc \in [Clients -> {"idle", "cancel", "loop", "interrupt", "complete",
                         "wait", "read", "answered"}]
  /\ op \in [Clients -> {"none", "cancel", "cancel_and_wait", "wait_for_completion"}]
  /\ target \in [Clients -> Ids \cup {NoId}]
  /\ todo \in [Clients -> SUBSET Ids]
  /\ matched \in [Clients -> SUBSET Regs]
  /\ sub \in [Clients -> Regs \cup {NoReg}]
  /\ taken \in [Clients -> Regs \cup {NoReg}]
  /\ gone \in [Clients -> Regs \cup {NoReg}]
  /\ ans \in [Clients -> [requested : BOOLEAN, terminal : BOOLEAN, proven : BOOLEAN]]

Init ==
  /\ count = 0
  /\ inner = [e \in Ids |-> NoReg]
  /\ completed = [e \in Ids |-> "none"]
  /\ id = [r \in Regs |-> NoId]
  /\ kind = [r \in Regs |-> "plain"]
  /\ token = [r \in Regs |-> FALSE]
  /\ completion = [r \in Regs |-> FALSE]
  /\ slot = [r \in Regs |-> NoReg]
  /\ intr = [r \in Regs |-> "none"]
  /\ phase = [r \in Regs |-> "unused"]
  /\ previous = [r \in Regs |-> NoReg]
  /\ hand = [r \in Regs |-> NoReg]
  /\ db = [r \in Regs |-> "executing"]
  /\ pc = [c \in Clients |-> "idle"]
  /\ op = [c \in Clients |-> "none"]
  /\ target = [c \in Clients |-> NoId]
  /\ todo = [c \in Clients |-> {}]
  /\ matched = [c \in Clients |-> {}]
  /\ sub = [c \in Clients |-> NoReg]
  /\ taken = [c \in Clients |-> NoReg]
  /\ gone = [c \in Clients |-> NoReg]
  /\ ans = [c \in Clients |-> NoAnswer]

-----------------------------------------------------------------------------
(* Owners                                                                  *)

\* The interrupt closure g after its holder ran it (a missing one is not run).
Ran(g) == IF g = NoReg THEN intr ELSE [intr EXCEPT ![g] = "run"]

\* The interrupt closure g after it was taken out of the task that held it.
Took(g) == IF g = NoReg THEN intr ELSE [intr EXCEPT ![g] = "taken"]

(***************************************************************************)
(* register_task_with_token, under the two mutexes: forget what the id     *)
(* completed with, insert the new task, and carry the old one out.         *)
(***************************************************************************)
Register(e, k) ==
  LET r == count + 1
      p == inner[e]
      g == IF p = NoReg THEN NoReg ELSE slot[p]
  IN /\ count < MaxReg
     /\ count' = r
     /\ completed' = [completed EXCEPT ![e] = "none"]
     /\ inner' = [inner EXCEPT ![e] = r]
     /\ id' = [id EXCEPT ![r] = e]
     /\ kind' = [kind EXCEPT ![r] = k]
     /\ previous' = [previous EXCEPT ![r] = p]
     /\ hand' = [hand EXCEPT ![r] = g]
     /\ slot' = IF p = NoReg THEN slot ELSE [slot EXCEPT ![p] = NoReg]
     /\ intr' = Took(g)
     /\ phase' = [phase EXCEPT ![r] = IF p = NoReg THEN "running" ELSE "displace"]
     /\ UNCHANGED <<token, completion, db>>
     /\ UNCHANGED clientVars

\* After the mutexes are released: previous.token.cancel() ...
DisplaceCancel(r) ==
  /\ phase[r] = "displace"
  /\ token' = [token EXCEPT ![previous[r]] = TRUE]
  /\ phase' = [phase EXCEPT ![r] = "complete"]
  /\ UNCHANGED <<completion, slot, intr, previous, hand, db>>
  /\ UNCHANGED <<regVars, clientVars>>

\* Mutant: the displaced task's watchers are not told.
DisplaceComplete_Silent(r) ==
  /\ phase[r] = "complete"
  /\ phase' = [phase EXCEPT ![r] = "interrupt"]
  /\ UNCHANGED <<taskVars, previous, hand, db>>
  /\ UNCHANGED <<regVars, clientVars>>

\* ... previous.completion.send_replace(true) ...
DisplaceComplete(r) ==
  /\ phase[r] = "complete"
  /\ completion' = [completion EXCEPT ![previous[r]] = TRUE]
  /\ phase' = [phase EXCEPT ![r] = "interrupt"]
  /\ UNCHANGED <<token, slot, intr, previous, hand, db>>
  /\ UNCHANGED <<regVars, clientVars>>

\* ... and previous.interrupt.take(), run; then the caller has its guard.
DisplaceInterrupt(r) ==
  /\ phase[r] = "interrupt"
  /\ intr' = Ran(hand[r])
  /\ hand' = [hand EXCEPT ![r] = NoReg]
  /\ previous' = [previous EXCEPT ![r] = NoReg]
  /\ phase' = [phase EXCEPT ![r] = "running"]
  /\ UNCHANGED <<token, completion, slot, db>>
  /\ UNCHANGED <<regVars, clientVars>>

\* External: the statement of r ends at the database, by itself or because a
\* cancellation reached it, or turns out never to have started.
EndStatement(r) ==
  /\ phase[r] \notin {"unused", "displace", "complete", "interrupt"} /\ db[r] = "executing"
  /\ db' = [db EXCEPT ![r] = "ended"]
  /\ UNCHANGED <<phase, previous, hand>>
  /\ UNCHANGED <<regVars, taskVars, clientVars>>

\* Mutant: the interrupt is stored without looking at the token.
RegisterInterrupt_IgnoresToken(r) ==
  LET t == inner[id[r]]
  IN /\ phase[r] = "running" /\ db[r] = "executing" /\ intr[r] = "none"
     /\ IF t # NoReg
          THEN /\ slot' = [slot EXCEPT ![t] = r]
               /\ intr' = [intr EXCEPT ![r] = "stored"]
          ELSE /\ intr' = [intr EXCEPT ![r] = "run"]
               /\ UNCHANGED slot
     /\ UNCHANGED <<token, completion>>
     /\ UNCHANGED <<regVars, ownerVars, clientVars>>

\* Mutant: the closure is kept by id even when no task holds the id.
RegisterInterrupt_Leaks(r) ==
  LET t == inner[id[r]]
  IN /\ phase[r] = "running" /\ db[r] = "executing" /\ intr[r] = "none"
     /\ slot' = IF t = NoReg THEN slot ELSE [slot EXCEPT ![t] = r]
     /\ intr' = [intr EXCEPT ![r] = "stored"]
     /\ UNCHANGED <<token, completion>>
     /\ UNCHANGED <<regVars, ownerVars, clientVars>>

(***************************************************************************)
(* register_interrupt, called by the owner's driver with the execution id  *)
(* only: the closure goes to whichever task holds the id now, replacing    *)
(* what was there, and runs at once if that task is cancelled or missing.  *)
(***************************************************************************)
RegisterInterrupt(r) ==
  LET t == inner[id[r]]
      stored == t # NoReg /\ ~token[t]
  IN /\ phase[r] = "running" /\ db[r] = "executing" /\ intr[r] = "none"
     /\ IF stored
          THEN /\ slot' = [slot EXCEPT ![t] = r]
               /\ intr' = [q \in Regs |->
                             CASE q = r -> "stored"
                               [] q = slot[t] /\ q # r -> "dropped"
                               [] OTHER -> intr[q]]
          ELSE /\ intr' = [intr EXCEPT ![r] = "run"]
               /\ UNCHANGED slot
     /\ UNCHANGED <<token, completion>>
     /\ UNCHANGED <<regVars, ownerVars, clientVars>>

\* Mutant: remove does not compare the registration id.
Remove_AnyRegistration(r, proven) ==
  LET e == id[r]
      t == inner[e]
  IN IF t # NoReg
       THEN /\ inner' = [inner EXCEPT ![e] = NoReg]
            /\ slot' = [slot EXCEPT ![t] = NoReg]
            /\ phase' = [phase EXCEPT ![r] = "notify"]
            /\ UNCHANGED <<completed, intr>>
       ELSE /\ phase' = [phase EXCEPT ![r] = "done"]
            /\ UNCHANGED <<inner, completed, slot, intr>>

(***************************************************************************)
(* remove, under the mutex: nothing if the id belongs to another           *)
(* registration; otherwise a tracked task leaves its result behind and the *)
(* task is dropped with the closure it holds.                              *)
(***************************************************************************)
Remove(r, proven) ==
  LET e == id[r]
      g == slot[r]
  IN IF inner[e] = r
       THEN /\ inner' = [inner EXCEPT ![e] = NoReg]
            /\ completed' = IF kind[r] \in Tracked
                              THEN [completed EXCEPT ![e] = IF proven THEN "proven" ELSE "unproven"]
                              ELSE completed
            /\ slot' = [slot EXCEPT ![r] = NoReg]
            /\ intr' = IF g = NoReg THEN intr ELSE [intr EXCEPT ![g] = "dropped"]
            /\ phase' = [phase EXCEPT ![r] = "notify"]
       ELSE /\ phase' = [phase EXCEPT ![r] = "done"]
            /\ UNCHANGED <<inner, completed, slot, intr>>

\* Mutant: every result, a transport error too, counts as proof.
FinishWithDatabaseResult_AlwaysProven(r) ==
  /\ phase[r] = "running" /\ kind[r] \in Tracked
  /\ Remove(r, TRUE)
  /\ UNCHANGED <<count, id, kind, token, completion, previous, hand, db>>
  /\ UNCHANGED clientVars

(***************************************************************************)
(* finish_with_database_result, then Drop.  The result proves that the     *)
(* statement ended (an answer, a rejection, or never started), or it does  *)
(* not (transport error, timeout, legacy error).  Only tracked executions  *)
(* are finished this way.                                                  *)
(***************************************************************************)
FinishWithDatabaseResult(r) ==
  /\ phase[r] = "running" /\ kind[r] \in Tracked
  /\ \E proven \in BOOLEAN :
       /\ proven => db[r] = "ended"
       /\ Remove(r, proven)
  /\ UNCHANGED <<count, id, kind, token, completion, previous, hand, db>>
  /\ UNCHANGED clientVars

\* finish on any result but a timeout, or the guard dropped on unwind.
DropGuard(r) ==
  /\ phase[r] = "running"
  /\ Remove(r, FALSE)
  /\ UNCHANGED <<count, id, kind, token, completion, previous, hand, db>>
  /\ UNCHANGED clientVars

\* finish on a client-observed timeout: the guard goes, the entry stays.
Detach(r) ==
  /\ phase[r] = "running" /\ kind[r] = "plain"
  /\ phase' = [phase EXCEPT ![r] = "detached"]
  /\ UNCHANGED <<previous, hand, db>>
  /\ UNCHANGED <<regVars, taskVars, clientVars>>

\* Mutant: the timer of a detached registration does nothing.
Reclaim_Forgets(r) ==
  /\ phase[r] = "detached"
  /\ phase' = [phase EXCEPT ![r] = "done"]
  /\ UNCHANGED <<previous, hand, db>>
  /\ UNCHANGED <<regVars, taskVars, clientVars>>

\* The grace period of a detached registration ends.
Reclaim(r) ==
  /\ phase[r] = "detached"
  /\ Remove(r, FALSE)
  /\ UNCHANGED <<count, id, kind, token, completion, previous, hand, db>>
  /\ UNCHANGED clientVars

\* remove, after the mutex is released: completion.send_replace(true).
RemoveNotify(r) ==
  /\ phase[r] = "notify"
  /\ completion' = [completion EXCEPT ![r] = TRUE]
  /\ phase' = [phase EXCEPT ![r] = "done"]
  /\ UNCHANGED <<token, slot, intr, previous, hand, db>>
  /\ UNCHANGED <<regVars, clientVars>>

\* The connection's lifecycle token is cancelled, and the child with it.
ParentCancel(r) ==
  /\ kind[r] = "child" /\ phase[r] # "unused" /\ ~token[r]
  /\ token' = [token EXCEPT ![r] = TRUE]
  /\ UNCHANGED <<completion, slot, intr>>
  /\ UNCHANGED <<regVars, ownerVars, clientVars>>

\* A completed entry grows older than the grace period: the next retain of
\* register or completed_execution_result drops it before it is read.
ExpireCompleted(e) ==
  /\ completed[e] # "none"
  /\ completed' = [completed EXCEPT ![e] = "none"]
  /\ UNCHANGED <<count, inner, id, kind>>
  /\ UNCHANGED <<taskVars, ownerVars, clientVars>>

-----------------------------------------------------------------------------
(* Clients                                                                 *)

\* A client enters a call of kind o.
Enter(c, o, e, at) ==
  /\ op' = [op EXCEPT ![c] = o]
  /\ target' = [target EXCEPT ![c] = e]
  /\ pc' = [pc EXCEPT ![c] = at]
  /\ ans' = [ans EXCEPT ![c] = NoAnswer]

(***************************************************************************)
(* cancel_connection, cancel_client_session, cancel_owner_scope and        *)
(* cancel_all: the predicate over the immutable metadata selects some of   *)
(* the tasks in the map, and their ids are copied out of it.  cancel(id)   *)
(* is the case of one task.                                                *)
(***************************************************************************)
CancelMatching(c) ==
  /\ pc[c] = "idle"
  /\ \E E \in SUBSET {e \in Ids : inner[e] # NoReg} :
       /\ E # {}
       /\ todo' = [todo EXCEPT ![c] = E]
       /\ matched' = [matched EXCEPT ![c] = {inner[e] : e \in E}]
  /\ Enter(c, "cancel", NoId, "loop")
  /\ UNCHANGED <<sub, taken, gone>>
  /\ UNCHANGED <<regVars, taskVars, ownerVars>>

\* Mutant: a tracked task is removed on cancel like any other.
CancelLocked_RemovesTracked(c, e) ==
  LET r == inner[e]
      g == slot[r]
  IN /\ token' = [token EXCEPT ![r] = TRUE]
     /\ slot' = [slot EXCEPT ![r] = NoReg]
     /\ intr' = Took(g)
     /\ taken' = [taken EXCEPT ![c] = g]
     /\ inner' = [inner EXCEPT ![e] = NoReg]
     /\ gone' = [gone EXCEPT ![c] = r]

\* The locked part of cancel(e) when a task r holds the id.
CancelLocked(c, e) ==
  LET r == inner[e]
      g == slot[r]
  IN /\ token' = [token EXCEPT ![r] = TRUE]
     /\ slot' = [slot EXCEPT ![r] = NoReg]
     /\ intr' = Took(g)
     /\ taken' = [taken EXCEPT ![c] = g]
     /\ IF kind[r] \in Tracked
          THEN UNCHANGED <<inner, gone>>
          ELSE /\ inner' = [inner EXCEPT ![e] = NoReg]
               /\ gone' = [gone EXCEPT ![c] = r]

\* Where the caller of cancel(id) goes on ...
Back(c) == IF op[c] = "cancel" THEN "loop" ELSE "wait"

\* ... and what cancel does after the mutex, of which a step that has nothing to
\* run or to send is left out: the interrupt i, then the completion of g.
After(c, i, g) == IF i # NoReg THEN "interrupt" ELSE IF g # NoReg THEN "complete" ELSE Back(c)

\* cancel_matching goes on with the next id it copied.
CancelNext(c) ==
  /\ pc[c] = "loop"
  /\ \E e \in todo[c] :
       /\ todo' = [todo EXCEPT ![c] = @ \ {e}]
       /\ IF inner[e] = NoReg
            THEN UNCHANGED <<token, slot, intr, taken, inner, gone, pc>>
            ELSE /\ CancelLocked(c, e)
                 /\ pc' = [pc EXCEPT ![c] = After(c, taken'[c], gone'[c])]
  /\ UNCHANGED <<count, completed, id, kind, completion, op, target, matched, sub, ans>>
  /\ UNCHANGED ownerVars

CancelReturn(c) ==
  /\ pc[c] = "loop" /\ todo[c] = {}
  /\ pc' = [pc EXCEPT ![c] = "idle"]
  /\ op' = [op EXCEPT ![c] = "none"]
  /\ matched' = [matched EXCEPT ![c] = {}]
  /\ UNCHANGED <<target, todo, sub, taken, gone, ans>>
  /\ UNCHANGED <<regVars, taskVars, ownerVars>>

\* cancel, after the mutex is released: the interrupt runs first ...
CancelInterrupt(c) ==
  /\ pc[c] = "interrupt"
  /\ intr' = Ran(taken[c])
  /\ taken' = [taken EXCEPT ![c] = NoReg]
  /\ pc' = [pc EXCEPT ![c] = After(c, NoReg, gone[c])]
  /\ UNCHANGED <<token, completion, slot, op, target, todo, matched, sub, gone, ans>>
  /\ UNCHANGED <<regVars, ownerVars>>

\* ... and the completion of a removed (untracked) task is sent last.
CancelComplete(c) ==
  /\ pc[c] = "complete"
  /\ completion' = [completion EXCEPT ![gone[c]] = TRUE]
  /\ gone' = [gone EXCEPT ![c] = NoReg]
  /\ pc' = [pc EXCEPT ![c] = Back(c)]
  /\ UNCHANGED <<token, slot, intr, op, target, todo, matched, sub, taken, ans>>
  /\ UNCHANGED <<regVars, ownerVars>>

(***************************************************************************)
(* cancel_and_wait and wait_for_completion subscribe to the completion of  *)
(* the task that holds the id now; without one they go straight to the     *)
(* completed map.                                                          *)
(***************************************************************************)
Subscribe(c, o, e) ==
  /\ pc[c] = "idle"
  /\ sub' = [sub EXCEPT ![c] = inner[e]]
  /\ Enter(c, o, e, CASE inner[e] = NoReg -> "read"
                      [] o = "cancel_and_wait" -> "cancel"
                      [] OTHER -> "wait")
  /\ UNCHANGED <<todo, matched, taken, gone>>
  /\ UNCHANGED <<regVars, taskVars, ownerVars>>

\* cancel_and_wait calls cancel in a second acquisition of the mutex.
CancelSubscribed(c) ==
  /\ pc[c] = "cancel"
  /\ IF inner[target[c]] = NoReg
       THEN /\ pc' = [pc EXCEPT ![c] = "read"]
            /\ UNCHANGED <<token, slot, intr, taken, inner, gone, ans>>
       ELSE /\ CancelLocked(c, target[c])
            /\ pc' = [pc EXCEPT ![c] = After(c, taken'[c], gone'[c])]
            /\ ans' = [ans EXCEPT ![c] = [requested |-> TRUE, terminal |-> FALSE, proven |-> FALSE]]
  /\ UNCHANGED <<count, completed, id, kind, completion, op, target, todo, matched, sub>>
  /\ UNCHANGED ownerVars

\* The wait ends on completion, with terminal = is_ok() of the timeout.
WaitCompleted(c) ==
  /\ pc[c] = "wait" /\ completion[sub[c]]
  /\ pc' = [pc EXCEPT ![c] = "read"]
  /\ ans' = [ans EXCEPT ![c] = [requested |-> ans[c].requested, terminal |-> TRUE, proven |-> FALSE]]
  /\ UNCHANGED <<op, target, todo, matched, sub, taken, gone>>
  /\ UNCHANGED <<regVars, taskVars, ownerVars>>

WaitTimeout(c) ==
  /\ pc[c] = "wait"
  /\ pc' = [pc EXCEPT ![c] = "read"]
  /\ UNCHANGED <<op, target, todo, matched, sub, taken, gone, ans>>
  /\ UNCHANGED <<regVars, taskVars, ownerVars>>

(***************************************************************************)
(* completed_execution_result.  A requested cancellation takes only        *)
(* database_terminal from it and keeps the terminal flag of its own wait.  *)
(***************************************************************************)
ReadResult(c) ==
  LET e == target[c]
      absent == inner[e] = NoReg
  IN /\ pc[c] = "read"
     /\ ans' = [ans EXCEPT ![c] =
          [requested |-> ans[c].requested,
           terminal |-> IF ans[c].requested THEN ans[c].terminal
                        ELSE absent /\ completed[e] # "none",
           proven |-> absent /\ completed[e] = "proven"]]
     /\ pc' = [pc EXCEPT ![c] = "answered"]
     /\ UNCHANGED <<op, target, todo, matched, sub, taken, gone>>
     /\ UNCHANGED <<regVars, taskVars, ownerVars>>

\* The caller consumes the answer and may call again.
Consume(c) ==
  /\ pc[c] = "answered"
  /\ Enter(c, "none", NoId, "idle")
  /\ sub' = [sub EXCEPT ![c] = NoReg]
  /\ UNCHANGED <<todo, matched, taken, gone>>
  /\ UNCHANGED <<regVars, taskVars, ownerVars>>

-----------------------------------------------------------------------------
OwnerNext ==
  \/ \E e \in Ids, k \in Kinds : Register(e, k)
  \/ \E r \in Regs :
       \/ DisplaceCancel(r) \/ DisplaceComplete(r) \/ DisplaceInterrupt(r)
       \/ EndStatement(r) \/ RegisterInterrupt(r)
       \/ FinishWithDatabaseResult(r) \/ DropGuard(r) \/ Detach(r)
       \/ Reclaim(r) \/ RemoveNotify(r) \/ ParentCancel(r)
  \/ \E e \in Ids : ExpireCompleted(e)

ClientNext ==
  \E c \in Clients :
    \/ CancelMatching(c) \/ CancelNext(c) \/ CancelReturn(c)
    \/ CancelInterrupt(c) \/ CancelComplete(c)
    \/ \E e \in Ids, o \in {"cancel_and_wait", "wait_for_completion"} : Subscribe(c, o, e)
    \/ CancelSubscribed(c) \/ WaitCompleted(c) \/ WaitTimeout(c)
    \/ ReadResult(c) \/ Consume(c)

Next == OwnerNext \/ ClientNext

(***************************************************************************)
(* Fairness: a thread that has left a mutex-protected region goes on (no   *)
(* await separates the region from what follows it), timers fire, and a    *)
(* woken waiter runs.  Nothing makes an owner finish or a statement end.   *)
(***************************************************************************)
Fairness ==
  /\ \A r \in Regs : WF_vars(DisplaceCancel(r) \/ DisplaceComplete(r) \/ DisplaceInterrupt(r)
                             \/ RemoveNotify(r) \/ Reclaim(r))
  /\ \A c \in Clients : WF_vars(CancelNext(c) \/ CancelReturn(c) \/ CancelInterrupt(c)
                                \/ CancelComplete(c) \/ CancelSubscribed(c)
                                \/ WaitCompleted(c) \/ WaitTimeout(c) \/ ReadResult(c))

Spec     == Init /\ [][Next]_vars
FairSpec == Spec /\ Fairness

-----------------------------------------------------------------------------
(* Properties                                                              *)

\* A later registration has taken over the execution id of r.
Superseded(r) == \E q \in Regs : q > r /\ id[q] = id[r]

\* The task of r is in the map.
InMap(r) == id[r] \in Ids /\ inner[id[r]] = r

\* No other registration ever used the execution id of r.
Alone(r) == \A q \in Regs \ {r} : id[q] # id[r]

\* The owner has given up its guard (and, if detached, the timer has fired).
Released(r) == phase[r] \in {"notify", "done"}

(***************************************************************************)
(* cancel_and_wait reports terminal for a tracked execution only once the  *)
(* task that owns it has finished, unless another caller reused the id.    *)
(***************************************************************************)
TerminalMeansReleased ==
  /\ TypeOK
  /\ \A c \in Clients :
       /\ pc[c] = "answered" /\ ans[c].terminal /\ sub[c] # NoReg
       /\ kind[sub[c]] \in Tracked /\ ~Superseded(sub[c])
       => Released(sub[c])

(***************************************************************************)
(* An answer that claims database_terminal for the execution the caller    *)
(* was waiting for means that this statement is not running any more,      *)
(* unless the id was reused.                                               *)
(***************************************************************************)
ProvenMeansEnded ==
  \A c \in Clients :
    /\ pc[c] = "answered" /\ ans[c].proven /\ sub[c] # NoReg /\ ~Superseded(sub[c])
    => db[sub[c]] = "ended"

(***************************************************************************)
(* Cancellation can reach what it has to: a stored interrupt is in a task  *)
(* that is in the map (the race that moving the closure into RunningTask   *)
(* removed), and a tracked execution, cancelled or not, stays in the map   *)
(* until its owner has released it or the id was reused.                   *)
(***************************************************************************)
StoredInterruptReachable ==
  \A r \in Regs :
    /\ intr[r] = "stored" => inner[id[r]] # NoReg /\ slot[inner[id[r]]] = r
    /\ kind[r] \in Tracked /\ phase[r] # "unused" /\ ~Released(r) /\ ~Superseded(r) => InMap(r)

(***************************************************************************)
(* A cancellation takes hold.  What cancel_matching has selected and       *)
(* worked off is cancelled, released or displaced; and once an execution   *)
(* is cancelled by its id, the interrupt its driver has handed over is run *)
(* or in the hands of the thread about to run it, unless the id was used   *)
(* twice.  A parent token cancels without the registry, and leaves a       *)
(* stored interrupt reachable.                                             *)
(***************************************************************************)
CancelReachesInterrupt ==
  /\ \A c \in Clients : \A r \in matched[c] :
       id[r] \notin todo[c] => token[r] \/ Released(r) \/ Superseded(r)
  /\ \A r \in Regs :
       /\ token[r] /\ kind[r] # "child" /\ intr[r] # "none" /\ Alone(r)
       => intr[r] \in {"taken", "run"}

(***************************************************************************)
(* What a step may never do: take a task out of the map unless its own     *)
(* owner releases it, it is replaced by a later registration, or it is     *)
(* cancelled.  In particular a stale guard never removes its replacement.  *)
(***************************************************************************)
EntryLeavesByOwnHand ==
  [][\A e \in Ids :
       inner[e] # NoReg /\ inner'[e] # inner[e] =>
         \/ phase'[inner[e]] = "notify"
         \/ inner'[e] > inner[e]
         \/ inner'[e] = NoReg /\ token'[inner[e]]]_vars

\* No lost wake-up: whoever watches a task that left the map is told.
CompletionIsSent ==
  \A r \in Regs : (phase[r] # "unused" /\ ~InMap(r)) ~> completion[r]

\* Nothing is left half done: the entry of a detached registration does not
\* stay for ever, and an interrupt that a cancel has taken is run.
DetachedIsReclaimed ==
  \A r \in Regs :
    /\ (phase[r] = "detached") ~> ~InMap(r)
    /\ (intr[r] = "taken") ~> (intr[r] = "run")
=============================================================================
