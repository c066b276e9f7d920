---------------------- MODULE ManualTransactionProofs ----------------------
(***************************************************************************)
(* Proofs about one interactive SQL Server transaction, for any number of  *)
(* requests in flight.                                                     *)
(***************************************************************************)
EXTENDS ManualTransaction, TLAPS

\* begin has not inserted the session yet.
Opener(t) == task[t].pc \in {"opening", "insert"}

\* Task t has the session for itself: it has marked it busy, has taken it out
\* of the map, or is the guard of one that had.  A disconnect that found the
\* session busy is not one of them: it has to discard the connection.
User(t) ==
  /\ task[t].pc \notin {"idle", "opening", "insert", "gone"}
  /\ t = Disc => task[t].pc # "take" /\ ~task[t].discard

\* At most one task has the session, and none while it can be had.
Alone ==
  /\ \A t, u \in Tasks : User(t) /\ User(u) => t = u
  /\ entry = "idle" => \A t \in Tasks : ~User(t)
  /\ \A t, u \in Tasks : Opener(t) => entry = "absent" /\ ~User(u) /\ (Opener(u) => t = u)
  /\ ~begun => entry = "absent" /\ \A t \in Tasks : task[t].pc = "idle"
  /\ \A c \in Calls : task[c].pc # "gone"

\* Task t will send a command, or give the session back, unless it is stopped.
Clean(t) ==
  \/ task[t].pc = "insert"
  \/ User(t) /\ task[t].pc \in {"lock", "ran"}
  \/ User(t) /\ task[t].pc \in {"failed", "cleanup"} /\ ~task[t].discard

\* Such a task has a connection whose answers have all been read; a task that
\* waits for an answer waits for that of its own command.
Unread ==
  /\ ~begun \/ entry = "idle" => sent = "none"
  /\ \A t \in Tasks :
       /\ Clean(t) => sent = "none"
       /\ task[t].pc = "opening" => sent = "begin"
       /\ task[t].pc = "rollback" => sent = "rollback" /\ ~task[t].discard
       /\ task[t].pc = "send" => t \in Calls /\ sent = task[t].finish /\ sent \in {"commit", "rollback"}

\* An answer, a result, the record and a reply that name an outcome are true.
Truth ==
  /\ ~begun => server = "none"
  /\ sent = "begin" /\ answer = "none" => server = "none"
  /\ sent = "commit" /\ answer = "ok" => server = "committed"
  /\ sent = "rollback" /\ answer = "ok" => server = "rolledBack"
  /\ \A t \in Tasks : task[t].result \in Known => task[t].result = server
  /\ record \in Known => record = server
  /\ \A c \in Calls : reply[c] \in Known => reply[c] = server

\* A disconnect cancels the lifecycle before it takes the session.
Ended ==
  /\ task[Disc].pc # "idle" => cancelled
  /\ task[Disc].pc \notin {"idle", "take"} => entry = "absent"

IndInv == TypeOK /\ Alone /\ Unread /\ Truth /\ Ended

\* What NeverOnPoisoned says of a step.
Polite == \A t \in Tasks : ~Waits(task[t]) /\ Waits(task'[t]) => sent = "none"

-----------------------------------------------------------------------------
\* Before begin nobody is there.
LEMMA InitIndInv == Init => IndInv
<1> SUFFICES ASSUME Init PROVE IndInv
  OBVIOUS
<1> USE DEF Init
<1>1. \A t \in Tasks : task[t] = Idle
  OBVIOUS
<1>2. Disc \in Tasks
  BY DEF Tasks
<1>3. TypeOK
  BY DEF TypeOK, Idle, Known
<1>4. Alone
  BY <1>1 DEF Alone, User, Opener, Idle, Tasks
<1>5. Unread
  BY <1>1 DEF Unread, Clean, User, Idle
<1>6. Truth
  BY <1>1 DEF Truth, Idle, Known
<1>7. Ended
  BY <1>1, <1>2 DEF Ended, Idle
<1> QED
  BY <1>3, <1>4, <1>5, <1>6, <1>7 DEF IndInv

-----------------------------------------------------------------------------
(* How the steps change the tasks.                                         *)

Places == {"idle", "opening", "insert", "lock", "run", "ran", "failed", "cleanup",
           "rollback", "settle", "send", "take", "interrupt", "gone"}
Locals == [pc : Places, ends : BOOLEAN, discard : BOOLEAN, finish : {"none", "commit", "rollback"},
           result : {"unknown"} \cup Known]

\* Only task t has changed, and has not begun to wait on an unread answer.
Only(t) ==
  /\ task' \in [Tasks -> Locals]
  /\ \A u \in Tasks : u # t => task'[u] = task[u]
  /\ ~Waits(task[t]) /\ Waits(task'[t]) => sent = "none"
  /\ t \in Calls => task'[t].pc # "gone"

\* The calls, the watcher, the disconnect and the guard are tasks of their own.
LEMMA TaskNames ==
  /\ Disc \in Tasks /\ Watch \in Tasks /\ Guard \in Tasks /\ Calls \subseteq Tasks
  /\ Disc \notin Calls /\ Watch \notin Calls /\ Guard \notin Calls
  /\ Disc # Watch /\ Disc # Guard /\ Watch # Guard
  BY TasksAssumption DEF Tasks

\* The type of the tasks, in the names used here.
LEMMA TaskType == TypeOK => task \in [Tasks -> Locals]
  BY DEF TypeOK, Locals, Places

\* Goto changes the place alone.
LEMMA GotoFacts ==
  ASSUME TypeOK, NEW t \in Tasks, NEW place \in Places, Goto(t, place),
         place \in {"opening", "run", "rollback", "send"} => sent = "none",
         place = "gone" => t \notin Calls
  PROVE  /\ Only(t)
         /\ task'[t].pc = place /\ task'[t].ends = task[t].ends /\ task'[t].discard = task[t].discard
         /\ task'[t].finish = task[t].finish /\ task'[t].result = task[t].result
<1>1. task \in [Tasks -> Locals]
  BY TaskType
<1>2. task' = [task EXCEPT ![t].pc = place]
  BY DEF Goto
<1>3. task' \in [Tasks -> Locals]
  BY <1>1, <1>2 DEF Locals
<1>4. /\ task'[t].pc = place /\ task'[t].ends = task[t].ends /\ task'[t].discard = task[t].discard
      /\ task'[t].finish = task[t].finish /\ task'[t].result = task[t].result
      /\ \A u \in Tasks : u # t => task'[u] = task[u]
  BY <1>1, <1>2 DEF Locals
<1> QED
  BY <1>3, <1>4 DEF Only, Waits

\* A step that sets the place of task t and whether it ends the session.
LEMMA EndsFacts ==
  ASSUME TypeOK, NEW t \in Tasks, NEW place \in Places, NEW v \in BOOLEAN,
         place \notin {"opening", "run", "rollback", "send", "gone"},
         task' = [task EXCEPT ![t].pc = place, ![t].ends = v]
  PROVE  /\ Only(t)
         /\ task'[t].pc = place /\ task'[t].ends = v
         /\ task'[t].discard = task[t].discard /\ task'[t].finish = task[t].finish
         /\ task'[t].result = task[t].result
<1>1. task \in [Tasks -> Locals]
  BY TaskType
<1>2. PICK l \in Locals : l = task[t]
  BY <1>1
<1> DEFINE r == [l EXCEPT !.pc = place, !.ends = v]
<1>3. task'[t] = r
  BY <1>1, <1>2
<1>4. r \in Locals
  BY DEF Locals
<1>5. /\ r.pc = place /\ r.ends = v
      /\ r.discard = l.discard /\ r.finish = l.finish /\ r.result = l.result
  BY DEF Locals
<1> HIDE DEF r
<1>6. \A u \in Tasks : u # t => task'[u] = task[u] /\ task[u] \in Locals
  BY <1>1
<1>7. task' = [u \in Tasks |-> task'[u]]
  BY <1>1
<1>8. task' \in [Tasks -> Locals]
  BY <1>3, <1>4, <1>6, <1>7
<1> QED
  BY <1>2, <1>3, <1>5, <1>6, <1>8 DEF Only, Waits

\* ... or how it cleans the session up, ...
LEMMA DiscardFacts ==
  ASSUME TypeOK, NEW t \in Tasks, NEW place \in Places, NEW v \in BOOLEAN,
         place \notin {"opening", "run", "rollback", "send", "gone"},
         task' = [task EXCEPT ![t].pc = place, ![t].discard = v]
  PROVE  /\ Only(t)
         /\ task'[t].pc = place /\ task'[t].discard = v
         /\ task'[t].ends = task[t].ends /\ task'[t].finish = task[t].finish
         /\ task'[t].result = task[t].result
<1>1. task \in [Tasks -> Locals]
  BY TaskType
<1>2. PICK l \in Locals : l = task[t]
  BY <1>1
<1> DEFINE r == [l EXCEPT !.pc = place, !.discard = v]
<1>3. task'[t] = r
  BY <1>1, <1>2
<1>4. r \in Locals
  BY DEF Locals
<1>5. /\ r.pc = place /\ r.discard = v
      /\ r.ends = l.ends /\ r.finish = l.finish /\ r.result = l.result
  BY DEF Locals
<1> HIDE DEF r
<1>6. \A u \in Tasks : u # t => task'[u] = task[u] /\ task[u] \in Locals
  BY <1>1
<1>7. task' = [u \in Tasks |-> task'[u]]
  BY <1>1
<1>8. task' \in [Tasks -> Locals]
  BY <1>3, <1>4, <1>6, <1>7
<1> QED
  BY <1>2, <1>3, <1>5, <1>6, <1>8 DEF Only, Waits

\* ... or the command it finishes with, ...
LEMMA FinishFacts ==
  ASSUME TypeOK, NEW t \in Tasks, NEW place \in Places, NEW v \in {"none", "commit", "rollback"},
         place \notin {"opening", "run", "rollback", "send", "gone"},
         task' = [task EXCEPT ![t].pc = place, ![t].finish = v]
  PROVE  /\ Only(t)
         /\ task'[t].pc = place /\ task'[t].finish = v
         /\ task'[t].ends = task[t].ends /\ task'[t].discard = task[t].discard
         /\ task'[t].result = task[t].result
<1>1. task \in [Tasks -> Locals]
  BY TaskType
<1>2. PICK l \in Locals : l = task[t]
  BY <1>1
<1> DEFINE r == [l EXCEPT !.pc = place, !.finish = v]
<1>3. task'[t] = r
  BY <1>1, <1>2
<1>4. r \in Locals
  BY DEF Locals
<1>5. /\ r.pc = place /\ r.finish = v
      /\ r.ends = l.ends /\ r.discard = l.discard /\ r.result = l.result
  BY DEF Locals
<1> HIDE DEF r
<1>6. \A u \in Tasks : u # t => task'[u] = task[u] /\ task[u] \in Locals
  BY <1>1
<1>7. task' = [u \in Tasks |-> task'[u]]
  BY <1>1
<1>8. task' \in [Tasks -> Locals]
  BY <1>3, <1>4, <1>6, <1>7
<1> QED
  BY <1>2, <1>3, <1>5, <1>6, <1>8 DEF Only, Waits

\* ... or the outcome it has to record.
Learns(t, place, v) == task' = [task EXCEPT ![t].pc = place, ![t].result = v]

\* A task that moves on with an outcome.
LEMMA ResultFacts ==
  ASSUME TypeOK, NEW t \in Tasks, NEW place \in Places, NEW v \in {"unknown"} \cup Known,
         place \notin {"opening", "run", "rollback", "send", "gone"},
         Learns(t, place, v)
  PROVE  /\ Only(t)
         /\ task'[t].pc = place /\ task'[t].result = v
         /\ task'[t].ends = task[t].ends /\ task'[t].discard = task[t].discard
         /\ task'[t].finish = task[t].finish
<1>1. task \in [Tasks -> Locals]
  BY TaskType
<1>2. PICK l \in Locals : l = task[t]
  BY <1>1
<1> DEFINE r == [l EXCEPT !.pc = place, !.result = v]
<1>3. task'[t] = r
  BY <1>1, <1>2 DEF Learns
<1>4. r \in Locals
  BY DEF Locals
<1>5. /\ r.pc = place /\ r.result = v
      /\ r.ends = l.ends /\ r.discard = l.discard /\ r.finish = l.finish
  BY DEF Locals
<1> HIDE DEF r
<1>6. \A u \in Tasks : u # t => task'[u] = task[u] /\ task[u] \in Locals
  BY <1>1 DEF Learns
<1>7. task' = [u \in Tasks |-> task'[u]]
  BY <1>1 DEF Learns
<1>8. task' \in [Tasks -> Locals]
  BY <1>3, <1>4, <1>6, <1>7
<1> QED
  BY <1>2, <1>3, <1>5, <1>6, <1>8 DEF Only, Waits

\* A task that is over forgets what it knew; a call was told the outcome.
LEMMA OverFacts ==
  ASSUME TypeOK, NEW t \in Tasks, NEW o \in {"unknown"} \cup Known, Over(t, o)
  PROVE  /\ Only(t)
         /\ task'[t].pc = (IF t \in Calls THEN "idle" ELSE "gone")
         /\ task'[t].discard = FALSE /\ task'[t].result = "unknown"
         /\ reply' \in [Calls -> {"unknown"} \cup Known]
         /\ \A c \in Calls : reply'[c] \in {reply[c], o}
<1>1. task \in [Tasks -> Locals]
  BY TaskType
<1>2. task' = [task EXCEPT ![t] = IF t \in Calls THEN Idle ELSE [Idle EXCEPT !.pc = "gone"]]
  BY DEF Over
<1>3. Idle \in Locals /\ [Idle EXCEPT !.pc = "gone"] \in Locals
  BY DEF Idle, Locals, Places
<1>4. task' \in [Tasks -> Locals]
  BY <1>1, <1>2, <1>3
<1>5. /\ task'[t].pc = (IF t \in Calls THEN "idle" ELSE "gone")
      /\ task'[t].discard = FALSE /\ task'[t].result = "unknown"
      /\ \A u \in Tasks : u # t => task'[u] = task[u]
  BY <1>1, <1>2 DEF Idle
<1>6. /\ reply' \in [Calls -> {"unknown"} \cup Known]
      /\ \A c \in Calls : reply'[c] \in {reply[c], o}
  BY DEF Over, TypeOK
<1> QED
  BY <1>4, <1>5, <1>6 DEF Only, Waits

\* A task that did not change is as before in every respect.
LEMMA OthersAsBefore ==
  ASSUME NEW t, Only(t), NEW u \in Tasks, u # t
  PROVE  /\ User(u)' <=> User(u)
         /\ Opener(u)' <=> Opener(u)
         /\ Clean(u)' <=> Clean(u)
  BY DEF Only, User, Opener, Clean

\* Only one task has changed: the step is polite.
LEMMA OnlyPolite == ASSUME NEW t \in Tasks, Only(t) PROVE Polite
  BY DEF Only, Polite

-----------------------------------------------------------------------------
(* Who has the session.                                                    *)

\* A task that does anything but stand idle is one of a session that was begun.
LEMMA Begun == ASSUME IndInv, NEW t \in Tasks, task[t].pc # "idle" PROVE begun
  BY DEF IndInv, Alone, TypeOK

\* A task goes on, or stops, and the session is not given back.
LEMMA AloneKept ==
  ASSUME IndInv, NEW t \in Tasks, Only(t), begun', entry' = entry \/ entry' = "absent",
         User(t)' => User(t), Opener(t)' => Opener(t)
  PROVE  Alone'
<1>1. \A u \in Tasks : (User(u)' => User(u)) /\ (Opener(u)' => Opener(u))
  BY OthersAsBefore
<1> QED
  BY <1>1, TaskNames DEF IndInv, Alone, Only

\* A task takes the session while it can be had.
LEMMA AloneTaken ==
  ASSUME IndInv, NEW t \in Tasks, Only(t), begun', entry = "idle", entry' # "idle", ~Opener(t)'
  PROVE  Alone'
<1>1. \A u \in Tasks : u # t => ~User(u)'
  BY OthersAsBefore DEF IndInv, Alone
<1>2. \A u \in Tasks : ~Opener(u)'
  BY OthersAsBefore DEF IndInv, Alone
<1> QED
  BY <1>1, <1>2, TaskNames DEF IndInv, Alone, Only

\* The task that has the session, or opens it, lets it go: nobody has it.
LEMMA AloneLeft ==
  ASSUME IndInv, NEW t \in Tasks, Only(t), begun', User(t) \/ Opener(t), ~User(t)', ~Opener(t)'
  PROVE  Alone'
<1>1. \A u \in Tasks : ~User(u)' /\ ~Opener(u)'
  BY OthersAsBefore DEF IndInv, Alone
<1> QED
  BY <1>1, TaskNames DEF IndInv, Alone, Only

-----------------------------------------------------------------------------
(* What is outstanding on the connection.                                  *)

\* Nothing is sent or read.
LEMMA UnreadKept ==
  ASSUME IndInv, NEW t \in Tasks, Only(t), begun', sent' = sent, entry' = "idle" => sent = "none",
         Clean(t)' => sent = "none", task'[t].pc \notin {"opening", "rollback", "send"}
  PROVE  Unread'
<1>1. ASSUME NEW u \in Tasks
      PROVE  /\ Clean(u)' => sent = "none"
             /\ task'[u].pc = "opening" => sent = "begin"
             /\ task'[u].pc = "rollback" => sent = "rollback" /\ ~task'[u].discard
             /\ task'[u].pc = "send" => u \in Calls /\ sent = task'[u].finish /\ sent \in {"commit", "rollback"}
  <2>1. CASE u = t
    BY <2>1
  <2>2. CASE u # t
    BY <2>2, OthersAsBefore DEF IndInv, Unread, Only
  <2> QED
    BY <2>1, <2>2
<1> QED
  BY <1>1 DEF Unread

\* The task that has the session sends or reads: nobody else relies on what is
\* outstanding.
LEMMA UnreadMoves ==
  ASSUME IndInv, NEW t \in Tasks, Only(t), begun', User(t) \/ Opener(t),
         entry' = "idle" => sent' = "none",
         Clean(t)' => sent' = "none",
         task'[t].pc # "opening",
         task'[t].pc = "rollback" => sent' = "rollback" /\ ~task'[t].discard,
         task'[t].pc = "send" => t \in Calls /\ sent' = task'[t].finish /\ sent' \in {"commit", "rollback"}
  PROVE  Unread'
<1>1. ASSUME NEW u \in Tasks, u # t
      PROVE  ~Clean(u)' /\ task'[u].pc \notin {"opening", "rollback", "send"}
  <2>1. ~User(u) /\ ~Opener(u) /\ task'[u] = task[u]
    BY <1>1, TaskNames DEF IndInv, Alone, Only
  <2>2. task[u].pc \notin {"opening", "rollback", "send"}
    BY <2>1, TaskNames DEF IndInv, Unread, User, Opener
  <2>3. ~Clean(u)
    BY <2>1 DEF Clean, Opener
  <2> QED
    BY <1>1, <2>1, <2>2, <2>3, OthersAsBefore
<1> QED
  BY <1>1 DEF Unread

-----------------------------------------------------------------------------
(* What is known.                                                          *)

\* A step of a task that learns nothing but from an answer or the record.
LEMMA TruthKept ==
  ASSUME IndInv, NEW t \in Tasks, Only(t), server' = server, begun',
         UNCHANGED <<sent, answer>> \/ (answer' = "none" /\ sent' # "begin"),
         task'[t].result \in {task[t].result, "unknown", server},
         record' \in {record, "none", "unknown", server} \/ record' = task[t].result,
         \A c \in Calls : reply'[c] \in {reply[c], "unknown", record} \/ reply'[c] = task[t].result
  PROVE  Truth'
<1>1. ASSUME NEW u \in Tasks, task'[u].result \in Known
      PROVE  task'[u].result = server
  <2>1. CASE u = t
    BY <2>1, <1>1 DEF IndInv, Truth, Known
  <2>2. CASE u # t
    BY <2>2, <1>1 DEF IndInv, Truth, Only
  <2> QED
    BY <2>1, <2>2
<1>2. /\ task[t].result \in Known => task[t].result = server
      /\ record \in Known => record = server
  BY DEF IndInv, Truth
<1>3. record' \in Known => record' = server
  BY <1>2 DEF Known
<1>4. \A c \in Calls : reply'[c] \in Known => reply'[c] = server
  BY <1>2 DEF IndInv, Truth, Known
<1>5. /\ sent' = "begin" /\ answer' = "none" => server = "none"
      /\ sent' = "commit" /\ answer' = "ok" => server = "committed"
      /\ sent' = "rollback" /\ answer' = "ok" => server = "rolledBack"
  BY DEF IndInv, Truth
<1> QED
  BY <1>1, <1>3, <1>4, <1>5 DEF Truth

\* A step of another task than the disconnect, which does not insert the
\* session into a lifecycle that is over.
LEMMA EndedKept ==
  ASSUME IndInv, NEW t \in Tasks, Only(t), t # Disc, cancelled' = cancelled,
         entry' = "absent" \/ entry # "absent" \/ ~cancelled
  PROVE  Ended'
  BY TaskNames DEF IndInv, Ended, Only

-----------------------------------------------------------------------------
(* begin.                                                                  *)

\* begin is called once, on nothing.
LEMMA BeginCallStep ==
  ASSUME IndInv, NEW c \in Calls, BeginCall(c)
  PROVE  IndInv' /\ Polite
<1> USE TaskNames
<1>1. /\ ~begun /\ begun' /\ sent' = "begin" /\ answer' = "none"
      /\ UNCHANGED <<entry, stale, cancelled, record, lock, released, server, reply>>
  BY DEF BeginCall, Send
<1>2. sent = "none" /\ entry = "absent" /\ server = "none" /\ \A t \in Tasks : task[t].pc = "idle"
  BY <1>1 DEF IndInv, Alone, Unread, Truth
<1>3. Only(c) /\ task'[c].pc = "opening" /\ task'[c].result = task[c].result
  BY <1>2, GotoFacts DEF BeginCall, IndInv, Places
<1>4. \A u \in Tasks : u # c => task'[u].pc = "idle"
  BY <1>2, <1>3 DEF Only
<1>5. TypeOK'
  BY <1>1, <1>3 DEF IndInv, TypeOK, Only, Locals, Places
<1>6. Alone'
  BY <1>1, <1>2, <1>3, <1>4 DEF Alone, User, Opener
<1>7. Unread'
  <2>1. \A u \in Tasks : ~Clean(u)'
    BY <1>3, <1>4 DEF Clean, User
  <2> QED
    BY <1>1, <1>2, <1>3, <1>4, <2>1 DEF Unread
<1>8. Truth'
  <2>1. \A u \in Tasks : task'[u].result = task[u].result
    BY <1>3 DEF Only
  <2> QED
    BY <1>1, <1>2, <2>1 DEF IndInv, Truth
<1>9. Ended'
  BY <1>1, <1>3, EndedKept
<1> QED
  BY <1>3, <1>5, <1>6, <1>7, <1>8, <1>9, OnlyPolite DEF IndInv

\* The answer to BEGIN TRANSACTION is read, or the connection is dropped.
LEMMA BeginResultStep ==
  ASSUME IndInv, NEW c \in Calls, BeginResult(c)
  PROVE  IndInv' /\ Polite
<1> USE TaskNames
<1>1. task[c].pc = "opening" /\ UNCHANGED <<begun, entry, stale, cancelled, record, lock, server>>
  BY DEF BeginResult, At, session
<1>2. begun /\ begun' /\ Opener(c) /\ entry = "absent"
  BY <1>1, Begun DEF Opener, IndInv, Alone
<1>3. CASE Read /\ Goto(c, "insert") /\ UNCHANGED <<released, reply>>
  <2>1. /\ Only(c) /\ task'[c].pc = "insert" /\ task'[c].result = task[c].result
        /\ sent' = "none" /\ answer' = "none"
    BY <1>3, GotoFacts DEF IndInv, Places, Read
  <2>2. ~User(c)' /\ Opener(c)'
    BY <2>1 DEF User, Opener
  <2>3. TypeOK'
    BY <1>1, <1>3, <2>1 DEF IndInv, TypeOK, Only, Locals, Places
  <2>4. Alone'
    BY <1>1, <1>2, <2>1, <2>2, AloneKept
  <2>5. Unread'
    BY <1>2, <2>1, UnreadMoves
  <2>6. Truth'
    BY <1>1, <1>2, <1>3, <2>1, TruthKept
  <2>7. Ended'
    BY <1>1, <1>2, <2>1, EndedKept
  <2> QED
    BY <2>1, <2>3, <2>4, <2>5, <2>6, <2>7, OnlyPolite DEF IndInv
<1>4. CASE released' = TRUE /\ Over(c, "unknown") /\ UNCHANGED <<sent, answer>>
  <2>1. /\ Only(c) /\ task'[c].pc = "idle" /\ task'[c].result = "unknown"
        /\ reply' \in [Calls -> {"unknown"} \cup Known]
        /\ \A d \in Calls : reply'[d] \in {reply[d], "unknown"}
    BY <1>4, OverFacts DEF IndInv
  <2>2. ~User(c)' /\ ~Opener(c)' /\ ~Clean(c)'
    BY <2>1 DEF User, Opener, Clean
  <2>3. TypeOK'
    BY <1>1, <1>4, <2>1 DEF IndInv, TypeOK, Only, Locals, Places
  <2>4. Alone'
    BY <1>1, <1>2, <2>1, <2>2, AloneKept
  <2>5. Unread'
    BY <1>1, <1>2, <1>4, <2>1, <2>2, UnreadKept
  <2>6. Truth'
    BY <1>1, <1>2, <1>4, <2>1, TruthKept
  <2>7. Ended'
    BY <1>1, <1>2, <2>1, EndedKept
  <2> QED
    BY <2>1, <2>3, <2>4, <2>5, <2>6, <2>7, OnlyPolite DEF IndInv
<1> QED
  BY <1>3, <1>4 DEF BeginResult

\* The session is inserted while its lifecycle is current; nobody has it yet.
LEMMA BeginInsertStep ==
  ASSUME IndInv, NEW c \in Calls, BeginInsert(c)
  PROVE  IndInv' /\ Polite
<1> USE TaskNames
<1>1. /\ task[c].pc = "insert" /\ entry' = (IF cancelled THEN "absent" ELSE "idle") /\ Over(c, "unknown")
      /\ UNCHANGED <<begun, stale, cancelled, record, lock, released, server, sent, answer>>
  BY DEF BeginInsert, At, wire
<1>2. begun /\ begun' /\ Opener(c) /\ sent = "none"
  BY <1>1, Begun DEF Opener, Clean, IndInv, Unread
<1>3. /\ Only(c) /\ task'[c].pc = "idle" /\ task'[c].result = "unknown"
      /\ reply' \in [Calls -> {"unknown"} \cup Known]
      /\ \A d \in Calls : reply'[d] \in {reply[d], "unknown"}
  BY <1>1, OverFacts DEF IndInv
<1>4. ~User(c)' /\ ~Opener(c)'
  BY <1>3 DEF User, Opener
<1>5. TypeOK'
  BY <1>1, <1>3 DEF IndInv, TypeOK, Only, Locals, Places
<1>6. Alone'
  BY <1>2, <1>3, <1>4, AloneLeft
<1>7. Unread'
  BY <1>1, <1>2, <1>3, UnreadKept
<1>8. Truth'
  BY <1>1, <1>2, <1>3, TruthKept
<1>9. Ended'
  BY <1>1, <1>3, EndedKept
<1> QED
  BY <1>3, <1>5, <1>6, <1>7, <1>8, <1>9, OnlyPolite DEF IndInv

-----------------------------------------------------------------------------
(* Calls that find the session, and calls that do not.                     *)

\* A request that finds no session, or a busy one, is told the record.
LEMMA RefusedStep ==
  ASSUME IndInv, NEW c \in Calls, begun,
         reply' = [reply EXCEPT ![c] = IF entry = "absent" THEN Missing ELSE "unknown"],
         UNCHANGED <<begun, entry, stale, cancelled, record, lock, released, server, sent, answer, task>>
  PROVE  IndInv' /\ Polite
<1>1. /\ Missing \in {"unknown"} \cup Known
      /\ Missing = "unknown" \/ Missing = record
  BY DEF Missing, IndInv, TypeOK
<1>2. /\ reply' \in [Calls -> {"unknown"} \cup Known]
      /\ \A d \in Calls : reply'[d] \in {reply[d], "unknown", record}
  BY <1>1 DEF IndInv, TypeOK
<1>3. TypeOK'
  BY <1>2 DEF IndInv, TypeOK
<1>4. \A u \in Tasks : (User(u)' <=> User(u)) /\ (Opener(u)' <=> Opener(u)) /\ (Clean(u)' <=> Clean(u))
  BY DEF User, Opener, Clean
<1>5. Alone' /\ Unread' /\ Ended'
  BY <1>4 DEF IndInv, Alone, Unread, Ended
<1>6. Truth'
  BY <1>2 DEF IndInv, Truth, Known
<1>7. Polite
  BY DEF Polite
<1> QED
  BY <1>3, <1>5, <1>6, <1>7 DEF IndInv

\* Task t finds the session in the map, not in use, and takes or marks it: its
\* connection has no unread answer.
LEMMA TakenStep ==
  ASSUME IndInv, NEW t \in Tasks, t # Disc, Only(t), task'[t].pc = "lock", task'[t].result = task[t].result,
         begun, entry = "idle", entry' \in {"busy", "absent"}, record' \in {record, "unknown"},
         UNCHANGED <<begun, stale, cancelled, lock, released, server, sent, answer, reply>>
  PROVE  IndInv' /\ Polite
<1> USE TaskNames
<1>1. ~Opener(t)' /\ sent = "none"
  BY DEF Opener, IndInv, Unread
<1>2. TypeOK'
  BY DEF IndInv, TypeOK, Only, Locals, Places
<1>3. Alone'
  BY <1>1, AloneTaken
<1>4. Unread'
  BY <1>1, UnreadKept
<1>5. Truth'
  BY TruthKept
<1>6. Ended'
  BY EndedKept
<1> QED
  BY <1>2, <1>3, <1>4, <1>5, <1>6, OnlyPolite DEF IndInv

\* execute marks the session busy.
LEMMA ExecuteCallStep ==
  ASSUME IndInv, NEW c \in Calls, ExecuteCall(c)
  PROVE  IndInv' /\ Polite
<1> USE TaskNames
<1>1. begun /\ UNCHANGED <<begun, stale, cancelled, record, lock, released, server, sent, answer>>
  BY DEF ExecuteCall, wire
<1>2. CASE /\ reply' = [reply EXCEPT ![c] = IF entry = "absent" THEN Missing ELSE "unknown"]
           /\ UNCHANGED <<entry, task>>
  BY <1>1, <1>2, RefusedStep
<1>3. CASE /\ entry = "idle" /\ entry' = "busy" /\ UNCHANGED reply
           /\ \E contextChanged \in BOOLEAN :
                task' = [task EXCEPT ![c].pc = "lock", ![c].ends = contextChanged \/ stale]
  <2>1. PICK e \in BOOLEAN : task' = [task EXCEPT ![c].pc = "lock", ![c].ends = e]
    BY <1>3
  <2>2. Only(c) /\ task'[c].pc = "lock" /\ task'[c].result = task[c].result
    BY <2>1, EndsFacts DEF IndInv, Places
  <2> QED
    BY <1>1, <1>3, <2>2, TakenStep
<1> QED
  BY <1>2, <1>3 DEF ExecuteCall

\* finish takes the session out of the map.
LEMMA FinishCallStep ==
  ASSUME IndInv, NEW c \in Calls, NEW command \in {"commit", "rollback"}, FinishCall(c, command)
  PROVE  IndInv' /\ Polite
<1> USE TaskNames
<1>1. begun /\ UNCHANGED <<begun, stale, cancelled, record, lock, released, server, sent, answer>>
  BY DEF FinishCall, wire
<1>2. CASE /\ reply' = [reply EXCEPT ![c] = IF entry = "absent" THEN Missing ELSE "unknown"]
           /\ UNCHANGED <<entry, task>>
  BY <1>1, <1>2, RefusedStep
<1>3. CASE /\ entry = "idle" /\ entry' = "absent" /\ UNCHANGED reply
           /\ task' = [task EXCEPT ![c].pc = "lock", ![c].finish = command]
  <2>1. Only(c) /\ task'[c].pc = "lock" /\ task'[c].result = task[c].result
    BY <1>3, FinishFacts DEF IndInv, Places
  <2> QED
    BY <1>1, <1>3, <2>1, TakenStep
<1> QED
  BY <1>2, <1>3 DEF FinishCall

\* The idle watcher takes a session that nobody uses.
LEMMA WatchTakesStep ==
  ASSUME IndInv, WatchTakes
  PROVE  IndInv' /\ Polite
<1> USE TaskNames
<1>1. /\ entry = "idle" /\ entry' = "absent" /\ record' = "unknown"
      /\ UNCHANGED <<begun, stale, cancelled, lock, released, server, sent, answer, reply>>
  BY DEF WatchTakes, wire
<1>2. begun
  BY <1>1 DEF IndInv, Alone
<1>3. Only(Watch) /\ task'[Watch].pc = "lock" /\ task'[Watch].result = task[Watch].result
  BY GotoFacts DEF WatchTakes, IndInv, Places
<1> QED
  BY <1>1, <1>2, <1>3, TakenStep

-----------------------------------------------------------------------------
(* Steps of the task that has the session, or of a disconnect that has to  *)
(* discard it.                                                             *)

\* Task t goes on, or stops, without the connection: no command, no answer.
LEMMA GoesOn ==
  ASSUME IndInv, NEW t \in Tasks, Only(t), task[t].pc # "idle", t = Disc => task[t].pc # "take",
         User(t)' => User(t), ~Opener(t)', Clean(t)' => Clean(t),
         task'[t].pc \notin {"opening", "rollback", "send"},
         task'[t].result \in {task[t].result, "unknown"},
         record' \in {record, "unknown"} \/ record' = task[t].result,
         reply' \in [Calls -> {"unknown"} \cup Known],
         \A c \in Calls : reply'[c] \in {reply[c], "unknown"} \/ reply'[c] = task[t].result,
         t = Disc => task'[t].pc # "idle",
         entry' = entry \/ entry' = "absent", lock' \in Tasks \cup {None}, released' \in BOOLEAN,
         UNCHANGED <<begun, stale, cancelled, server, sent, answer>>
  PROVE  IndInv' /\ Polite
<1> USE TaskNames
<1>1. begun /\ begun'
  BY Begun
<1>2. TypeOK'
  <2>1. record' \in {"none", "unknown"} \cup Known
    BY TaskType DEF IndInv, TypeOK, Locals
  <2>2. entry' \in {"absent", "idle", "busy"}
    BY DEF IndInv, TypeOK
  <2> QED
    BY <2>1, <2>2 DEF IndInv, TypeOK, Only, Locals, Places
<1>3. Alone'
  BY <1>1, AloneKept
<1>4. Unread'
  <2>1. entry' = "idle" => sent = "none"
    BY DEF IndInv, Unread, TypeOK
  <2>2. Clean(t)' => sent = "none"
    BY DEF IndInv, Unread
  <2> QED
    BY <1>1, <2>1, <2>2, UnreadKept
<1>5. Truth'
  BY <1>1, TruthKept
<1>6. Ended'
  BY DEF IndInv, Ended, Only
<1> QED
  BY <1>2, <1>3, <1>4, <1>5, <1>6, OnlyPolite DEF IndInv

\* Task t is over and gives the session back, if it is still in the map.
LEMMA GivesBack ==
  ASSUME IndInv, NEW t \in Calls, User(t), task[t].pc \in {"lock", "ran"}, Over(t, "unknown"),
         entry' = IF entry = "busy" THEN "idle" ELSE entry, lock' \in Tasks \cup {None}, stale' \in BOOLEAN,
         UNCHANGED <<begun, cancelled, record, released, server, sent, answer>>
  PROVE  IndInv' /\ Polite
<1> USE TaskNames
<1>1. begun /\ begun' /\ sent = "none"
  BY Begun DEF Clean, IndInv, Unread
<1>2. /\ Only(t) /\ task'[t].pc = "idle" /\ task'[t].result = "unknown"
      /\ reply' \in [Calls -> {"unknown"} \cup Known]
      /\ \A d \in Calls : reply'[d] \in {reply[d], "unknown"}
  BY OverFacts DEF IndInv
<1>3. ~User(t)' /\ ~Opener(t)'
  BY <1>2 DEF User, Opener
<1>4. TypeOK'
  BY <1>2 DEF IndInv, TypeOK, Only, Locals, Places
<1>5. Alone'
  BY <1>1, <1>2, <1>3, AloneLeft
<1>6. Unread'
  BY <1>1, <1>2, UnreadKept
<1>7. Truth'
  BY <1>1, <1>2, TruthKept
<1>8. Ended'
  BY <1>2, EndedKept DEF IndInv, TypeOK
<1> QED
  BY <1>2, <1>4, <1>5, <1>6, <1>7, <1>8, OnlyPolite DEF IndInv

\* Task t, which has the session, sends a command on a clean connection.
LEMMA Sends ==
  ASSUME IndInv, NEW t \in Tasks, User(t), Clean(t), Only(t), User(t)',
         answer' = "none", sent' \in {"batch", "commit", "rollback"},
         \/ task'[t].pc = "run"
         \/ task'[t].pc = "rollback" /\ sent' = "rollback" /\ ~task'[t].discard
         \/ task'[t].pc = "send" /\ t \in Calls /\ sent' = task'[t].finish /\ sent' \in {"commit", "rollback"},
         task'[t].result = task[t].result, record' \in {record, "unknown"},
         lock' \in Tasks \cup {None},
         UNCHANGED <<begun, entry, stale, cancelled, released, server, reply>>
  PROVE  IndInv' /\ Polite
<1> USE TaskNames
<1>1. begun /\ begun' /\ ~Opener(t)' /\ ~Clean(t)' /\ entry # "idle"
  BY Begun DEF User, Opener, Clean, IndInv, Alone
<1>2. TypeOK'
  BY DEF IndInv, TypeOK, Only, Locals, Places
<1>3. Alone'
  BY <1>1, AloneKept
<1>4. Unread'
  BY <1>1, UnreadMoves
<1>5. Truth'
  BY <1>1, TruthKept
<1>6. Ended'
  BY DEF IndInv, Ended, Only, User
<1> QED
  BY <1>2, <1>3, <1>4, <1>5, <1>6, OnlyPolite DEF IndInv

\* Task t, which has the session, reads the answer to its command.
LEMMA Reads ==
  ASSUME IndInv, NEW t \in Tasks, User(t), Only(t), User(t)', sent' = "none", answer' = "none",
         task'[t].pc \in {"ran", "failed", "settle"},
         task'[t].result \in {task[t].result, "unknown", server}, record' \in {record, server},
         record' \in {"none", "unknown"} \cup Known,
         UNCHANGED <<begun, entry, stale, cancelled, lock, released, server, reply>>
  PROVE  IndInv' /\ Polite
<1> USE TaskNames
<1>1. begun /\ begun' /\ ~Opener(t)'
  BY Begun DEF User, Opener
<1>2. TypeOK'
  BY DEF IndInv, TypeOK, Only, Locals, Places
<1>3. Alone'
  BY <1>1, AloneKept
<1>4. Unread'
  BY <1>1, UnreadMoves
<1>5. Truth'
  BY <1>1, TruthKept
<1>6. Ended'
  BY DEF IndInv, Ended, Only, User
<1> QED
  BY <1>2, <1>3, <1>4, <1>5, <1>6, OnlyPolite DEF IndInv

\* A call past its lookup has the session.
LEMMA CallUses ==
  ASSUME NEW c \in Calls, task[c].pc \notin {"idle", "opening", "insert", "gone"}
  PROVE  User(c)
  BY TaskNames DEF User

-----------------------------------------------------------------------------
(* execute.                                                                *)

\* The session is ended, given back, or the batch is sent.
LEMMA ExecuteLockStep ==
  ASSUME IndInv, NEW c \in Calls, ExecuteLock(c)
  PROVE  IndInv' /\ Polite
<1> USE TaskNames
<1>1. /\ task[c].pc = "lock" /\ UNCHANGED <<begun, stale, cancelled, record, released, server>>
      /\ lock = None
  BY DEF ExecuteLock, At
<1>2. User(c) /\ Clean(c) /\ sent = "none"
  BY <1>1, CallUses DEF Clean, IndInv, Unread
<1>3. reply \in [Calls -> {"unknown"} \cup Known] /\ released \in BOOLEAN
  BY DEF IndInv, TypeOK
<1>4. CASE entry' = "absent" /\ lock' = c /\ Cleanup(c, FALSE) /\ UNCHANGED <<sent, answer, reply>>
  <2>1. Only(c) /\ task'[c].pc = "cleanup" /\ task'[c].result = task[c].result
    BY <1>4, DiscardFacts DEF Cleanup, IndInv, Places
  <2>2. ~Opener(c)'
    BY <2>1 DEF Opener
  <2> QED
    BY <1>1, <1>2, <1>3, <1>4, <2>1, <2>2, GoesOn
<1>5. CASE /\ entry' = IF entry = "busy" THEN "idle" ELSE entry
           /\ Over(c, "unknown") /\ UNCHANGED <<lock, sent, answer>>
  <2>1. lock' \in Tasks \cup {None} /\ stale' \in BOOLEAN
    BY <1>1, <1>5 DEF IndInv, TypeOK
  <2> QED
    BY <1>1, <1>2, <1>5, <2>1, GivesBack
<1>6. CASE lock' = c /\ Send("batch") /\ Goto(c, "run") /\ UNCHANGED <<entry, reply>>
  <2>1. Only(c) /\ task'[c].pc = "run" /\ task'[c].result = task[c].result
    BY <1>2, <1>6, GotoFacts DEF IndInv, Places
  <2>2. User(c)'
    BY <2>1 DEF User
  <2>3. sent' = "batch" /\ answer' = "none"
    BY <1>6 DEF Send
  <2> QED
    BY <1>1, <1>2, <1>6, <2>1, <2>2, <2>3, Sends
<1> QED
  BY <1>4, <1>5, <1>6 DEF ExecuteLock

\* The answer to the batch is read.
LEMMA ExecuteResultStep ==
  ASSUME IndInv, NEW c \in Calls, ExecuteResult(c)
  PROVE  IndInv' /\ Polite
<1> USE TaskNames
<1>1. /\ task[c].pc = "run" /\ sent' = "none" /\ answer' = "none"
      /\ UNCHANGED <<begun, entry, stale, cancelled, record, lock, released, server, reply>>
  BY DEF ExecuteResult, At, Read, session
<1>2. PICK place \in {"ran", "failed"}, d \in BOOLEAN : task' = [task EXCEPT ![c].pc = place, ![c].discard = d]
  BY DEF ExecuteResult
<1>3. Only(c) /\ task'[c].pc = place /\ task'[c].result = task[c].result
  BY <1>2, DiscardFacts DEF IndInv, Places
<1>4. User(c) /\ User(c)'
  BY <1>1, <1>3, CallUses DEF User
<1>5. record \in {"none", "unknown"} \cup Known
  BY DEF IndInv, TypeOK
<1> QED
  BY <1>1, <1>3, <1>4, <1>5, Reads

\* The batch is given up: its answer stays unread, and the connection will be
\* discarded.
LEMMA ExecuteGivenUpStep ==
  ASSUME IndInv, NEW c \in Calls, ExecuteDisconnected(c) \/ ExecuteInterrupted(c)
  PROVE  IndInv' /\ Polite
<1> USE TaskNames
<1>1. /\ task[c].pc = "run" /\ task' = [task EXCEPT ![c].pc = "failed", ![c].discard = TRUE]
      /\ UNCHANGED <<begun, entry, stale, cancelled, record, lock, released, server, sent, answer, reply>>
  BY DEF ExecuteDisconnected, ExecuteInterrupted, At, session, wire
<1>2. Only(c) /\ task'[c].pc = "failed" /\ task'[c].discard = TRUE /\ task'[c].result = task[c].result
  BY <1>1, DiscardFacts DEF IndInv, Places
<1>3. User(c) /\ ~Opener(c)' /\ ~Clean(c)'
  BY <1>1, <1>2, CallUses DEF Opener, Clean
<1>4. reply \in [Calls -> {"unknown"} \cup Known] /\ released \in BOOLEAN /\ lock \in Tasks \cup {None}
  BY DEF IndInv, TypeOK
<1> QED
  BY <1>1, <1>2, <1>3, <1>4, GoesOn

\* The results: the session is given back.
LEMMA ExecuteOkStep ==
  ASSUME IndInv, NEW c \in Calls, ExecuteOk(c)
  PROVE  IndInv' /\ Polite
<1>1. /\ task[c].pc = "ran" /\ entry' = (IF entry = "busy" THEN "idle" ELSE entry) /\ stale' = FALSE
      /\ Over(c, "unknown") /\ UNCHANGED <<begun, cancelled, record, released, server, sent, answer>>
  BY DEF ExecuteOk, At, wire
<1>2. lock' \in Tasks \cup {None}
  BY DEF ExecuteOk, Unlock, IndInv, TypeOK
<1> QED
  BY <1>1, <1>2, CallUses, GivesBack

\* An error: the session leaves the map.
LEMMA ExecuteFailedStep ==
  ASSUME IndInv, NEW c \in Calls, ExecuteFailed(c)
  PROVE  IndInv' /\ Polite
<1> USE TaskNames
<1>1. /\ task[c].pc = "failed" /\ entry' = "absent"
      /\ UNCHANGED <<begun, stale, cancelled, record, lock, released, server, sent, answer, reply>>
  BY DEF ExecuteFailed, At, wire
<1>2. Only(c) /\ task'[c].pc = "cleanup" /\ task'[c].discard = task[c].discard /\ task'[c].result = task[c].result
  BY GotoFacts DEF ExecuteFailed, IndInv, Places
<1>3. User(c) /\ ~Opener(c)' /\ (Clean(c)' => Clean(c))
  BY <1>1, <1>2, CallUses DEF Opener, Clean
<1>4. reply \in [Calls -> {"unknown"} \cup Known] /\ released \in BOOLEAN /\ lock \in Tasks \cup {None}
  BY DEF IndInv, TypeOK
<1> QED
  BY <1>1, <1>2, <1>3, <1>4, GoesOn

-----------------------------------------------------------------------------
(* The cleanup, by a call, by the disconnect or by the idle watcher.       *)

\* ROLLBACK is sent, unless the connection is to be discarded.
LEMMA CleanupStartStep ==
  ASSUME IndInv, NEW t \in Tasks, CleanupStart(t)
  PROVE  IndInv' /\ Polite
<1> USE TaskNames
<1>1. task[t].pc = "cleanup" /\ UNCHANGED <<begun, entry, stale, cancelled, record, lock, released, server, reply>>
  BY DEF CleanupStart, At, session
<1>2. reply \in [Calls -> {"unknown"} \cup Known] /\ released \in BOOLEAN /\ lock \in Tasks \cup {None}
  BY DEF IndInv, TypeOK
<1>3. CASE task[t].discard
  <2>1. Goto(t, "settle") /\ UNCHANGED <<sent, answer>>
    BY <1>3 DEF CleanupStart
  <2>2. Only(t) /\ task'[t].pc = "settle" /\ task'[t].discard = task[t].discard /\ task'[t].result = task[t].result
    BY <2>1, GotoFacts DEF IndInv, Places
  <2>3. (User(t)' => User(t)) /\ ~Opener(t)' /\ ~Clean(t)'
    BY <1>1, <2>2 DEF User, Opener, Clean
  <2> QED
    BY <1>1, <1>2, <2>1, <2>2, <2>3, GoesOn
<1>4. CASE ~task[t].discard
  <2>1. Goto(t, "rollback") /\ sent' = "rollback" /\ answer' = "none"
    BY <1>4 DEF CleanupStart, Send
  <2>2. User(t) /\ Clean(t)
    BY <1>1, <1>4 DEF User, Clean
  <2>3. sent = "none"
    BY <2>2 DEF IndInv, Unread
  <2>4. Only(t) /\ task'[t].pc = "rollback" /\ task'[t].discard = task[t].discard /\ task'[t].result = task[t].result
    BY <2>1, <2>3, GotoFacts DEF IndInv, Places
  <2>5. User(t)'
    BY <1>4, <2>4 DEF User
  <2> QED
    BY <1>1, <1>2, <1>4, <2>1, <2>2, <2>4, <2>5, Sends
<1> QED
  BY <1>3, <1>4

\* The answer to the ROLLBACK is the outcome; without one it is unknown.
LEMMA CleanupResultStep ==
  ASSUME IndInv, NEW t \in Tasks, CleanupResult(t)
  PROVE  IndInv' /\ Polite
<1> USE TaskNames
<1>1. task[t].pc = "rollback" /\ UNCHANGED <<begun, entry, stale, cancelled, record, lock, released, server, reply>>
  BY DEF CleanupResult, At, session
<1>2. /\ reply \in [Calls -> {"unknown"} \cup Known] /\ released \in BOOLEAN /\ lock \in Tasks \cup {None}
      /\ record \in {"none", "unknown"} \cup Known
  BY DEF IndInv, TypeOK
<1>3. User(t) /\ sent = "rollback" /\ ~task[t].discard
  BY <1>1 DEF IndInv, Unread, User
<1>4. CASE Answered /\ Read
           /\ task' = [task EXCEPT ![t].pc = "settle",
                                   ![t].result = IF answer = "ok" THEN "rolledBack" ELSE "unknown"]
  <2>1. sent' = "none" /\ answer' = "none"
    BY <1>4 DEF Read
  <2>2. PICK o \in {"unknown", server} :
          task' = [task EXCEPT ![t].pc = "settle", ![t].result = o] /\ o \in {"unknown"} \cup Known
    BY <1>3, <1>4 DEF IndInv, Truth, Known
  <2>3. Only(t) /\ task'[t].pc = "settle" /\ task'[t].result = o /\ task'[t].discard = task[t].discard
    <3>1. TypeOK /\ "settle" \in Places /\ "settle" \notin {"opening", "run", "rollback", "send", "gone"}
      BY DEF IndInv, Places
    <3>2. Learns(t, "settle", o) /\ o \in {"unknown"} \cup Known
      BY <2>2 DEF Learns
    <3> QED
      BY <3>1, <3>2, ResultFacts
  <2>4. User(t)'
    BY <1>3, <2>3 DEF User
  <2> QED
    BY <1>1, <1>2, <1>3, <2>1, <2>3, <2>4, Reads
<1>5. CASE Goto(t, "settle") /\ UNCHANGED <<sent, answer>>
  <2>1. Only(t) /\ task'[t].pc = "settle" /\ task'[t].result = task[t].result /\ task'[t].discard = task[t].discard
    BY <1>5, GotoFacts DEF IndInv, Places
  <2>2. ~Opener(t)' /\ ~Clean(t)'
    BY <2>1 DEF Opener, Clean
  <2> QED
    BY <1>1, <1>2, <1>3, <1>5, <2>1, <2>2, GoesOn
<1> QED
  BY <1>4, <1>5 DEF CleanupResult

\* The outcome is recorded, and told.
LEMMA CleanupRecordStep ==
  ASSUME IndInv, NEW t \in Tasks, CleanupRecord(t)
  PROVE  IndInv' /\ Polite
<1> USE TaskNames
<1>1. /\ task[t].pc = "settle" /\ released' = TRUE /\ record' = task[t].result /\ Over(t, task[t].result)
      /\ UNCHANGED <<begun, entry, stale, cancelled, server, sent, answer>>
  BY DEF CleanupRecord, At, session, wire
<1>2. lock' \in Tasks \cup {None} /\ task[t].result \in {"unknown"} \cup Known
  BY TaskType DEF CleanupRecord, Unlock, IndInv, TypeOK, Locals
<1>3. /\ Only(t) /\ task'[t].pc \in {"idle", "gone"} /\ task'[t].result = "unknown"
      /\ t \notin Calls => task'[t].pc = "gone"
      /\ reply' \in [Calls -> {"unknown"} \cup Known]
      /\ \A c \in Calls : reply'[c] = reply[c] \/ reply'[c] = task[t].result
  BY <1>1, <1>2, OverFacts DEF IndInv
<1>4. ~User(t)' /\ ~Opener(t)' /\ ~Clean(t)'
  BY <1>3 DEF User, Opener, Clean
<1> QED
  BY <1>1, <1>2, <1>3, <1>4, GoesOn

-----------------------------------------------------------------------------
(* finish.                                                                 *)

\* It is too late, or the command is sent and the record says unknown.
LEMMA FinishLockStep ==
  ASSUME IndInv, NEW c \in Calls, FinishLock(c)
  PROVE  IndInv' /\ Polite
<1> USE TaskNames
<1>1. /\ task[c].pc = "lock" /\ task[c].finish # "none" /\ lock' = c
      /\ UNCHANGED <<begun, entry, stale, cancelled, released, server, reply>>
  BY DEF FinishLock, At, session
<1>2. User(c) /\ Clean(c) /\ sent = "none"
  BY <1>1, CallUses DEF Clean, IndInv, Unread
<1>3. /\ reply \in [Calls -> {"unknown"} \cup Known] /\ released \in BOOLEAN
      /\ task[c].finish \in {"commit", "rollback"}
  BY <1>1, TaskType DEF IndInv, TypeOK, Locals
<1>4. CASE Cleanup(c, FALSE) /\ UNCHANGED <<record, sent, answer>>
  <2>1. Only(c) /\ task'[c].pc = "cleanup" /\ task'[c].result = task[c].result
    BY <1>4, DiscardFacts DEF Cleanup, IndInv, Places
  <2>2. ~Opener(c)'
    BY <2>1 DEF Opener
  <2> QED
    BY <1>1, <1>2, <1>3, <1>4, <2>1, <2>2, GoesOn
<1>5. CASE record' = "unknown" /\ Send(task[c].finish) /\ Goto(c, "send")
  <2>1. Only(c) /\ task'[c].pc = "send" /\ task'[c].result = task[c].result /\ task'[c].finish = task[c].finish
    BY <1>2, <1>5, GotoFacts DEF IndInv, Places
  <2>2. User(c)'
    BY <2>1 DEF User
  <2>3. sent' = task[c].finish /\ answer' = "none"
    BY <1>5 DEF Send
  <2> QED
    BY <1>1, <1>2, <1>3, <1>5, <2>1, <2>2, <2>3, Sends
<1> QED
  BY <1>4, <1>5 DEF FinishLock

\* The acknowledgement of COMMIT or ROLLBACK is the outcome.
LEMMA FinishResultStep ==
  ASSUME IndInv, NEW c \in Calls, FinishResult(c)
  PROVE  IndInv' /\ Polite
<1> USE TaskNames
<1>1. task[c].pc = "send" /\ UNCHANGED <<begun, entry, stale, cancelled, lock, released, server, reply>>
  BY DEF FinishResult, At, session
<1>2. /\ reply \in [Calls -> {"unknown"} \cup Known] /\ released \in BOOLEAN /\ lock \in Tasks \cup {None}
      /\ record \in {"none", "unknown"} \cup Known
  BY DEF IndInv, TypeOK
<1>3. User(c) /\ sent = task[c].finish /\ sent \in {"commit", "rollback"}
  BY <1>1, CallUses DEF IndInv, Unread
<1>4. CASE Answered /\ Read
           /\ LET outcome == IF answer = "error" THEN "unknown"
                             ELSE IF task[c].finish = "commit" THEN "committed" ELSE "rolledBack" IN
              /\ record' = IF outcome = "unknown" THEN record ELSE outcome
              /\ task' = [task EXCEPT ![c].pc = "settle", ![c].result = outcome]
  <2>1. sent' = "none" /\ answer' = "none"
    BY <1>4 DEF Read
  <2>2. answer = "error" \/ (answer = "ok" /\ server = IF sent = "commit" THEN "committed" ELSE "rolledBack")
    BY <1>3, <1>4 DEF IndInv, Truth, Answered, TypeOK
  <2>3. PICK o \in {"unknown", server} :
          /\ task' = [task EXCEPT ![c].pc = "settle", ![c].result = o] /\ o \in {"unknown"} \cup Known
          /\ record' = IF o = "unknown" THEN record ELSE o
    <3>1. CASE answer = "error"
      BY <1>4, <3>1
    <3>2. CASE answer = "ok" /\ server = IF sent = "commit" THEN "committed" ELSE "rolledBack"
      BY <1>3, <1>4, <3>2 DEF Known
    <3> QED
      BY <2>2, <3>1, <3>2
  <2>4. Only(c) /\ task'[c].pc = "settle" /\ task'[c].result = o
    <3>1. TypeOK /\ "settle" \in Places /\ "settle" \notin {"opening", "run", "rollback", "send", "gone"}
      BY DEF IndInv, Places
    <3>2. Learns(c, "settle", o) /\ o \in {"unknown"} \cup Known
      BY <2>3 DEF Learns
    <3> QED
      BY <3>1, <3>2, ResultFacts
  <2>5. User(c)'
    BY <2>4 DEF User
  <2> QED
    BY <1>1, <1>2, <1>3, <2>1, <2>3, <2>4, <2>5, Reads
<1>5. CASE Goto(c, "settle") /\ UNCHANGED <<record, sent, answer>>
  <2>1. Only(c) /\ task'[c].pc = "settle" /\ task'[c].result = task[c].result
    BY <1>5, GotoFacts DEF IndInv, Places
  <2>2. ~Opener(c)' /\ ~Clean(c)'
    BY <2>1 DEF Opener, Clean
  <2> QED
    BY <1>1, <1>2, <1>3, <1>5, <2>1, <2>2, GoesOn
<1> QED
  BY <1>4, <1>5 DEF FinishResult

-----------------------------------------------------------------------------
(* A dropped request, and its guard.                                       *)

\* A request is dropped: an execute leaves the session to its guard.
LEMMA DropCallStep ==
  ASSUME IndInv, NEW c \in Calls, DropCall(c)
  PROVE  IndInv' /\ Polite
<1> USE TaskNames
<1> DEFINE guarded == task[c].finish = "none" /\ task[c].pc \notin {"opening", "insert"}
<1>1. /\ task[c].pc # "idle"
      /\ UNCHANGED <<begun, entry, stale, cancelled, record, released, server, sent, answer, reply>>
  BY DEF DropCall, At, session, wire
<1>2. task \in [Tasks -> Locals] /\ lock' \in Tasks \cup {None} /\ begun
  BY <1>1, TaskType, Begun DEF IndInv, DropCall, Unlock, TypeOK
<1>3. /\ task'[c] = Idle
      /\ \A u \in Tasks : u # c /\ u # Guard => task'[u] = task[u]
      /\ task' = [u \in Tasks |-> task'[u]]
  BY <1>2 DEF DropCall
<1>4. PICK g \in Locals : g = task[Guard]
  BY <1>2
<1>5. task'[Guard] = [g EXCEPT !.pc = IF guarded THEN "take" ELSE g.pc]
  BY <1>2, <1>4 DEF DropCall
<1> HIDE DEF guarded
<1>6. /\ [g EXCEPT !.pc = IF guarded THEN "take" ELSE g.pc] \in Locals
      /\ ~guarded => [g EXCEPT !.pc = IF guarded THEN "take" ELSE g.pc] = g
      /\ [g EXCEPT !.pc = IF guarded THEN "take" ELSE g.pc].result = g.result
      /\ guarded => [g EXCEPT !.pc = IF guarded THEN "take" ELSE g.pc].pc = "take"
  <2>1. g.pc \in Places
    BY DEF Locals
  <2>2. CASE guarded
    BY <2>1, <2>2 DEF Locals, Places
  <2>3. CASE ~guarded
    BY <2>1, <2>3 DEF Locals
  <2> QED
    BY <2>2, <2>3
<1>7. /\ task'[Guard] \in Locals /\ task'[Guard].result = task[Guard].result
      /\ guarded => task'[Guard].pc = "take"
      /\ ~guarded => task'[Guard] = task[Guard]
  BY <1>4, <1>5, <1>6
<1>8. Idle \in Locals /\ Idle.pc = "idle" /\ Idle.result = "unknown"
  BY DEF Idle, Locals, Places
<1>9. task' \in [Tasks -> Locals]
  BY <1>2, <1>3, <1>7, <1>8
<1>10. guarded => User(c)
  BY <1>1, CallUses DEF guarded, IndInv, Alone
<1>11. /\ ~User(c)' /\ ~Opener(c)' /\ ~Clean(c)'
       /\ \A u \in Tasks : u # c /\ u # Guard =>
            (User(u)' <=> User(u)) /\ (Opener(u)' <=> Opener(u)) /\ (Clean(u)' <=> Clean(u))
       /\ guarded => ~Opener(Guard)' /\ ~Clean(Guard)'
       /\ ~guarded => (User(Guard)' <=> User(Guard)) /\ (Opener(Guard)' <=> Opener(Guard))
                      /\ (Clean(Guard)' <=> Clean(Guard))
  BY <1>3, <1>7, <1>8 DEF User, Opener, Clean
<1>12. TypeOK'
  BY <1>1, <1>2, <1>9 DEF IndInv, TypeOK, Locals, Places
<1>13. Alone'
  <2>1. \A d \in Calls : task'[d].pc # "gone"
    BY <1>3, <1>8 DEF IndInv, Alone
  <2>2. CASE guarded
    <3>1. entry # "idle" /\ \A u \in Tasks : ~Opener(u) /\ (u # c => ~User(u))
      BY <2>2, <1>10 DEF IndInv, Alone
    <3>2. \A u \in Tasks : ~Opener(u)' /\ (u # Guard => ~User(u)')
      BY <2>2, <3>1, <1>11
    <3> QED
      BY <1>1, <1>2, <3>1, <3>2, <2>1 DEF Alone
  <2>3. CASE ~guarded
    <3>1. \A u \in Tasks : (User(u)' => User(u)) /\ (Opener(u)' => Opener(u))
      BY <2>3, <1>11
    <3> QED
      BY <1>1, <1>2, <3>1, <2>1 DEF IndInv, Alone
  <2> QED
    BY <2>2, <2>3
<1>14. Unread'
  <2>1. ASSUME NEW u \in Tasks
        PROVE  /\ Clean(u)' => sent = "none"
               /\ task'[u].pc = "opening" => sent = "begin"
               /\ task'[u].pc = "rollback" => sent = "rollback" /\ ~task'[u].discard
               /\ task'[u].pc = "send" =>
                    u \in Calls /\ sent = task'[u].finish /\ sent \in {"commit", "rollback"}
    <3>1. CASE u = c
      BY <3>1, <1>3, <1>8, <1>11
    <3>2. CASE u # c /\ (u # Guard \/ ~guarded)
      BY <3>2, <1>3, <1>7, <1>11 DEF IndInv, Unread
    <3>3. CASE u = Guard /\ guarded
      BY <3>3, <1>7, <1>11
    <3> QED
      BY <3>1, <3>2, <3>3
  <2> QED
    BY <2>1, <1>1 DEF IndInv, Unread
<1>15. Truth'
  <2>1. \A u \in Tasks : task'[u].result \in {task[u].result, "unknown"}
    BY <1>3, <1>7, <1>8
  <2> QED
    BY <2>1, <1>1 DEF IndInv, Truth, Known
<1>16. Ended'
  BY <1>1, <1>3 DEF IndInv, Ended
<1>17. Polite
  <2>1. ASSUME NEW u \in Tasks, Waits(task'[u])
        PROVE  Waits(task[u])
    BY <2>1, <1>3, <1>7, <1>8 DEF Waits
  <2> QED
    BY <2>1 DEF Polite
<1> QED
  BY <1>12, <1>13, <1>14, <1>15, <1>16, <1>17 DEF IndInv

\* The guard takes the session out of the map, if it is there, and interrupts
\* its connection: nothing more is sent.
LEMMA GuardStepStep ==
  ASSUME IndInv, GuardStep
  PROVE  IndInv' /\ Polite
<1> USE TaskNames
<1>1. /\ task[Guard].pc \in {"take", "interrupt"} /\ entry' \in {entry, "absent"}
      /\ record' \in {record, "unknown"}
      /\ UNCHANGED <<begun, stale, cancelled, lock, released, server, sent, answer, reply>>
  BY DEF GuardStep, GuardTakes, GuardInterrupts, At, session, wire
<1>2. reply \in [Calls -> {"unknown"} \cup Known] /\ released \in BOOLEAN /\ lock \in Tasks \cup {None}
  BY DEF IndInv, TypeOK
<1>3. Only(Guard) /\ task'[Guard].pc \in {"idle", "interrupt"} /\ task'[Guard].result \in {task[Guard].result, "unknown"}
  <2>1. CASE task' = [task EXCEPT ![Guard] = Idle]
    <3>1. task \in [Tasks -> Locals] /\ Idle \in Locals /\ Idle.pc = "idle" /\ Idle.result = "unknown"
      BY TaskType DEF IndInv, Idle, Locals, Places
    <3>2. task' \in [Tasks -> Locals] /\ task'[Guard] = Idle /\ \A u \in Tasks : u # Guard => task'[u] = task[u]
      BY <2>1, <3>1
    <3> QED
      BY <3>1, <3>2 DEF Only, Waits
  <2>2. CASE Goto(Guard, "interrupt")
    BY <2>2, GotoFacts DEF IndInv, Places
  <2> QED
    BY <2>1, <2>2 DEF GuardStep, GuardTakes, GuardInterrupts
<1>4. User(Guard) /\ ~Opener(Guard)' /\ ~Clean(Guard)'
  BY <1>1, <1>3 DEF User, Opener, Clean
<1> QED
  BY <1>1, <1>2, <1>3, <1>4, GoesOn

-----------------------------------------------------------------------------
(* The disconnect and the idle watcher.                                    *)

\* The lifecycle is cancelled.
LEMMA DiscInvalidatesStep ==
  ASSUME IndInv, DiscInvalidates
  PROVE  IndInv' /\ Polite
<1> USE TaskNames
<1>1. /\ begun /\ task[Disc].pc = "idle" /\ cancelled' = TRUE
      /\ UNCHANGED <<begun, entry, stale, record, lock, released, server, sent, answer, reply>>
  BY DEF DiscInvalidates, At, wire
<1>2. Only(Disc) /\ task'[Disc].pc = "take" /\ task'[Disc].result = task[Disc].result
  BY GotoFacts DEF DiscInvalidates, IndInv, Places
<1>3. ~User(Disc)' /\ ~Opener(Disc)' /\ ~Clean(Disc)'
  BY <1>2 DEF User, Opener, Clean
<1>4. TypeOK'
  BY <1>1, <1>2 DEF IndInv, TypeOK, Only, Locals, Places
<1>5. Alone'
  BY <1>1, <1>2, <1>3, AloneKept
<1>6. Unread'
  <2>1. entry = "idle" => sent = "none"
    BY DEF IndInv, Unread
  <2> QED
    BY <1>1, <1>2, <1>3, <2>1, UnreadKept
<1>7. Truth'
  BY <1>1, <1>2, TruthKept
<1>8. Ended'
  BY <1>1, <1>2 DEF Ended
<1> QED
  BY <1>2, <1>4, <1>5, <1>6, <1>7, <1>8, OnlyPolite DEF IndInv

\* The session is taken: one that is not in use is then the disconnect's, of
\* one in use the connection will be discarded.
LEMMA DiscTakesStep ==
  ASSUME IndInv, DiscTakes
  PROVE  IndInv' /\ Polite
<1> USE TaskNames
<1>1. /\ task[Disc].pc = "take" /\ entry' = "absent" /\ record' \in {record, "unknown"}
      /\ UNCHANGED <<begun, stale, cancelled, lock, released, server, sent, answer, reply>>
  BY DEF DiscTakes, At, wire
<1>2. begun /\ begun' /\ cancelled
  BY <1>1, Begun DEF IndInv, Ended
<1>3. /\ Only(Disc) /\ task'[Disc].pc \in {"lock", "gone"} /\ task'[Disc].result = task[Disc].result
      /\ task'[Disc].pc = "lock" => entry = "idle" \/ task'[Disc].discard = TRUE
  <2>1. CASE Goto(Disc, "gone")
    BY <2>1, GotoFacts DEF IndInv, Places
  <2>2. CASE /\ entry # "absent"
             /\ task' = [task EXCEPT ![Disc].pc = "lock", ![Disc].discard = entry = "busy"]
    <3>1. (entry = "busy") \in BOOLEAN
      OBVIOUS
    <3>2. PICK d \in BOOLEAN : d = (entry = "busy")
      BY <3>1
    <3>3. task' = [task EXCEPT ![Disc].pc = "lock", ![Disc].discard = d]
      BY <2>2, <3>2
    <3>4. Only(Disc) /\ task'[Disc].pc = "lock" /\ task'[Disc].discard = d /\ task'[Disc].result = task[Disc].result
      BY <3>3, DiscardFacts DEF IndInv, Places
    <3>5. entry = "idle" \/ d = TRUE
      BY <2>2, <3>2 DEF IndInv, TypeOK
    <3> QED
      BY <3>4, <3>5
  <2> QED
    BY <2>1, <2>2 DEF DiscTakes
<1>4. ~Opener(Disc)' /\ (entry # "idle" => ~User(Disc)' /\ ~Clean(Disc)')
  BY <1>3 DEF Opener, User, Clean
<1>5. TypeOK'
  BY <1>1, <1>3 DEF IndInv, TypeOK, Only, Locals, Places
<1>6. Alone'
  <2>1. CASE entry = "idle"
    BY <1>1, <1>2, <1>3, <1>4, <2>1, AloneTaken
  <2>2. CASE entry # "idle"
    BY <1>1, <1>2, <1>3, <1>4, <2>2, AloneKept
  <2> QED
    BY <2>1, <2>2
<1>7. Unread'
  <2>1. entry = "idle" => sent = "none"
    BY DEF IndInv, Unread
  <2> QED
    BY <1>1, <1>2, <1>3, <1>4, <2>1, UnreadKept
<1>8. Truth'
  BY <1>1, <1>2, <1>3, TruthKept
<1>9. Ended'
  BY <1>1, <1>2 DEF Ended
<1> QED
  BY <1>3, <1>5, <1>6, <1>7, <1>8, <1>9, OnlyPolite DEF IndInv

\* The mutex is taken for the cleanup.
LEMMA LockStep ==
  ASSUME IndInv, DiscLock \/ WatchLock
  PROVE  IndInv' /\ Polite
<1> USE TaskNames
<1>1. reply \in [Calls -> {"unknown"} \cup Known] /\ released \in BOOLEAN
  BY DEF IndInv, TypeOK
<1>2. CASE DiscLock
  <2>1. /\ task[Disc].pc = "lock" /\ lock' = Disc
        /\ UNCHANGED <<begun, entry, stale, cancelled, record, released, server, sent, answer, reply>>
    BY <1>2 DEF DiscLock, At, session, wire
  <2>2. Only(Disc) /\ task'[Disc].pc = "cleanup" /\ task'[Disc].discard = task[Disc].discard
        /\ task'[Disc].result = task[Disc].result
    BY <1>2, GotoFacts DEF DiscLock, IndInv, Places
  <2>3. (User(Disc)' => User(Disc)) /\ ~Opener(Disc)' /\ (Clean(Disc)' => Clean(Disc))
    BY <2>1, <2>2 DEF User, Opener, Clean
  <2> QED
    BY <1>1, <2>1, <2>2, <2>3, GoesOn
<1>3. CASE WatchLock
  <2>1. /\ task[Watch].pc = "lock" /\ lock' = Watch
        /\ UNCHANGED <<begun, entry, stale, cancelled, record, released, server, sent, answer, reply>>
    BY <1>3 DEF WatchLock, At, session, wire
  <2>2. Only(Watch) /\ task'[Watch].pc = "cleanup" /\ task'[Watch].result = task[Watch].result
    BY <1>3, DiscardFacts DEF WatchLock, Cleanup, IndInv, Places
  <2>3. User(Watch) /\ ~Opener(Watch)' /\ Clean(Watch)
    BY <2>1, <2>2 DEF User, Opener, Clean
  <2> QED
    BY <1>1, <2>1, <2>2, <2>3, GoesOn
<1> QED
  BY <1>2, <1>3

-----------------------------------------------------------------------------
(* The server, time, and the record.                                       *)

\* No task moves: who has the session and what is outstanding stay as they are.
LEMMA Standstill ==
  ASSUME IndInv, UNCHANGED <<begun, entry, cancelled, sent, task>>
  PROVE  Alone' /\ Unread' /\ Ended' /\ Polite
<1>1. \A u \in Tasks : (User(u)' <=> User(u)) /\ (Opener(u)' <=> Opener(u)) /\ (Clean(u)' <=> Clean(u))
  BY DEF User, Opener, Clean
<1>2. Alone'
  BY <1>1 DEF IndInv, Alone
<1>3. Unread'
  BY <1>1 DEF IndInv, Unread
<1>4. Ended' /\ Polite
  BY DEF IndInv, Ended, Polite
<1> QED
  BY <1>2, <1>3, <1>4

\* The server runs the outstanding command; a transaction that has ended has
\* ended for good.
LEMMA ServeStep ==
  ASSUME IndInv, Serve
  PROVE  IndInv' /\ Polite
<1> USE DEF session, wire
<1>1. /\ sent # "none" /\ answer = "none"
      /\ UNCHANGED <<begun, entry, stale, cancelled, record, lock, released, sent, task, reply>>
  BY DEF Serve, Answered
<1>2. /\ server' \in {"none", "open"} \cup Known /\ answer' \in {"ok", "error"}
      /\ server \in Known => server' = server
      /\ sent = "commit" /\ answer' = "ok" => server' = "committed"
      /\ sent = "rollback" /\ answer' = "ok" => server' = "rolledBack"
  BY <1>1 DEF Serve, IndInv, TypeOK, Truth, Known
<1>3. begun
  BY <1>1 DEF IndInv, Unread
<1>4. TypeOK'
  BY <1>1, <1>2 DEF IndInv, TypeOK
<1>5. Truth'
  <2>1. /\ \A t \in Tasks : task[t].result \in Known => task[t].result = server'
        /\ record \in Known => record = server'
        /\ \A c \in Calls : reply[c] \in Known => reply[c] = server'
    BY <1>2 DEF IndInv, Truth
  <2> QED
    BY <1>1, <1>2, <1>3, <2>1 DEF Truth
<1> QED
  BY <1>1, <1>4, <1>5, Standstill DEF IndInv

\* The server ends the transaction.
LEMMA ServerEndsStep ==
  ASSUME IndInv, ServerDrops \/ ServerAborts
  PROVE  IndInv' /\ Polite
<1>1. /\ server = "open" /\ server' = "rolledBack"
      /\ UNCHANGED <<begun, entry, stale, cancelled, record, lock, released, sent, answer, task, reply>>
  BY DEF ServerDrops, ServerAborts, session
<1>2. TypeOK'
  BY <1>1 DEF IndInv, TypeOK, Known
<1>3. Truth'
  <2>1. /\ \A t \in Tasks : task[t].result \notin Known
        /\ record \notin Known
        /\ \A c \in Calls : reply[c] \notin Known
    BY <1>1 DEF IndInv, Truth, Known
  <2> QED
    BY <1>1, <2>1 DEF IndInv, Truth
<1> QED
  BY <1>1, <1>2, <1>3, Standstill DEF IndInv

\* Time passes, and the record is pruned.
LEMMA TimeStep ==
  ASSUME IndInv, Ages \/ Prune
  PROVE  IndInv' /\ Polite
<1>1. /\ stale' \in BOOLEAN /\ record' \in {record, "none"}
      /\ UNCHANGED <<begun, entry, cancelled, lock, released, server, sent, answer, task, reply>>
  BY DEF Ages, Prune, session, wire, IndInv, TypeOK
<1>2. TypeOK'
  BY <1>1 DEF IndInv, TypeOK
<1>3. Truth'
  BY <1>1 DEF IndInv, Truth, Known
<1> QED
  BY <1>1, <1>2, <1>3, Standstill DEF IndInv

-----------------------------------------------------------------------------
\* Every step preserves the invariant and is polite.
LEMMA NextIndInv == IndInv /\ [Next]_vars => IndInv' /\ Polite
<1> SUFFICES ASSUME IndInv, [Next]_vars PROVE IndInv' /\ Polite
  OBVIOUS
<1> USE TaskNames
<1>1. CASE UNCHANGED vars
  <2>1. UNCHANGED <<begun, entry, stale, cancelled, record, lock, released, server, sent, answer, task, reply>>
    BY <1>1 DEF vars, session, wire
  <2>2. TypeOK' /\ Truth'
    BY <2>1 DEF IndInv, TypeOK, Truth
  <2> QED
    BY <2>1, <2>2, Standstill DEF IndInv
<1>2. ASSUME NEW c \in Calls, Call(c) PROVE IndInv' /\ Polite
  BY <1>2, BeginCallStep, ExecuteCallStep, FinishCallStep DEF Call
<1>3. ASSUME NEW t \in Tasks, CleanupStep(t) PROVE IndInv' /\ Polite
  BY <1>3, CleanupStartStep, CleanupResultStep, CleanupRecordStep DEF CleanupStep
<1>4. ASSUME NEW c \in Calls, CallStep(c) PROVE IndInv' /\ Polite
  BY <1>3, <1>4, BeginResultStep, BeginInsertStep, ExecuteLockStep, ExecuteResultStep,
     ExecuteGivenUpStep, ExecuteOkStep, ExecuteFailedStep, FinishLockStep, FinishResultStep DEF CallStep
<1>5. ASSUME NEW c \in Calls, ExecuteInterrupted(c) \/ DropCall(c) PROVE IndInv' /\ Polite
  BY <1>5, ExecuteGivenUpStep, DropCallStep
<1>6. CASE DiscInvalidates \/ DiscStep \/ WatchStep
  BY <1>3, <1>6, DiscInvalidatesStep, DiscTakesStep, LockStep, WatchTakesStep DEF DiscStep, WatchStep
<1>7. CASE GuardStep \/ Serve \/ ServerDrops \/ ServerAborts \/ Ages \/ Prune
  BY <1>7, GuardStepStep, ServeStep, ServerEndsStep, TimeStep
<1> QED
  BY <1>1, <1>2, <1>4, <1>5, <1>6, <1>7 DEF Next

\* The session has at most one user at a time, whatever is dropped, times out
\* or is taken away; the rest of the invariant hangs on it.
THEOREM Invariance == Spec => []IndInv
<1> QED
  BY InitIndInv, NextIndInv, PTL DEF Spec

\* "Only acknowledged COMMIT/ROLLBACK responses establish a known database
\* outcome": a known outcome in EndedSessions or in a reply is that of the
\* server.
THEOREM OutcomesAreTrue == Spec => []KnownIsTrue
<1>1. IndInv => KnownIsTrue
  BY DEF IndInv, Truth, KnownIsTrue
<1> QED
  BY <1>1, Invariance, PTL

\* After rollback_manual_transaction_sessions has gone through the map, the
\* session is not in it and is not inserted again.
THEOREM DisconnectIsFinal == Spec => []GoneAfterDisconnect
<1>1. IndInv => GoneAfterDisconnect
  BY DEF IndInv, Ended, GoneAfterDisconnect
<1> QED
  BY <1>1, Invariance, PTL

\* "never issue another command on an interrupted response stream": no task
\* sends on a connection whose last answer was not read.
THEOREM StreamIsNeverReused == Spec => NeverOnPoisoned
<1>1. IndInv /\ [Next]_vars => [\A t \in Tasks : ~Waits(task[t]) /\ Waits(task'[t]) => sent = "none"]_vars
  BY NextIndInv DEF Polite
<1> QED
  BY <1>1, Invariance, PTL DEF Spec, NeverOnPoisoned
=============================================================================
