----------------------------- MODULE ExecuteOnce -----------------------------
(***************************************************************************)
(* What the execution ids of TYPE statements promise their callers,        *)
(* whatever crashes or is lost: an id is run by at most one request, it is *)
(* attested at most once and for ever, nothing of an attested id runs or   *)
(* starts, and a caller is told only what is attested.  The abstract       *)
(* specification that TypeExecution implements.                            *)
(***************************************************************************)
CONSTANTS Ids, Requests

VARIABLES
  started,   \* [Ids -> SUBSET Requests]: whose statement reached the database
  running,   \* the ids whose statement the database is executing
  attested,  \* the ids that are known to be over
  told       \* the ids somebody holds a positive answer about

vars == <<started, running, attested, told>>

Init ==
  /\ started = [e \in Ids |-> {}]
  /\ running = {}
  /\ attested = {}
  /\ told = {}

\* Request q runs the statement of id e, which nobody ran before.
Start(q, e) ==
  /\ started[e] = {} /\ e \notin attested
  /\ started' = [started EXCEPT ![e] = {q}]
  /\ running' = running \cup {e}
  /\ UNCHANGED <<attested, told>>

\* The database ends the statement.
End(e) ==
  /\ e \in running
  /\ running' = running \ {e}
  /\ UNCHANGED <<started, attested, told>>

\* The id is recorded as over.
Attest(e) ==
  /\ e \notin running
  /\ attested' = attested \cup {e}
  /\ UNCHANGED <<started, running, told>>

\* Somebody asks and is told.
Tell(e) ==
  /\ e \in attested
  /\ told' = told \cup {e}
  /\ UNCHANGED <<started, running, attested>>

\* Answers are forgotten; what is attested is not.
Forget ==
  /\ told' \in SUBSET told
  /\ UNCHANGED <<started, running, attested>>

Next ==
  \/ \E q \in Requests, e \in Ids : Start(q, e)
  \/ \E e \in Ids : End(e) \/ Attest(e) \/ Tell(e)
  \/ Forget

Spec == Init /\ [][Next]_vars
=============================================================================
