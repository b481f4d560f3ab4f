------------------------------ MODULE TaskLease ------------------------------
(***************************************************************************)
(* What leasing promises, with no database, counters or cancellation: a    *)
(* task waits, one worker holds it, the worker puts it back, settles it or *)
(* walks away from it.  A worker holds one task at a time, a settled task  *)
(* is settled for good, and a task its holder walked away from is never    *)
(* handed to anybody else: that is all workers may rely on, and it is why  *)
(* their updates need no condition.  RunExecution implements it.           *)
(***************************************************************************)
CONSTANTS Tasks, Workers, NoOne

VARIABLES status,  \* what each task is doing
          holds    \* the task each worker holds, or NoOne

leaseVars == <<status, holds>>

Status == {"absent", "waiting", "held", "settled", "abandoned"}

LeaseInit == /\ status = [t \in Tasks |-> "absent"]
             /\ holds = [w \in Workers |-> NoOne]

Become(t, s) == status' = [status EXCEPT ![t] = s]

Add(t) == status[t] = "absent" /\ Become(t, "waiting") /\ UNCHANGED holds

Take(w, t) ==
    /\ status[t] = "waiting" /\ holds[w] = NoOne
    /\ Become(t, "held")
    /\ holds' = [holds EXCEPT ![w] = t]

\* Put back for a retry, settled, or left behind by a crash or an error.
LetGo(w, t) ==
    /\ holds[w] = t
    /\ \E s \in {"waiting", "settled", "abandoned"} : Become(t, s)
    /\ holds' = [holds EXCEPT ![w] = NoOne]

LeaseNext ==
    \E t \in Tasks : Add(t) \/ \E w \in Workers : Take(w, t) \/ LetGo(w, t)

LeaseSpec == LeaseInit /\ [][LeaseNext]_leaseVars

\* At most one worker holds a task, and only a held task has a holder.
OneHolder ==
    /\ \A w \in Workers : holds[w] \in Tasks => status[holds[w]] = "held"
    /\ \A v, w \in Workers : holds[v] \in Tasks /\ holds[v] = holds[w] => v = w
=============================================================================
