------------------------- MODULE JobSubmissionProofs -------------------------
(***************************************************************************)
(* Theorems about JobSubmission, for every number of workspaces, keys,     *)
(* requests, failures and crashes and every limit: its types, the bound on *)
(* how far concurrent submissions exceed the limit, and that outbox,       *)
(* dispatcher, topic and consumer implement Delivery.                      *)
(***************************************************************************)
EXTENDS JobSubmission, FiniteSetTheorems, TLAPS

(***************************************************************************)
(* Types.                                                                  *)
(***************************************************************************)
LEMMA TypeInit == Init => TypeOK
  BY SubmissionAssumption, RequestsAssumption
  DEF Init, TypeOK, Idle, Waiting, Submissions, Kinds, InFlight, NoOne

\* What goes wrong is counted.
LEMMA ErrorType ==
  ASSUME TypeOK, NEW k \in Kinds, Error(k)
  PROVE  errors' \in [Kinds -> Nat]
  BY DEF TypeOK, Error

\* A request of the API keeps the types.
LEMMA TypeRequests ==
  ASSUME TypeOK, NEW s \in Submissions,
         AllowJobSubmission(s) \/ CreateJob(s) \/ RequestError(s) \/ CancelJob(s)
  PROVE  TypeOK'
<1>w. WorkspaceOf(s) \in Workspaces
  BY DEF TypeOK, WorkspaceOf
<1>1. CASE AllowJobSubmission(s)
  BY <1>1 DEF AllowJobSubmission, Answer, Put, TypeOK, InFlight,
              dispatchVars, schedVars, closeVars
<1>2. CASE CommitJob(s)
  BY <1>2 DEF CommitJob, InsertJobAndEvent, Answer, Put, TypeOK, InFlight,
              schedVars, closeVars
<1>3. CASE IncrementRunningJobs(s)
  BY <1>3, <1>w DEF IncrementRunningJobs, Answer, Put, Add, TypeOK, InFlight,
                    dispatchVars, schedVars, closeVars
<1>4. CASE RequestError(s)
  <2>1. errors' \in [Kinds -> Nat]
    BY <1>4, ErrorType DEF RequestError, Kinds
  <2>2. counter' \in [Workspaces -> Int]
    BY <1>4, <1>w DEF RequestError, Add, TypeOK
  <2>3. pc' \in [Submissions -> {"new", "created", "refused", "error", "gone"} \cup InFlight]
    BY <1>4 DEF RequestError, Answer, Put, TypeOK
  <2>4. /\ jobs' \in [Submissions -> {"none", "SUBMITTED", "QUEUED", "FINISHED", "CANCELLED"}]
        /\ outbox' \in [Submissions -> {"none", "PENDING", "DELIVERED", "FAILED"}]
    <3>1. UNCHANGED <<jobs, outbox>> \/ InsertJobAndEvent(s)
      BY <1>4 DEF RequestError
    <3>2. CASE UNCHANGED <<jobs, outbox>>
      BY <3>2 DEF TypeOK
    <3>3. CASE InsertJobAndEvent(s)
      BY <3>3 DEF InsertJobAndEvent, Put, TypeOK
    <3> QED
      BY <3>1, <3>2, <3>3
  <2>5. UNCHANGED <<request, disp, schedVars, closeVars>>
    BY <1>4 DEF RequestError
  <2> QED
    BY <2>1, <2>2, <2>3, <2>4, <2>5 DEF TypeOK, schedVars, closeVars
<1>5. CASE CancelJob(s)
  BY <1>5 DEF CancelJob, Put, TypeOK, dispatchVars, schedVars, closeVars
<1> QED
  BY <1>1, <1>2, <1>3, <1>4, <1>5 DEF CreateJob

\* The dispatcher and the cleanup of the outbox keep the types.
LEMMA TypeDispatch ==
  ASSUME TypeOK,
         \/ Dispatch \/ MarkError \/ CleanupDeliveredOutboxEvents
         \/ \E s \in Submissions : PublishError(s)
  PROVE  TypeOK'
<1>1. CASE GetPendingOutboxEvents
  BY <1>1 DEF GetPendingOutboxEvents, Pending, Idle, TypeOK,
              requestVars, schedVars, closeVars
<1>2. ASSUME NEW s \in Submissions, Publish(s) PROVE TypeOK'
  <2>1. topic' \in [Submissions -> Nat]
    BY <1>2 DEF Publish, Add, TypeOK
  <2> QED
    BY <1>2, <2>1 DEF Publish, TypeOK, requestVars, closeVars
<1>3. ASSUME NEW s \in Submissions, PublishError(s) PROVE TypeOK'
  <2>1. errors' \in [Kinds -> Nat]
    BY <1>3, ErrorType DEF PublishError, Kinds
  <2>2. topic' \in [Submissions -> Nat]
    <3>1. \E n \in {0, 1, 2} : topic' = [topic EXCEPT ![s] = @ + n]
      BY <1>3 DEF PublishError, Add
    <3> QED
      BY <3>1 DEF TypeOK
  <2> QED
    BY <1>3, <2>1, <2>2 DEF PublishError, TypeOK, requestVars, closeVars
<1>4. ASSUME disp.pc \in {"markDelivered", "markFailed"}, NextRow
      PROVE  /\ disp' \in [pc : {"idle", "publish", "markDelivered", "markFailed"},
                            batch : SUBSET Submissions, event : Submissions \cup {NoOne}]
             /\ disp'.pc \notin {"markDelivered", "markFailed"}
  BY <1>4 DEF NextRow, Idle, TypeOK
<1>5. CASE MarkOutboxDelivered
  <2>1. outbox' \in [Submissions -> {"none", "PENDING", "DELIVERED", "FAILED"}]
    BY <1>5 DEF MarkOutboxDelivered, Put, TypeOK
  <2> QED
    BY <1>4, <1>5, <2>1 DEF MarkOutboxDelivered, TypeOK, requestVars, schedVars, closeVars
<1>6. CASE MarkOutboxFailed
  <2>1. outbox' \in [Submissions -> {"none", "PENDING", "DELIVERED", "FAILED"}]
    BY <1>6 DEF MarkOutboxFailed, Put, TypeOK
  <2> QED
    BY <1>4, <1>6, <2>1 DEF MarkOutboxFailed, TypeOK, requestVars, schedVars, closeVars
<1>7. CASE MarkError
  <2>1. errors' \in [Kinds -> Nat]
    BY <1>7, ErrorType DEF MarkError, Kinds
  <2> QED
    BY <1>4, <1>7, <2>1 DEF MarkError, TypeOK, requestVars, schedVars, closeVars
<1>8. CASE CleanupDeliveredOutboxEvents
  BY <1>8 DEF CleanupDeliveredOutboxEvents, TypeOK, requestVars, schedVars, closeVars
<1> QED
  BY <1>1, <1>2, <1>3, <1>5, <1>6, <1>7, <1>8 DEF Dispatch

\* The scheduler's consumer keeps the types.
LEMMA TypeSchedule ==
  ASSUME TypeOK,
         \/ Schedule \/ HandlerError \/ SchedulerCrash
         \/ \E s \in Submissions : ReadError(s)
  PROVE  TypeOK'
<1>1. ASSUME NEW s \in Submissions, ReadSubmitted(s) PROVE TypeOK'
  BY <1>1, SubmissionAssumption
  DEF ReadSubmitted, Read, Add, TypeOK, requestVars, dispatchVars, closeVars
<1>2. CASE HandleJobSubmitted
  BY <1>2, SubmissionAssumption
  DEF HandleJobSubmitted, Waiting, Put, Add, TypeOK, dispatchVars, closeVars
<1>3. CASE HandlerError
  <2>1. errors' \in [Kinds -> Nat]
    BY <1>3, ErrorType DEF HandlerError, Kinds
  <2>2. sched' \in [job : Submissions \cup {NoOne}, attempt : 0..MaxAttempts]
    BY <1>3, SubmissionAssumption DEF HandlerError, Retry, Waiting, TypeOK
  <2>3. /\ jobs' \in [Submissions -> {"none", "SUBMITTED", "QUEUED", "FINISHED", "CANCELLED"}]
        /\ spawned' \subseteq Submissions
    BY <1>3 DEF HandlerError, HandledInPart, Put, TypeOK
  <2> QED
    BY <1>3, <2>1, <2>2, <2>3 DEF HandlerError, TypeOK, dispatchVars, closeVars
<1>4. CASE SchedulerCrash
  <2>1. errors' \in [Kinds -> Nat]
    BY <1>4, ErrorType DEF SchedulerCrash, Kinds
  <2>2. sched.job \in Submissions
    BY <1>4 DEF SchedulerCrash, TypeOK
  <2>3. /\ jobs' \in [Submissions -> {"none", "SUBMITTED", "QUEUED", "FINISHED", "CANCELLED"}]
        /\ spawned' \subseteq Submissions
    BY <1>4, <2>2 DEF SchedulerCrash, HandledInPart, Put, TypeOK
  <2> QED
    BY <1>4, <2>1, <2>3, SubmissionAssumption
    DEF SchedulerCrash, Waiting, TypeOK, dispatchVars, closeVars
<1>5. ASSUME NEW s \in Submissions, ReadError(s) PROVE TypeOK'
  <2>1. errors' \in [Kinds -> Nat]
    BY <1>5, ErrorType DEF ReadError, Kinds
  <2>2. topic' \in [Submissions -> Nat] /\ done' \in [Submissions -> Nat]
    <3>1. \/ topic[s] > 0 /\ topic' = [topic EXCEPT ![s] = @ + -1] /\ UNCHANGED done
          \/ done[s] > 0 /\ done' = [done EXCEPT ![s] = @ + -1] /\ UNCHANGED topic
          \/ UNCHANGED <<topic, done>>
      BY <1>5 DEF ReadError, Read, Add
    <3> QED
      BY <3>1 DEF TypeOK
  <2> QED
    BY <1>5, <2>1, <2>2 DEF ReadError, TypeOK, requestVars, dispatchVars
<1> QED
  BY <1>1, <1>2, <1>3, <1>4, <1>5 DEF Schedule

\* Closing a job and giving its slot back keep the types, and so does a crash
\* of the API.
LEMMA TypeRelease ==
  ASSUME TypeOK,
         \/ Release \/ DecrementError \/ ApiCrash
         \/ \E s \in Submissions : CloseJob(s) \/ CloseJobAgain(s) \/ AnnounceError(s)
  PROVE  TypeOK'
<1>1. ASSUME NEW s \in Submissions, Announce(s), errors' \in [Kinds -> Nat] PROVE TypeOK'
  BY <1>1 DEF Announce, Put, Add, TypeOK, dispatchVars, schedVars
<1>2. ASSUME NEW s \in Submissions, CloseJob(s) PROVE TypeOK'
  BY <1>1, <1>2 DEF CloseJob, TypeOK
<1>3. ASSUME NEW s \in Submissions, CloseJobAgain(s) PROVE TypeOK'
  BY <1>1, <1>3, ErrorType DEF CloseJobAgain, Kinds
<1>4. ASSUME NEW s \in Submissions, AnnounceError(s) PROVE TypeOK'
  <2>1. errors' \in [Kinds -> Nat]
    BY <1>4, ErrorType DEF AnnounceError, Kinds
  <2> QED
    BY <1>4, <2>1 DEF AnnounceError, Put, TypeOK, dispatchVars, schedVars, closeVars
<1>5. ASSUME NEW s \in Submissions, ReadCompleted(s) PROVE TypeOK'
  BY <1>5, SubmissionAssumption
  DEF ReadCompleted, Read, Add, TypeOK, requestVars, dispatchVars, schedVars
<1>6. ASSUME comp.job # NoOne PROVE WorkspaceOf(comp.job) \in Workspaces
  BY <1>6 DEF TypeOK, WorkspaceOf
<1>7. CASE DecrementRunningJobs
  BY <1>6, <1>7, SubmissionAssumption
  DEF DecrementRunningJobs, Waiting, Add, TypeOK, requestVars, dispatchVars, schedVars
<1>8. CASE DecrementError
  <2>1. errors' \in [Kinds -> Nat]
    BY <1>8, ErrorType DEF DecrementError, Kinds
  <2>2. comp' \in [job : Submissions \cup {NoOne}, attempt : 0..MaxAttempts]
    BY <1>8, SubmissionAssumption DEF DecrementError, Retry, Waiting, TypeOK
  <2>3. counter' \in [Workspaces -> Int]
    BY <1>6, <1>8 DEF DecrementError, Add, TypeOK
  <2> QED
    BY <1>8, <2>1, <2>2, <2>3
    DEF DecrementError, TypeOK, requestVars, dispatchVars, schedVars
<1>9. CASE ApiCrash
  <2>1. errors' \in [Kinds -> Nat]
    BY <1>9, ErrorType DEF ApiCrash, Kinds
  <2> QED
    BY <1>9, <2>1, SubmissionAssumption
    DEF ApiCrash, Idle, Waiting, TypeOK, InFlight, schedVars
<1> QED
  BY <1>2, <1>3, <1>4, <1>5, <1>7, <1>8, <1>9 DEF Release

\* Every action belongs to one of the four groups.
LEMMA StepGroups ==
  ASSUME Next
  PROVE  \/ \E s \in Submissions : \/ AllowJobSubmission(s) \/ CreateJob(s)
                                    \/ RequestError(s) \/ CancelJob(s)
         \/ Dispatch \/ MarkError \/ CleanupDeliveredOutboxEvents
         \/ \E s \in Submissions : PublishError(s)
         \/ Schedule \/ HandlerError \/ SchedulerCrash
         \/ \E s \in Submissions : ReadError(s)
         \/ Release \/ DecrementError \/ ApiCrash
         \/ \E s \in Submissions : CloseJob(s) \/ CloseJobAgain(s) \/ AnnounceError(s)
  BY DEF Next, Failure

LEMMA TypeStep == TypeOK /\ [Next]_vars => TypeOK'
<1> SUFFICES ASSUME TypeOK, [Next]_vars PROVE TypeOK'
  OBVIOUS
<1>1. CASE Next
  BY <1>1, StepGroups, TypeRequests, TypeDispatch, TypeSchedule, TypeRelease
<1>2. CASE UNCHANGED vars
  BY <1>2 DEF vars, requestVars, dispatchVars, schedVars, closeVars, TypeOK
<1> QED
  BY <1>1, <1>2

\* Every call of the API, the dispatcher, the consumers and the scheduler keeps
\* every column, counter and local variable in its type; a mark always has a
\* row of the batch in hand, and no message is handled more than MaxAttempts
\* times.
THEOREM SubmissionTypes == Spec => []TypeOK
<1>1. Init => TypeOK
  BY TypeInit
<1>2. TypeOK /\ [Next]_vars => TypeOK'
  BY TypeStep
<1> QED
  BY <1>1, <1>2, PTL DEF Spec

(***************************************************************************)
(* How far the limit is exceeded.  A request that was let in takes its     *)
(* place in Between before it takes one in the counter, so their sum only  *)
(* grows at the check, when the counter is below the limit and at most     *)
(* MaxConcurrent requests, this one included, are in flight.               *)
(***************************************************************************)
LEMMA BetweenFinite ==
  \A w : /\ IsFiniteSet(Between(w)) /\ Cardinality(Between(w)) \in Nat
         /\ IsFiniteSet(Between(w)') /\ Cardinality(Between(w)') \in Nat
<1>1. IsFiniteSet(Submissions)
  BY FS_Interval, SubmissionAssumption DEF Submissions
<1>2. \A w : Between(w) \subseteq Submissions /\ Between(w)' \subseteq Submissions
  BY DEF Between, In
<1> QED
  BY <1>1, <1>2, FS_Subset, FS_CardinalityType

\* Where no counter grows and no request enters, the bound stays.
LEMMA NoneEnters ==
  ASSUME TypeOK, TypeOK', OvershootBounded,
         \A w \in Workspaces : counter'[w] <= counter[w] /\ Between(w)' \subseteq Between(w)
  PROVE  OvershootBounded'
<1> SUFFICES ASSUME NEW w \in Workspaces
             PROVE  counter'[w] + Cardinality(Between(w)') <= MaxRunning + MaxConcurrent - 1
  BY DEF OvershootBounded
<1>1. counter[w] + Cardinality(Between(w)) <= MaxRunning + MaxConcurrent - 1
  BY DEF OvershootBounded
<1>2. Cardinality(Between(w)') <= Cardinality(Between(w))
  BY BetweenFinite, FS_Subset
<1>3. counter[w] \in Int /\ counter'[w] \in Int /\ counter'[w] <= counter[w]
  BY DEF TypeOK
<1> QED
  BY <1>1, <1>2, <1>3, BetweenFinite, SubmissionAssumption

\* A request that leaves Between may take its place in the counter.
LEMMA OneCounted ==
  ASSUME TypeOK, TypeOK', OvershootBounded, UNCHANGED request,
         NEW s \in Submissions, pc[s] \in InFlight,
         NEW to \in {"created", "error"}, pc' = [pc EXCEPT ![s] = to],
         NEW n \in {0, 1}, counter' = [counter EXCEPT ![WorkspaceOf(s)] = @ + n]
  PROVE  OvershootBounded'
<1> SUFFICES ASSUME NEW w \in Workspaces
             PROVE  counter'[w] + Cardinality(Between(w)') <= MaxRunning + MaxConcurrent - 1
  BY DEF OvershootBounded
<1>1. counter[w] + Cardinality(Between(w)) <= MaxRunning + MaxConcurrent - 1
  BY DEF OvershootBounded
<1>2. counter[w] \in Int /\ WorkspaceOf(s) \in Workspaces
  BY DEF TypeOK, WorkspaceOf
<1>3. CASE w # WorkspaceOf(s)
  <2>1. Between(w)' = Between(w)
    BY <1>3 DEF Between, In, WorkspaceOf, TypeOK, InFlight
  <2>2. counter'[w] = counter[w]
    BY <1>3 DEF TypeOK
  <2> QED
    BY <1>1, <2>1, <2>2
<1>4. CASE w = WorkspaceOf(s)
  <2>1. Between(w)' = Between(w) \ {s}
    BY DEF Between, In, WorkspaceOf, TypeOK, InFlight
  <2>2. s \in Between(w)
    BY <1>4 DEF Between, In, InFlight
  <2>3. Cardinality(Between(w)') = Cardinality(Between(w)) - 1
    BY <2>1, <2>2, BetweenFinite, FS_RemoveElement
  <2>4. counter'[w] = counter[w] + n
    BY <1>4 DEF TypeOK
  <2> QED
    BY <1>1, <1>2, <2>3, <2>4, BetweenFinite, SubmissionAssumption
<1> QED
  BY <1>3, <1>4

\* The check lets a request in below the limit only.
LEMMA OneEnters ==
  ASSUME TypeOK, TypeOK', OvershootBounded, NEW s \in Submissions, AllowJobSubmission(s)
  PROVE  OvershootBounded'
<1> DEFINE all == {r \in Submissions : pc[r] \in InFlight}
<1>1. UNCHANGED <<request, counter>> /\ Cardinality(all) < MaxConcurrent
  BY DEF AllowJobSubmission
<1>2. CASE counter[WorkspaceOf(s)] >= MaxRunning
  <2>1. pc' = [pc EXCEPT ![s] = "refused"]
    BY <1>2 DEF AllowJobSubmission, Answer, Put
  <2>2. \A w \in Workspaces : Between(w)' \subseteq Between(w)
    BY <1>1, <2>1 DEF Between, In, WorkspaceOf, TypeOK, InFlight
  <2>3. \A w \in Workspaces : counter'[w] <= counter[w]
    BY <1>1 DEF TypeOK
  <2> QED
    BY <2>2, <2>3, NoneEnters
<1>3. CASE ~(counter[WorkspaceOf(s)] >= MaxRunning)
  <2>1. pc' = [pc EXCEPT ![s] = "allowed"] /\ pc[s] = "new"
    BY <1>3 DEF AllowJobSubmission, Answer, Put
  <2> SUFFICES ASSUME NEW w \in Workspaces
               PROVE  counter'[w] + Cardinality(Between(w)') <= MaxRunning + MaxConcurrent - 1
    BY DEF OvershootBounded
  <2>2. CASE w # WorkspaceOf(s)
    <3>1. Between(w)' = Between(w)
      BY <1>1, <2>1, <2>2 DEF Between, In, WorkspaceOf, TypeOK, InFlight
    <3> QED
      BY <1>1, <3>1 DEF OvershootBounded
  <2>3. CASE w = WorkspaceOf(s)
    <3>1. Between(w)' \subseteq all \cup {s} /\ s \notin all
      BY <1>1, <2>1 DEF Between, In, WorkspaceOf, TypeOK, InFlight
    <3>2. IsFiniteSet(all) /\ Cardinality(all) \in Nat
      <4>1. IsFiniteSet(Submissions)
        BY FS_Interval, SubmissionAssumption DEF Submissions
      <4>2. all \subseteq Submissions
        OBVIOUS
      <4> QED
        BY <4>1, <4>2, FS_Subset, FS_CardinalityType
    <3>3. Cardinality(all \cup {s}) = Cardinality(all) + 1 /\ IsFiniteSet(all \cup {s})
      BY <3>1, <3>2, FS_AddElement
    <3>4. Cardinality(Between(w)') <= Cardinality(all) + 1
      BY <3>1, <3>3, FS_Subset
    <3>5. counter'[w] = counter[w] /\ counter[w] \in Int /\ counter[w] < MaxRunning
      BY <1>1, <1>3, <2>3, SubmissionAssumption DEF TypeOK
    <3> QED
      BY <1>1, <3>2, <3>4, <3>5, BetweenFinite, SubmissionAssumption
  <2> QED
    BY <2>2, <2>3
<1> QED
  BY <1>2, <1>3

LEMMA OvershootInit == Init => OvershootBounded
<1> SUFFICES ASSUME Init, NEW w \in Workspaces
             PROVE  counter[w] + Cardinality(Between(w)) <= MaxRunning + MaxConcurrent - 1
  BY DEF OvershootBounded
<1>1. Between(w) = {} /\ counter[w] = 0
  BY DEF Init, Between, In
<1> QED
  BY <1>1, FS_EmptySet, SubmissionAssumption

LEMMA OvershootStep ==
  ASSUME TypeOK, TypeOK', OvershootBounded, [Next]_vars
  PROVE  OvershootBounded'
<1>1. ASSUME UNCHANGED <<request, pc>>, \A w \in Workspaces : counter'[w] <= counter[w]
      PROVE  OvershootBounded'
  <2>1. \A w \in Workspaces : Between(w)' \subseteq Between(w)
    BY <1>1 DEF Between, In, WorkspaceOf
  <2> QED
    BY <1>1, <2>1, NoneEnters
<1>2. ASSUME UNCHANGED <<request, pc, counter>> PROVE OvershootBounded'
  BY <1>1, <1>2 DEF TypeOK
<1>3. ASSUME NEW s \in Submissions,
             AllowJobSubmission(s) \/ CreateJob(s) \/ RequestError(s) \/ CancelJob(s)
      PROVE  OvershootBounded'
  <2>1. CASE AllowJobSubmission(s)
    BY <2>1, OneEnters
  <2>2. ASSUME pc[s] = "allowed", UNCHANGED <<request, counter>>,
               NEW to \in {"committed", "error"}, pc' = [pc EXCEPT ![s] = to]
        PROVE  OvershootBounded'
    <3>1. \A w \in Workspaces : Between(w)' \subseteq Between(w)
      BY <2>2 DEF Between, In, WorkspaceOf, TypeOK, InFlight
    <3>2. \A w \in Workspaces : counter'[w] <= counter[w]
      BY <2>2 DEF TypeOK
    <3> QED
      BY <3>1, <3>2, NoneEnters
  <2>3. CASE CommitJob(s)
    <3>1. \E to \in {"committed", "error"} :
             /\ pc[s] = "allowed" /\ UNCHANGED <<request, counter>>
             /\ pc' = [pc EXCEPT ![s] = to]
      BY <2>3 DEF CommitJob, Answer, Put, InsertJobAndEvent
    <3> QED
      BY <2>2, <3>1
  <2>4. CASE IncrementRunningJobs(s)
    <3>1. /\ pc[s] \in InFlight /\ pc' = [pc EXCEPT ![s] = "created"] /\ UNCHANGED request
          /\ counter' = [counter EXCEPT ![WorkspaceOf(s)] = @ + 1]
      BY <2>4 DEF IncrementRunningJobs, Answer, Put, Add, InFlight
    <3> QED
      BY <3>1, OneCounted
  <2>5. CASE RequestError(s)
    <3>1. CASE pc[s] = "allowed"
      <4>1. UNCHANGED <<request, counter>> /\ pc' = [pc EXCEPT ![s] = "error"]
        BY <2>5, <3>1 DEF RequestError, Answer, Put
      <4> QED
        BY <2>2, <3>1, <4>1
    <3>2. CASE pc[s] # "allowed"
      <4>1. /\ pc[s] \in InFlight /\ pc' = [pc EXCEPT ![s] = "error"] /\ UNCHANGED request
            /\ \E n \in {0, 1} : counter' = [counter EXCEPT ![WorkspaceOf(s)] = @ + n]
        BY <2>5, <3>2 DEF RequestError, Answer, Put, Add, InFlight
      <4> QED
        BY <4>1, OneCounted
    <3> QED
      BY <3>1, <3>2
  <2>6. CASE CancelJob(s)
    BY <1>2, <2>6 DEF CancelJob
  <2> QED
    BY <1>3, <2>1, <2>3, <2>4, <2>5, <2>6 DEF CreateJob
<1>4. ASSUME \/ Dispatch \/ MarkError \/ CleanupDeliveredOutboxEvents
             \/ \E s \in Submissions : PublishError(s)
             \/ Schedule \/ HandlerError \/ SchedulerCrash
             \/ \E s \in Submissions : ReadError(s)
      PROVE  UNCHANGED <<request, pc, counter>>
  BY <1>4 DEF Dispatch, GetPendingOutboxEvents, MarkOutboxDelivered, MarkOutboxFailed, Publish,
              MarkError, CleanupDeliveredOutboxEvents, PublishError, Schedule,
              HandleJobSubmitted, ReadSubmitted, HandlerError, SchedulerCrash, ReadError,
              requestVars
<1>5. ASSUME \/ \E s \in Submissions : ReadCompleted(s)
             \/ \E s \in Submissions : CloseJob(s) \/ CloseJobAgain(s) \/ AnnounceError(s)
      PROVE  UNCHANGED <<request, pc, counter>>
  BY <1>5 DEF ReadCompleted, CloseJob, CloseJobAgain, Announce, AnnounceError, requestVars
<1>6. CASE DecrementRunningJobs \/ DecrementError
  <2>1. /\ UNCHANGED <<request, pc>>
        /\ \E n \in {0, -1} : counter' = [counter EXCEPT ![WorkspaceOf(comp.job)] = @ + n]
    BY <1>6 DEF DecrementRunningJobs, DecrementError, Add, requestVars
  <2>2. \A w \in Workspaces : counter'[w] <= counter[w]
    BY <2>1 DEF TypeOK
  <2> QED
    BY <1>1, <2>1, <2>2
<1>7. CASE ApiCrash
  <2>1. \A w \in Workspaces : Between(w)' \subseteq Between(w)
    BY <1>7 DEF ApiCrash, Between, In, WorkspaceOf, TypeOK, InFlight
  <2>2. \A w \in Workspaces : counter'[w] <= counter[w]
    BY <1>7 DEF ApiCrash, TypeOK
  <2> QED
    BY <2>1, <2>2, NoneEnters
<1>8. CASE UNCHANGED vars
  BY <1>2, <1>8 DEF vars, requestVars
<1> QED
  BY <1>2, <1>3, <1>4, <1>5, <1>6, <1>7, <1>8, StepGroups DEF Release

\* AllowJobSubmission and IncrementRunningJobs are two calls, so the limit is
\* not kept; but for every limit, number of requests and mix of failures and
\* crashes, a workspace's counter and its requests in between exceed it by at
\* most the requests in flight but one.
THEOREM OvershootIsBounded == Spec => []OvershootBounded
<1>1. Init => OvershootBounded
  BY OvershootInit
<1>2. TypeOK /\ TypeOK' /\ OvershootBounded /\ [Next]_vars => OvershootBounded'
  BY OvershootStep
<1> QED
  BY <1>1, <1>2, SubmissionTypes, PTL DEF Spec

(***************************************************************************)
(* Outbox, dispatcher, topic and consumer implement Delivery.  Fates says  *)
(* nothing of the rows the dispatcher has in hand: ChainInv adds that they *)
(* are still PENDING, so publishing one never brings back an event that    *)
(* was given up; and that nothing exists of a job before it is committed.  *)
(***************************************************************************)
NothingOf(s) ==
    outbox[s] = "none" /\ topic[s] = 0 /\ sched.job # s /\ handled[s] = 0 /\ s \notin spawned

ChainInv ==
    /\ \A s \in disp.batch : outbox[s] = "PENDING"
    /\ \A s \in Submissions : jobs[s] = "none" => NothingOf(s)
    /\ \A s \in Submissions : pc[s] \in {"new", "allowed"} => jobs[s] = "none"

LEMMA ChainInit == Init => ChainInv
  BY DEF Init, ChainInv, NothingOf, Idle, Waiting, NoOne, Submissions

\* A request of the API keeps ChainInv.
LEMMA ChainRequests ==
  ASSUME TypeOK, TypeOK', ChainInv, NEW s \in Submissions,
         AllowJobSubmission(s) \/ CreateJob(s) \/ RequestError(s) \/ CancelJob(s)
  PROVE  ChainInv'
<1>1. CASE AllowJobSubmission(s)
  <2>1. pc' = [pc EXCEPT ![s] = pc'[s]] /\ pc[s] = "new"
    BY <1>1 DEF AllowJobSubmission, Answer, Put, TypeOK
  <2> QED
    BY <1>1, <2>1 DEF AllowJobSubmission, ChainInv, NothingOf, TypeOK, dispatchVars, schedVars
<1>2. ASSUME pc[s] = "allowed", InsertJobAndEvent(s),
             NEW to \in {"committed", "error"}, pc' = [pc EXCEPT ![s] = to],
             UNCHANGED <<disp, schedVars>>
      PROVE  ChainInv'
  <2>1. jobs' = [jobs EXCEPT ![s] = "SUBMITTED"] /\ outbox' = [outbox EXCEPT ![s] = "PENDING"]
    BY <1>2 DEF InsertJobAndEvent, Put
  <2> QED
    BY <1>2, <2>1 DEF ChainInv, NothingOf, TypeOK, schedVars
<1>3. ASSUME pc[s] \in InFlight, UNCHANGED <<jobs, outbox, disp, schedVars>>,
             NEW to \in {"created", "error"}, pc' = [pc EXCEPT ![s] = to]
      PROVE  ChainInv'
  BY <1>3 DEF ChainInv, NothingOf, TypeOK, schedVars
<1>4. CASE CommitJob(s)
  BY <1>2, <1>3, <1>4 DEF CommitJob, Answer, Put, InFlight
<1>5. CASE IncrementRunningJobs(s)
  BY <1>3, <1>5 DEF IncrementRunningJobs, Answer, Put, InFlight, dispatchVars
<1>6. CASE RequestError(s)
  BY <1>2, <1>3, <1>6 DEF RequestError, Answer, Put, InFlight
<1>7. CASE CancelJob(s)
  BY <1>7 DEF CancelJob, Put, ChainInv, NothingOf, TypeOK, dispatchVars, schedVars
<1> QED
  BY <1>1, <1>4, <1>5, <1>6, <1>7 DEF CreateJob

\* What an attempt to publish changes.
LEMMA PublishSteps ==
  ASSUME TypeOK, NEW s \in Submissions, Publish(s) \/ PublishError(s)
  PROVE  /\ s \in disp.batch /\ disp'.batch = disp.batch
         /\ UNCHANGED <<requestVars, outbox, sched, spawned, handled>>
         /\ \E n \in {0, 1, 2} : topic' = [topic EXCEPT ![s] = @ + n]
<1>1. CASE Publish(s)
  <2>1. topic' = [topic EXCEPT ![s] = @ + 1]
    BY <1>1 DEF Publish, Add
  <2>2. disp'.batch = disp.batch
    BY <1>1 DEF Publish, TypeOK
  <2> QED
    BY <1>1, <2>1, <2>2 DEF Publish
<1>2. CASE PublishError(s)
  <2>1. \E n \in {0, 1, 2} : topic' = [topic EXCEPT ![s] = @ + n]
    BY <1>2 DEF PublishError, Add
  <2>2. disp'.batch = disp.batch
    BY <1>2 DEF PublishError, TypeOK
  <2> QED
    BY <1>2, <2>1, <2>2 DEF PublishError
<1> QED
  BY <1>1, <1>2

\* The dispatcher and the cleanup keep ChainInv: a row leaves the batch when it
\* is marked, and only DELIVERED rows are deleted.
LEMMA ChainDispatch ==
  ASSUME TypeOK, TypeOK', ChainInv,
         \/ Dispatch \/ MarkError \/ CleanupDeliveredOutboxEvents
         \/ \E s \in Submissions : PublishError(s)
  PROVE  ChainInv'
<1>1. CASE GetPendingOutboxEvents
  BY <1>1 DEF GetPendingOutboxEvents, Pending, Idle, ChainInv, NothingOf, requestVars, schedVars
<1>2. ASSUME NEW s \in Submissions, Publish(s) \/ PublishError(s) PROVE ChainInv'
  <2>1. /\ s \in disp.batch /\ disp'.batch = disp.batch
        /\ UNCHANGED <<requestVars, outbox, sched, spawned, handled>>
        /\ \E n \in {0, 1, 2} : topic' = [topic EXCEPT ![s] = @ + n]
    BY <1>2, PublishSteps
  <2>2. jobs[s] # "none"
    BY <2>1 DEF ChainInv, NothingOf, TypeOK
  <2> QED
    BY <2>1, <2>2 DEF ChainInv, NothingOf, TypeOK, requestVars
<1>3. ASSUME NextRow PROVE disp'.batch \subseteq disp.batch \ {disp.event}
  BY <1>3 DEF NextRow, Idle
<1>4. CASE MarkOutboxDelivered \/ MarkOutboxFailed \/ MarkError
  <2>1. /\ disp'.batch \subseteq disp.batch \ {disp.event} /\ disp.event \in disp.batch
        /\ UNCHANGED <<requestVars, schedVars>>
        /\ \E st \in {"DELIVERED", "FAILED", "PENDING"} :
               outbox' = [outbox EXCEPT ![disp.event] = st]
    <3>1. CASE MarkOutboxDelivered
      BY <1>3, <3>1 DEF MarkOutboxDelivered, Put, TypeOK
    <3>2. CASE MarkOutboxFailed
      BY <1>3, <3>2 DEF MarkOutboxFailed, Put, TypeOK
    <3>3. CASE MarkError
      <4>1. disp.event \in disp.batch
        BY <3>3 DEF MarkError, TypeOK
      <4>2. outbox[disp.event] = "PENDING"
        BY <4>1 DEF ChainInv
      <4> QED
        BY <1>3, <3>3, <4>1, <4>2 DEF MarkError, TypeOK
    <3> QED
      BY <1>4, <3>1, <3>2, <3>3
  <2>2. jobs[disp.event] # "none"
    BY <2>1 DEF ChainInv, NothingOf, TypeOK
  <2> QED
    BY <2>1, <2>2 DEF ChainInv, NothingOf, TypeOK, requestVars, schedVars
<1>5. CASE CleanupDeliveredOutboxEvents
  BY <1>5 DEF CleanupDeliveredOutboxEvents, ChainInv, NothingOf, TypeOK, requestVars, schedVars
<1> QED
  BY <1>1, <1>2, <1>4, <1>5 DEF Dispatch

\* Everything behind the topic keeps ChainInv.
LEMMA ChainBehind ==
  ASSUME TypeOK, TypeOK', ChainInv,
         \/ Schedule \/ HandlerError \/ SchedulerCrash
         \/ \E s \in Submissions : ReadError(s)
         \/ Release \/ DecrementError \/ ApiCrash
         \/ \E s \in Submissions : CloseJob(s) \/ CloseJobAgain(s) \/ AnnounceError(s)
  PROVE  ChainInv'
<1>1. ASSUME NEW s \in Submissions, ReadSubmitted(s) PROVE ChainInv'
  <2>1. /\ topic[s] > 0 /\ topic' = [topic EXCEPT ![s] = @ + -1]
        /\ sched' = [job |-> s, attempt |-> 1]
        /\ UNCHANGED <<requestVars, dispatchVars, spawned, handled>>
    BY <1>1 DEF ReadSubmitted, Read, Add
  <2> QED
    BY <2>1 DEF ChainInv, NothingOf, TypeOK, requestVars, dispatchVars
<1>2. ASSUME NEW s \in Submissions, ReadError(s) PROVE ChainInv'
  <2>1. /\ \/ topic[s] > 0 /\ topic' = [topic EXCEPT ![s] = @ + -1]
           \/ UNCHANGED topic
        /\ UNCHANGED <<requestVars, dispatchVars, sched, spawned, handled>>
    BY <1>2 DEF ReadError, Read, Add
  <2> QED
    BY <2>1 DEF ChainInv, NothingOf, TypeOK, requestVars, dispatchVars
<1>3. CASE HandleJobSubmitted \/ HandlerError \/ SchedulerCrash
  <2> DEFINE s == sched.job
  <2>1. /\ s \in Submissions
        /\ UNCHANGED <<pc, outbox, disp, topic>>
        /\ \A r \in Submissions \ {s} : jobs'[r] = jobs[r] /\ handled'[r] = handled[r]
        /\ jobs'[s] \in {jobs[s], "QUEUED"}
        /\ spawned' \subseteq spawned \cup {s}
        /\ sched'.job \in {s, NoOne}
    BY <1>3 DEF HandleJobSubmitted, HandlerError, SchedulerCrash, HandledInPart, Retry, Waiting,
                Put, Add, TypeOK, dispatchVars
  <2>2. jobs[s] # "none"
    BY <2>1 DEF ChainInv, NothingOf
  <2> QED
    BY <2>1, <2>2 DEF ChainInv, NothingOf, TypeOK, NoOne, Submissions
<1>5. ASSUME NEW s \in Submissions, CloseJob(s) \/ CloseJobAgain(s) \/ AnnounceError(s)
      PROVE  ChainInv'
  <2>1. /\ s \in spawned /\ jobs' = [jobs EXCEPT ![s] = "FINISHED"]
        /\ UNCHANGED <<pc, dispatchVars, schedVars>>
    BY <1>5 DEF CloseJob, CloseJobAgain, AnnounceError, Announce, Put
  <2> QED
    BY <2>1 DEF ChainInv, NothingOf, TypeOK, dispatchVars, schedVars
<1>6. CASE Release \/ DecrementError
  <2>1. UNCHANGED <<requestVars, dispatchVars, schedVars>>
    BY <1>6 DEF Release, ReadCompleted, DecrementRunningJobs, DecrementError
  <2> QED
    BY <2>1 DEF ChainInv, NothingOf, requestVars, dispatchVars, schedVars
<1>7. CASE ApiCrash
  BY <1>7 DEF ApiCrash, Idle, ChainInv, NothingOf, TypeOK, InFlight, schedVars
<1> QED
  BY <1>1, <1>2, <1>3, <1>5, <1>6, <1>7 DEF Schedule

LEMMA ChainStep == TypeOK /\ TypeOK' /\ ChainInv /\ [Next]_vars => ChainInv'
<1> SUFFICES ASSUME TypeOK, TypeOK', ChainInv, [Next]_vars PROVE ChainInv'
  OBVIOUS
<1>1. CASE Next
  BY <1>1, StepGroups, ChainRequests, ChainDispatch, ChainBehind
<1>2. CASE UNCHANGED vars
  BY <1>2 DEF vars, requestVars, dispatchVars, schedVars, ChainInv, NothingOf
<1> QED
  BY <1>1, <1>2

\* What the dispatcher has in hand is PENDING, and nothing exists of a job
\* before CreateJob has committed it.
THEOREM ChainInvariant == Spec => []ChainInv
<1>1. Init => ChainInv
  BY ChainInit
<1>2. TypeOK /\ TypeOK' /\ ChainInv /\ [Next]_vars => ChainInv'
  BY ChainStep
<1> QED
  BY <1>1, <1>2, SubmissionTypes, PTL DEF Spec

\* A step that moves the fate of one event, and only along Delivery's arrows,
\* is a step of Delivery.
LEMMA FateMoves ==
  ASSUME NEW s \in Submissions,
         \A r \in Submissions : r # s => Fate'[r] = Fate[r],
         \/ Fate'[s] = Fate[s]
         \/ Fate[s] = "absent" /\ Fate'[s] = "owed"
         \/ Fate[s] = "owed" /\ Fate'[s] = "done"
         \/ Fate[s] = "owed" /\ Fate'[s] = "lost"
  PROVE  [D!DeliveryNext]_Fate
<1>1. Fate' = [Fate EXCEPT ![s] = Fate'[s]]
  <2>1. Fate = [r \in Submissions |-> Fate[r]] /\ Fate' = [r \in Submissions |-> Fate'[r]]
    BY DEF Fate
  <2> QED
    BY <2>1
<1>2. CASE Fate'[s] = Fate[s]
  BY <1>2 DEF Fate
<1>3. CASE Fate[s] = "absent" /\ Fate'[s] = "owed"
  BY <1>1, <1>3 DEF D!DeliveryNext, D!Owe, D!Seal
<1>4. CASE Fate[s] = "owed" /\ Fate'[s] = "done"
  BY <1>1, <1>4 DEF D!DeliveryNext, D!Deliver, D!Seal
<1>5. CASE Fate[s] = "owed" /\ Fate'[s] = "lost"
  BY <1>1, <1>5 DEF D!DeliveryNext, D!Lose, D!Seal
<1> QED
  BY <1>2, <1>3, <1>4, <1>5

\* A step that leaves outbox, topic, consumer and handled alone and removes no
\* job is a stutter.
LEMMA FateStays ==
  ASSUME UNCHANGED <<outbox, topic, sched, handled>>,
         \A s \in Submissions : jobs'[s] = "none" <=> jobs[s] = "none"
  PROVE  [D!DeliveryNext]_Fate
<1>1. Fate' = Fate
  BY DEF Fate
<1> QED
  BY <1>1

\* The requests: an event is owed from the commit on.
LEMMA RequestsDeliver ==
  ASSUME TypeOK, TypeOK', ChainInv, NEW s \in Submissions,
         AllowJobSubmission(s) \/ CreateJob(s) \/ RequestError(s) \/ CancelJob(s)
  PROVE  [D!DeliveryNext]_Fate
<1>1. ASSUME pc[s] = "allowed", InsertJobAndEvent(s), UNCHANGED <<topic, sched, handled>>
      PROVE  [D!DeliveryNext]_Fate
  <2>1. /\ jobs' = [jobs EXCEPT ![s] = "SUBMITTED"]
        /\ outbox' = [outbox EXCEPT ![s] = "PENDING"]
    BY <1>1 DEF InsertJobAndEvent, Put
  <2>2. jobs[s] = "none" /\ handled[s] = 0
    BY <1>1 DEF ChainInv, NothingOf
  <2>3. \A r \in Submissions : r # s => Fate'[r] = Fate[r]
    BY <1>1, <2>1 DEF Fate, TypeOK
  <2>4. Fate[s] = "absent" /\ Fate'[s] = "owed"
    BY <1>1, <2>1, <2>2 DEF Fate, TypeOK
  <2> QED
    BY <2>3, <2>4, FateMoves
<1>2. CASE AllowJobSubmission(s)
  BY <1>2, FateStays DEF AllowJobSubmission, dispatchVars, schedVars
<1>3. CASE CommitJob(s)
  BY <1>1, <1>3, FateStays DEF CommitJob, Answer, schedVars
<1>4. CASE IncrementRunningJobs(s)
  BY <1>4, FateStays DEF IncrementRunningJobs, dispatchVars, schedVars
<1>5. CASE RequestError(s)
  BY <1>1, <1>5, FateStays DEF RequestError, Answer, schedVars
<1>6. CASE CancelJob(s)
  BY <1>6, FateStays DEF CancelJob, Put, dispatchVars, schedVars, TypeOK
<1> QED
  BY <1>2, <1>3, <1>4, <1>5, <1>6 DEF CreateJob

\* The dispatcher: a publication or its failure, a mark or its failure.  The
\* row that is marked is PENDING, so the event it is about is owed or done.
LEMMA DispatcherDelivers ==
  ASSUME TypeOK, TypeOK', ChainInv,
         \/ Dispatch \/ MarkError \/ CleanupDeliveredOutboxEvents
         \/ \E s \in Submissions : PublishError(s)
  PROVE  [D!DeliveryNext]_Fate
<1>1. CASE GetPendingOutboxEvents \/ MarkError
  BY <1>1, FateStays DEF GetPendingOutboxEvents, MarkError, requestVars, schedVars
<1>2. ASSUME NEW s \in Submissions, Publish(s) \/ PublishError(s)
      PROVE  [D!DeliveryNext]_Fate
  <2>1. /\ s \in disp.batch
        /\ UNCHANGED <<requestVars, outbox, sched, handled>>
        /\ \E n \in {0, 1, 2} : topic' = [topic EXCEPT ![s] = @ + n]
    BY <1>2, PublishSteps
  <2>2. outbox[s] = "PENDING"
    BY <2>1 DEF ChainInv
  <2>3. \A r \in Submissions : Fate'[r] = Fate[r]
    BY <2>1, <2>2 DEF Fate, TypeOK, requestVars
  <2> QED
    BY <2>3, FateMoves
<1>3. ASSUME NEW s \in disp.batch, NEW st \in {"DELIVERED", "FAILED"},
             outbox' = [outbox EXCEPT ![s] = st], UNCHANGED <<requestVars, schedVars>>
      PROVE  [D!DeliveryNext]_Fate
  <2>1. s \in Submissions /\ outbox[s] = "PENDING"
    BY DEF ChainInv, TypeOK
  <2>2. jobs[s] # "none"
    BY <2>1 DEF ChainInv, NothingOf
  <2>3. \A r \in Submissions : r # s => Fate'[r] = Fate[r]
    BY <1>3 DEF Fate, TypeOK, requestVars, schedVars
  <2>4. Fate'[s] = Fate[s] \/ (Fate[s] = "owed" /\ Fate'[s] = "lost")
    <3>1. CASE handled[s] > 0
      BY <1>3, <2>1, <3>1 DEF Fate, schedVars
    <3>2. CASE ~(handled[s] > 0)
      <4>1. Fate[s] = "owed"
        BY <2>1, <2>2, <3>2 DEF Fate
      <4>2. Fate'[s] \in {"owed", "lost"}
        BY <1>3, <2>1, <2>2, <3>2 DEF Fate, requestVars, schedVars
      <4> QED
        BY <4>1, <4>2
    <3> QED
      BY <3>1, <3>2
  <2> QED
    BY <2>1, <2>3, <2>4, FateMoves
<1>4. CASE MarkOutboxDelivered
  BY <1>3, <1>4 DEF MarkOutboxDelivered, Put, TypeOK
<1>5. CASE MarkOutboxFailed
  BY <1>3, <1>5 DEF MarkOutboxFailed, Put, TypeOK
<1>6. CASE CleanupDeliveredOutboxEvents
  <2>1. \A r \in Submissions : outbox'[r] = "PENDING" <=> outbox[r] = "PENDING"
    BY <1>6 DEF CleanupDeliveredOutboxEvents, TypeOK
  <2>2. UNCHANGED <<jobs, topic, sched, handled>>
    BY <1>6 DEF CleanupDeliveredOutboxEvents, requestVars, schedVars
  <2>3. Fate' = Fate
    BY <2>1, <2>2 DEF Fate
  <2> QED
    BY <2>3
<1> QED
  BY <1>1, <1>2, <1>4, <1>5, <1>6 DEF Dispatch

\* The scheduler: a message in hand is owed; it is handled, tried again or lost.
LEMMA SchedulerDelivers ==
  ASSUME TypeOK, TypeOK', ChainInv,
         \/ Schedule \/ HandlerError \/ SchedulerCrash
         \/ \E s \in Submissions : ReadError(s)
  PROVE  [D!DeliveryNext]_Fate
<1>1. ASSUME NEW s \in Submissions, ReadSubmitted(s) PROVE [D!DeliveryNext]_Fate
  <2>1. /\ topic[s] > 0 /\ sched = Waiting
        /\ topic' = [topic EXCEPT ![s] = @ + -1] /\ sched'.job = s
        /\ UNCHANGED <<jobs, outbox, handled>>
    BY <1>1 DEF ReadSubmitted, Read, Add, requestVars, dispatchVars
  <2>2. \A r \in Submissions : Fate'[r] = Fate[r]
    BY <2>1 DEF Fate, TypeOK, Waiting, NoOne, Submissions
  <2> QED
    BY <2>2, FateMoves
<1>2. ASSUME NEW s \in Submissions, ReadError(s) PROVE [D!DeliveryNext]_Fate
  <2>1. UNCHANGED <<jobs, outbox, sched, handled>>
    BY <1>2 DEF ReadError, requestVars, dispatchVars
  <2>2. \/ UNCHANGED topic
        \/ topic[s] > 0 /\ topic' = [topic EXCEPT ![s] = @ + -1]
    BY <1>2 DEF ReadError, Read, Add
  <2>3. CASE UNCHANGED topic
    BY <2>1, <2>3, FateStays
  <2>4. CASE topic[s] > 0 /\ topic' = [topic EXCEPT ![s] = @ + -1]
    <3>1. jobs[s] # "none"
      BY <2>4 DEF ChainInv, NothingOf, TypeOK
    <3>2. \A r \in Submissions : r # s => Fate'[r] = Fate[r]
      BY <2>1, <2>4 DEF Fate, TypeOK
    <3>3. Fate'[s] = Fate[s] \/ (Fate[s] = "owed" /\ Fate'[s] = "lost")
      <4>1. CASE handled[s] > 0
        BY <2>1, <4>1 DEF Fate
      <4>2. CASE ~(handled[s] > 0)
        <5>1. Fate[s] = "owed"
          BY <2>4, <3>1, <4>2 DEF Fate
        <5>2. Fate'[s] \in {"owed", "lost"}
          BY <2>1, <3>1, <4>2 DEF Fate
        <5> QED
          BY <5>1, <5>2
      <4> QED
        BY <4>1, <4>2
    <3> QED
      BY <3>2, <3>3, FateMoves
  <2> QED
    BY <2>2, <2>3, <2>4
<1>3. ASSUME sched.job \in Submissions, UNCHANGED <<outbox, topic>>,
             \A r \in Submissions : r # sched.job => jobs'[r] = jobs[r] /\ handled'[r] = handled[r],
             jobs'[sched.job] \in {jobs[sched.job], "QUEUED"},
             handled'[sched.job] \in {handled[sched.job], handled[sched.job] + 1},
             sched'.job \in {sched.job, NoOne}
      PROVE  [D!DeliveryNext]_Fate
  <2> DEFINE s == sched.job
  <2>1. jobs[s] # "none" /\ jobs'[s] # "none"
    BY <1>3 DEF ChainInv, NothingOf
  <2>2. \A r \in Submissions : r # s => Fate'[r] = Fate[r]
    BY <1>3 DEF Fate, NoOne, Submissions
  <2>3. Fate[s] \in {"owed", "done"}
    BY <1>3, <2>1 DEF Fate
  <2>4. Fate[s] = "done" => Fate'[s] = "done"
    BY <1>3 DEF Fate, TypeOK
  <2>5. Fate'[s] \in {"owed", "done", "lost"}
    BY <1>3, <2>1 DEF Fate
  <2> HIDE DEF s
  <2> QED
    BY <1>3, <2>2, <2>3, <2>4, <2>5, FateMoves DEF s
<1>4. CASE HandleJobSubmitted
  BY <1>3, <1>4 DEF HandleJobSubmitted, Waiting, Put, Add, TypeOK, dispatchVars
<1>5. CASE HandlerError \/ SchedulerCrash
  BY <1>3, <1>5 DEF HandlerError, SchedulerCrash, HandledInPart, Retry, Waiting, Put, TypeOK,
                    dispatchVars
<1> QED
  BY <1>1, <1>2, <1>4, <1>5 DEF Schedule

\* Closing a job and giving its slot back do not touch the chain.
LEMMA ReleaseDelivers ==
  ASSUME TypeOK, TypeOK', ChainInv,
         \/ Release \/ DecrementError \/ ApiCrash
         \/ \E s \in Submissions : CloseJob(s) \/ CloseJobAgain(s) \/ AnnounceError(s)
  PROVE  [D!DeliveryNext]_Fate
<1>1. CASE Release \/ DecrementError \/ ApiCrash
  BY <1>1, FateStays
  DEF Release, ReadCompleted, DecrementRunningJobs, DecrementError, ApiCrash,
      requestVars, dispatchVars, schedVars
<1>2. ASSUME NEW s \in Submissions, CloseJob(s) \/ CloseJobAgain(s) \/ AnnounceError(s)
      PROVE  [D!DeliveryNext]_Fate
  <2>1. /\ s \in spawned /\ jobs' = [jobs EXCEPT ![s] = "FINISHED"]
        /\ UNCHANGED <<outbox, topic, sched, handled>>
    BY <1>2 DEF CloseJob, CloseJobAgain, AnnounceError, Announce, Put, dispatchVars, schedVars
  <2>2. jobs[s] # "none"
    BY <2>1 DEF ChainInv, NothingOf
  <2>3. \A r \in Submissions : jobs'[r] = "none" <=> jobs[r] = "none"
    BY <2>1, <2>2 DEF TypeOK
  <2> QED
    BY <2>1, <2>3, FateStays
<1> QED
  BY <1>1, <1>2

\* From the commit of CreateJob over the outbox, the dispatcher, the topic and
\* the scheduler's consumer, with every failure and crash: once its job is
\* committed an event is owed, and its fate is sealed once; an event that was
\* given up on is never handled, a handled one never forgotten.
THEOREM DeliveryRefinement == Spec => ImplementsDelivery
<1>1. Init => D!DeliveryInit
  <2> SUFFICES ASSUME Init PROVE D!DeliveryInit
    OBVIOUS
  <2>1. \A s \in Submissions : Fate[s] = "absent"
    BY DEF Init, Fate
  <2> QED
    BY <2>1 DEF D!DeliveryInit, Fate
<1>2. TypeOK /\ TypeOK' /\ ChainInv /\ [Next]_vars => [D!DeliveryNext]_Fate
  <2> SUFFICES ASSUME TypeOK, TypeOK', ChainInv, [Next]_vars PROVE [D!DeliveryNext]_Fate
    OBVIOUS
  <2>1. CASE Next
    BY <2>1, StepGroups, RequestsDeliver, DispatcherDelivers, SchedulerDelivers, ReleaseDelivers
  <2>2. CASE UNCHANGED vars
    BY <2>2, FateStays DEF vars, requestVars, dispatchVars, schedVars
  <2> QED
    BY <2>1, <2>2
<1>3. Spec => D!DeliveryInit /\ [][D!DeliveryNext]_Fate
  BY <1>1, <1>2, ChainInvariant, SubmissionTypes, PTL DEF Spec
<1> QED
  BY <1>3 DEF ImplementsDelivery, D!DeliverySpec

(***************************************************************************)
(* One run per key.  Rows appear one at a time, behind the UNIQUE column;  *)
(* and as long as no publication is in doubt, no mark fails and the API    *)
(* does not stop, an event is in one place: not yet published, in the      *)
(* topic, in the scheduler's hands, or handled.                            *)
(***************************************************************************)
KeysUnique ==
    \A r, s \in Submissions :
        r # s /\ KeyOf(r) = KeyOf(s) /\ KeyOf(s) # NoKey => jobs[r] = "none" \/ jobs[s] = "none"

\* Rows of jobs only appear, and only for a key that is not taken.
LEMMA JobsAppear ==
  ASSUME TypeOK, ChainInv, Next
  PROVE  /\ UNCHANGED request
         /\ \/ \A r \in Submissions : jobs[r] = "none" => jobs'[r] = "none"
            \/ \E s \in Submissions :
                   ~KeyTaken(s) /\ jobs' = [jobs EXCEPT ![s] = "SUBMITTED"]
<1>1. ASSUME NEW s \in Submissions, AllowJobSubmission(s) \/ CreateJob(s) \/ RequestError(s)
      PROVE  /\ UNCHANGED request
             /\ UNCHANGED jobs \/ (~KeyTaken(s) /\ jobs' = [jobs EXCEPT ![s] = "SUBMITTED"])
  <2>1. CASE AllowJobSubmission(s) \/ IncrementRunningJobs(s)
    BY <2>1 DEF AllowJobSubmission, IncrementRunningJobs
  <2>2. CASE CommitJob(s)
    BY <2>2 DEF CommitJob, InsertJobAndEvent, Put
  <2>3. CASE RequestError(s)
    <3>1. UNCHANGED request
      BY <2>3 DEF RequestError
    <3>2. UNCHANGED jobs \/ (~KeyTaken(s) /\ InsertJobAndEvent(s))
      BY <2>3 DEF RequestError
    <3> QED
      BY <3>1, <3>2 DEF InsertJobAndEvent, Put
  <2> QED
    BY <1>1, <2>1, <2>2, <2>3 DEF CreateJob
<1>2. ASSUME NEW s \in Submissions, jobs[s] # "none", UNCHANGED request,
             \A r \in Submissions : r # s => jobs'[r] = jobs[r]
      PROVE  UNCHANGED request /\ \A r \in Submissions : jobs[r] = "none" => jobs'[r] = "none"
  BY <1>2
<1>3. ASSUME NEW s \in Submissions, CancelJob(s)
      PROVE  jobs[s] # "none" /\ UNCHANGED request /\ \A r \in Submissions : r # s => jobs'[r] = jobs[r]
  BY <1>3 DEF CancelJob, Put, TypeOK
<1>4. CASE HandleJobSubmitted \/ HandlerError \/ SchedulerCrash
  <2>1. sched.job \in Submissions
    BY <1>4 DEF HandleJobSubmitted, HandlerError, SchedulerCrash, TypeOK
  <2>2. jobs[sched.job] # "none"
    BY <2>1 DEF ChainInv, NothingOf
  <2>3. UNCHANGED request /\ \A r \in Submissions : r # sched.job => jobs'[r] = jobs[r]
    BY <1>4 DEF HandleJobSubmitted, HandlerError, SchedulerCrash, HandledInPart, Put, TypeOK
  <2> QED
    BY <1>2, <2>1, <2>2, <2>3
<1>5. ASSUME NEW s \in Submissions, CloseJob(s) \/ CloseJobAgain(s) \/ AnnounceError(s)
      PROVE  jobs[s] # "none" /\ UNCHANGED request /\ \A r \in Submissions : r # s => jobs'[r] = jobs[r]
  <2>1. s \in spawned /\ UNCHANGED request /\ jobs' = [jobs EXCEPT ![s] = "FINISHED"]
    BY <1>5 DEF CloseJob, CloseJobAgain, AnnounceError, Announce, Put
  <2> QED
    BY <2>1 DEF ChainInv, NothingOf, TypeOK
<1>6. ASSUME \/ Dispatch \/ MarkError \/ CleanupDeliveredOutboxEvents
             \/ \E s \in Submissions : PublishError(s) \/ ReadError(s)
             \/ \E s \in Submissions : ReadSubmitted(s)
             \/ Release \/ DecrementError \/ ApiCrash
      PROVE  UNCHANGED <<request, jobs>>
  BY <1>6 DEF Dispatch, GetPendingOutboxEvents, MarkOutboxDelivered, MarkOutboxFailed, Publish,
              MarkError, CleanupDeliveredOutboxEvents, PublishError, ReadError, ReadSubmitted,
              Release, ReadCompleted, DecrementRunningJobs, DecrementError, ApiCrash, requestVars
<1> QED
  BY <1>1, <1>2, <1>3, <1>4, <1>5, <1>6, StepGroups DEF Schedule

LEMMA KeysStep == TypeOK /\ ChainInv /\ KeysUnique /\ [Next]_vars => KeysUnique'
<1> SUFFICES ASSUME TypeOK, ChainInv, KeysUnique, [Next]_vars PROVE KeysUnique'
  OBVIOUS
<1>1. CASE UNCHANGED vars
  BY <1>1 DEF vars, requestVars, KeysUnique, KeyOf
<1>2. CASE UNCHANGED request /\ \A r \in Submissions : jobs[r] = "none" => jobs'[r] = "none"
  BY <1>2 DEF KeysUnique, KeyOf
<1>3. ASSUME UNCHANGED request, NEW s \in Submissions,
             ~KeyTaken(s), jobs' = [jobs EXCEPT ![s] = "SUBMITTED"]
      PROVE  KeysUnique'
  <2>1. \A r \in Submissions :
           r # s /\ KeyOf(r) = KeyOf(s) /\ KeyOf(s) # NoKey => jobs'[r] = "none"
    BY <1>3 DEF KeyTaken, TypeOK
  <2>2. \A r \in Submissions : r # s => jobs'[r] = jobs[r]
    BY <1>3 DEF TypeOK
  <2>3. \A r \in Submissions : KeyOf(r)' = KeyOf(r)
    BY <1>3 DEF KeyOf
  <2> QED
    BY <2>1, <2>2, <2>3 DEF KeysUnique
<1> QED
  BY <1>1, <1>2, <1>3, JobsAppear

Repeats == {"publish", "mark", "apiCrash"}

\* The message copies of an event and the calls of the handler it came from.
InHand(s) == IF sched.job = s THEN 1 ELSE 0
Copies(s) == topic[s] + handled[s] + InHand(s)

\* The event may still be published.
Unpublished(s) ==
    jobs[s] = "none" \/ (outbox[s] = "PENDING" /\ ~(disp.pc = "markDelivered" /\ disp.event = s))

OnceInv ==
    None(Repeats) =>
        /\ disp.pc # "markFailed"
        /\ \A s \in Submissions : /\ Copies(s) <= 1
                                  /\ Unpublished(s) => Copies(s) = 0

LEMMA CopiesType ==
  ASSUME TypeOK, NEW s \in Submissions
  PROVE  Copies(s) \in Nat /\ topic[s] \in Nat /\ handled[s] \in Nat /\ InHand(s) \in 0..1
  BY DEF TypeOK, Copies, InHand

\* A step that repeats nothing, makes no copy and takes no mark back.
LEMMA OnceKept ==
  ASSUME TypeOK, TypeOK', OnceInv, None(Repeats)' => None(Repeats),
         disp'.pc = "markFailed" => disp.pc = "markFailed",
         \A s \in Submissions : /\ Copies(s)' <= Copies(s)
                                /\ Unpublished(s)' => Unpublished(s)
  PROVE  OnceInv'
<1> SUFFICES ASSUME None(Repeats)'
             PROVE  /\ disp'.pc # "markFailed"
                    /\ \A s \in Submissions : /\ Copies(s)' <= 1
                                              /\ Unpublished(s)' => Copies(s)' = 0
  BY DEF OnceInv
<1>1. \A s \in Submissions : Copies(s) \in Nat /\ Copies(s)' \in Nat
  <2>1. \A s \in Submissions : Copies(s) \in Nat
    BY CopiesType
  <2>2. \A s \in Submissions : Copies(s)' \in Nat
    BY DEF TypeOK, Copies, InHand
  <2> QED
    BY <2>1, <2>2
<1> QED
  BY <1>1 DEF OnceInv

\* No action takes an error back.
LEMMA ErrorsGrow ==
  ASSUME TypeOK, [Next]_vars
  PROVE  None(Repeats)' => None(Repeats)
<1>1. ASSUME NEW k \in Kinds, Error(k) PROVE None(Repeats)' => None(Repeats)
  <2>1. \A i \in Repeats : errors[i] \in Nat /\ (errors'[i] = errors[i] \/ errors'[i] = errors[i] + 1)
    BY <1>1 DEF Error, TypeOK, Repeats, Kinds
  <2> QED
    BY <2>1 DEF None
<1>2. CASE UNCHANGED errors
  BY <1>2 DEF None
<1>3. CASE Failure
  <2>1. \E k \in Kinds : Error(k)
    BY <1>3 DEF Failure, MarkError, HandlerError, DecrementError, ApiCrash, SchedulerCrash,
                RequestError, PublishError, ReadError, AnnounceError, CloseJobAgain, Kinds
  <2> QED
    BY <1>1, <2>1
<1>4. CASE \E s \in Submissions : \/ AllowJobSubmission(s) \/ CreateJob(s)
                                  \/ CancelJob(s) \/ CloseJob(s)
  BY <1>2, <1>4 DEF AllowJobSubmission, CreateJob, CommitJob, IncrementRunningJobs, CancelJob,
                    CloseJob
<1>5. CASE Dispatch \/ CleanupDeliveredOutboxEvents \/ Schedule \/ Release
  BY <1>2, <1>5 DEF Dispatch, GetPendingOutboxEvents, Publish, MarkOutboxDelivered,
                    MarkOutboxFailed, CleanupDeliveredOutboxEvents, Schedule, ReadSubmitted,
                    HandleJobSubmitted, Release, ReadCompleted, DecrementRunningJobs
<1>6. CASE UNCHANGED vars
  BY <1>2, <1>6 DEF vars
<1> QED
  BY <1>3, <1>4, <1>5, <1>6 DEF Next

\* An error that may repeat an event leaves nothing to show.
LEMMA OnceVoid ==
  ASSUME TypeOK, NEW k \in Repeats, Error(k)
  PROVE  OnceInv'
<1>1. errors'[k] = errors[k] + 1 /\ errors[k] \in Nat
  BY DEF Error, TypeOK, Repeats, Kinds
<1>2. ~None(Repeats)'
  BY <1>1 DEF None
<1> QED
  BY <1>2 DEF OnceInv

LEMMA OnceRequests ==
  ASSUME TypeOK, TypeOK', ChainInv, OnceInv, None(Repeats)' => None(Repeats),
         NEW s \in Submissions,
         \/ AllowJobSubmission(s) \/ CreateJob(s) \/ RequestError(s) \/ CancelJob(s)
  PROVE  OnceInv'
<1>1. UNCHANGED <<disp, schedVars>>
  BY DEF AllowJobSubmission, CreateJob, CommitJob, IncrementRunningJobs, RequestError, CancelJob,
         dispatchVars
<1>2. \A r \in Submissions : Copies(r)' = Copies(r)
  BY <1>1 DEF Copies, InHand, schedVars
<1>3. ASSUME UNCHANGED outbox, \A r \in Submissions : jobs'[r] = "none" => jobs[r] = "none"
      PROVE  \A r \in Submissions : Unpublished(r)' => Unpublished(r)
  BY <1>1, <1>3 DEF Unpublished
<1>4. ASSUME pc[s] = "allowed", InsertJobAndEvent(s)
      PROVE  \A r \in Submissions : Unpublished(r)' => Unpublished(r)
  <2>1. jobs[s] = "none"
    BY <1>4 DEF ChainInv
  <2> QED
    BY <1>1, <1>4, <2>1 DEF InsertJobAndEvent, Put, Unpublished, TypeOK
<1>5. \A r \in Submissions : Unpublished(r)' => Unpublished(r)
  <2>1. CASE AllowJobSubmission(s) \/ IncrementRunningJobs(s)
    BY <1>3, <2>1 DEF AllowJobSubmission, IncrementRunningJobs, dispatchVars
  <2>2. CASE CommitJob(s) \/ RequestError(s)
    BY <1>3, <1>4, <2>2 DEF CommitJob, RequestError, Answer
  <2>3. CASE CancelJob(s)
    BY <1>3, <2>3 DEF CancelJob, Put, TypeOK, dispatchVars
  <2> QED
    BY <2>1, <2>2, <2>3 DEF CreateJob
<1>6. \A r \in Submissions : Copies(r)' <= Copies(r)
  BY <1>2, CopiesType
<1> QED
  BY <1>1, <1>5, <1>6, OnceKept

LEMMA OnceDispatch ==
  ASSUME TypeOK, TypeOK', ChainInv, OnceInv, None(Repeats)' => None(Repeats),
         \/ Dispatch \/ MarkError \/ CleanupDeliveredOutboxEvents
         \/ \E s \in Submissions : PublishError(s)
  PROVE  OnceInv'
<1>1. ASSUME UNCHANGED <<jobs, schedVars>>, disp'.pc \in {"idle", "publish"},
             \A s \in Submissions : outbox'[s] = "PENDING" =>
                 outbox[s] = "PENDING" /\ ~(disp.pc = "markDelivered" /\ disp.event = s)
      PROVE  OnceInv'
  <2>1. \A s \in Submissions : Copies(s)' <= Copies(s)
    BY <1>1, CopiesType DEF Copies, InHand, schedVars
  <2>2. \A s \in Submissions : Unpublished(s)' => Unpublished(s)
    BY <1>1 DEF Unpublished
  <2> QED
    BY <1>1, <2>1, <2>2, OnceKept
<1>2. CASE GetPendingOutboxEvents
  BY <1>1, <1>2 DEF GetPendingOutboxEvents, Idle, requestVars
<1>3. ASSUME NEW s \in Submissions, Publish(s) PROVE OnceInv'
  <2>1. /\ disp.pc = "publish" /\ disp'.pc = "markDelivered" /\ disp'.event = s
        /\ s \in disp.batch
    BY <1>3 DEF Publish, TypeOK
  <2>2. topic' = [topic EXCEPT ![s] = @ + 1] /\ UNCHANGED <<jobs, outbox, sched, handled>>
    BY <1>3 DEF Publish, Add, requestVars
  <2>3. Unpublished(s) /\ ~Unpublished(s)'
    <3>1. outbox[s] = "PENDING"
      BY <2>1 DEF ChainInv
    <3>2. jobs[s] # "none"
      BY <3>1 DEF ChainInv, NothingOf
    <3> QED
      BY <2>1, <2>2, <3>1, <3>2 DEF Unpublished
  <2>4. Copies(s)' = Copies(s) + 1
    BY <2>2, CopiesType DEF Copies, InHand, TypeOK
  <2>5. \A r \in Submissions : r # s => Copies(r)' = Copies(r)
    BY <2>2 DEF Copies, InHand, TypeOK
  <2>6. \A r \in Submissions : r # s => (Unpublished(r)' => Unpublished(r))
    BY <2>1, <2>2 DEF Unpublished
  <2> QED
    BY <2>1, <2>3, <2>4, <2>5, <2>6 DEF OnceInv
<1>4. CASE MarkOutboxDelivered
  <2>1. disp'.pc \in {"idle", "publish"}
    BY <1>4 DEF MarkOutboxDelivered, NextRow, Idle
  <2> QED
    BY <1>1, <1>4, <2>1 DEF MarkOutboxDelivered, Put, TypeOK, requestVars
<1>5. CASE MarkOutboxFailed
  <2>1. disp'.pc \in {"idle", "publish"} /\ disp.pc = "markFailed" /\ UNCHANGED errors
    BY <1>5 DEF MarkOutboxFailed, NextRow, Idle
  <2> QED
    BY <2>1 DEF OnceInv, None
<1>6. CASE MarkError
  BY <1>6, OnceVoid DEF MarkError, Repeats
<1>7. CASE CleanupDeliveredOutboxEvents
  <2>1. UNCHANGED <<jobs, disp, schedVars>>
    BY <1>7 DEF CleanupDeliveredOutboxEvents, requestVars
  <2>2. \A s \in Submissions : Copies(s)' <= Copies(s)
    BY <2>1, CopiesType DEF Copies, InHand, schedVars
  <2>3. \A s \in Submissions : outbox'[s] = "PENDING" => outbox[s] = "PENDING"
    BY <1>7 DEF CleanupDeliveredOutboxEvents, TypeOK
  <2>4. \A s \in Submissions : Unpublished(s)' => Unpublished(s)
    BY <2>1, <2>3 DEF Unpublished
  <2> QED
    BY <2>1, <2>2, <2>4, OnceKept
<1>8. ASSUME NEW s \in Submissions, PublishError(s) PROVE OnceInv'
  BY <1>8, OnceVoid DEF PublishError, Repeats
<1> QED
  BY <1>2, <1>3, <1>4, <1>5, <1>6, <1>7, <1>8 DEF Dispatch

LEMMA OnceBehind ==
  ASSUME TypeOK, TypeOK', ChainInv, OnceInv, None(Repeats)' => None(Repeats),
         \/ Schedule \/ HandlerError \/ SchedulerCrash
         \/ \E s \in Submissions : ReadError(s)
         \/ Release \/ DecrementError \/ ApiCrash
         \/ \E s \in Submissions : CloseJob(s) \/ CloseJobAgain(s) \/ AnnounceError(s)
  PROVE  OnceInv'
<1>1. ASSUME UNCHANGED dispatchVars,
             \A s \in Submissions : jobs'[s] = "none" => jobs[s] = "none",
             \A s \in Submissions : Copies(s)' <= Copies(s)
      PROVE  OnceInv'
  <2>1. \A s \in Submissions : Unpublished(s)' => Unpublished(s)
    BY <1>1 DEF Unpublished, dispatchVars
  <2> QED
    BY <1>1, <2>1, OnceKept DEF dispatchVars
<1>2. ASSUME NEW s \in Submissions, ReadSubmitted(s) PROVE OnceInv'
  <2>1. /\ sched.job = NoOne /\ sched'.job = s /\ topic' = [topic EXCEPT ![s] = @ + -1]
        /\ UNCHANGED <<handled, dispatchVars, jobs>>
    BY <1>2 DEF ReadSubmitted, Read, Add, Waiting, requestVars
  <2>2. Copies(s)' = Copies(s)
    <3>1. topic'[s] = topic[s] + -1 /\ InHand(s) = 0 /\ InHand(s)' = 1
      BY <2>1 DEF InHand, TypeOK, NoOne, Submissions
    <3> QED
      BY <2>1, <3>1, CopiesType DEF Copies
  <2>3. \A r \in Submissions : r # s => Copies(r)' = Copies(r)
    BY <2>1 DEF Copies, InHand, TypeOK, NoOne, Submissions
  <2> QED
    BY <1>1, <2>1, <2>2, <2>3, CopiesType
<1>3. ASSUME NEW s \in Submissions, ReadError(s) PROVE OnceInv'
  <2>1. /\ UNCHANGED <<handled, sched, dispatchVars, jobs>>
        /\ UNCHANGED topic \/ topic' = [topic EXCEPT ![s] = @ + -1]
    BY <1>3 DEF ReadError, Read, Add, requestVars
  <2>2. \A r \in Submissions : r # s => Copies(r)' = Copies(r)
    BY <2>1 DEF Copies, InHand, TypeOK
  <2>3. Copies(s)' <= Copies(s)
    <3>1. topic'[s] \in {topic[s], topic[s] + -1}
      BY <2>1 DEF TypeOK
    <3> QED
      BY <2>1, <3>1, CopiesType DEF Copies, InHand
  <2> QED
    BY <1>1, <2>1, <2>2, <2>3, CopiesType
<1>4. CASE HandleJobSubmitted
  <2>1. PICK s \in Submissions :
           /\ sched.job = s /\ sched'.job = NoOne
           /\ handled' = [handled EXCEPT ![s] = @ + 1]
           /\ UNCHANGED <<topic, dispatchVars>>
    BY <1>4 DEF HandleJobSubmitted, Waiting, Add, TypeOK
  <2>2. Copies(s)' = Copies(s)
    <3>1. handled'[s] = handled[s] + 1 /\ InHand(s) = 1 /\ InHand(s)' = 0
      BY <2>1 DEF TypeOK, InHand, NoOne, Submissions
    <3> QED
      BY <2>1, <3>1, CopiesType DEF Copies
  <2>3. \A r \in Submissions : r # s => Copies(r)' = Copies(r)
    BY <2>1 DEF Copies, InHand, TypeOK, NoOne, Submissions
  <2>4. \A r \in Submissions : jobs'[r] = "none" => jobs[r] = "none"
    BY <1>4 DEF HandleJobSubmitted, Put, TypeOK
  <2> QED
    BY <1>1, <2>1, <2>2, <2>3, <2>4, CopiesType
<1>5. CASE HandlerError \/ SchedulerCrash
  <2>1. sched'.job \in {sched.job, NoOne} /\ UNCHANGED <<topic, handled, dispatchVars>>
    BY <1>5 DEF HandlerError, SchedulerCrash, Retry, Waiting, TypeOK
  <2>2. \A r \in Submissions : Copies(r)' <= Copies(r)
    BY <2>1, CopiesType DEF Copies, InHand, NoOne, Submissions
  <2>3. \A r \in Submissions : jobs'[r] = "none" => jobs[r] = "none"
    BY <1>5 DEF HandlerError, SchedulerCrash, HandledInPart, Put, TypeOK
  <2> QED
    BY <1>1, <2>1, <2>2, <2>3
<1>7. CASE Release \/ DecrementError
  <2>1. UNCHANGED <<jobs, dispatchVars, schedVars>>
    BY <1>7 DEF Release, ReadCompleted, DecrementRunningJobs, DecrementError, requestVars
  <2>2. \A r \in Submissions : Copies(r)' <= Copies(r)
    BY <2>1, CopiesType DEF Copies, InHand, schedVars
  <2> QED
    BY <1>1, <2>1, <2>2
<1>8. CASE ApiCrash
  BY <1>8, OnceVoid DEF ApiCrash, Repeats
<1>9. ASSUME NEW s \in Submissions, CloseJob(s) \/ CloseJobAgain(s) \/ AnnounceError(s)
      PROVE  OnceInv'
  <2>1. UNCHANGED <<dispatchVars, schedVars>> /\ jobs' = [jobs EXCEPT ![s] = "FINISHED"]
    BY <1>9 DEF CloseJob, CloseJobAgain, AnnounceError, Announce, Put
  <2>2. \A r \in Submissions : Copies(r)' <= Copies(r)
    BY <2>1, CopiesType DEF Copies, InHand, schedVars
  <2>3. \A r \in Submissions : jobs'[r] = "none" => jobs[r] = "none"
    BY <2>1 DEF TypeOK
  <2> QED
    BY <1>1, <2>1, <2>2, <2>3
<1> QED
  BY <1>2, <1>3, <1>4, <1>5, <1>7, <1>8, <1>9 DEF Schedule

\* Without a failed publication or mark and a crash of the API there is never
\* more than one copy of an event, read or unread, and none of one that the
\* dispatcher may still publish.
LEMMA OnceInvariant == Spec => []OnceInv
<1>1. Init => OnceInv
  BY DEF Init, OnceInv, Copies, InHand, Idle, Waiting, NoOne, Submissions
<1>2. TypeOK /\ TypeOK' /\ ChainInv /\ OnceInv /\ [Next]_vars => OnceInv'
  <2> SUFFICES ASSUME TypeOK, TypeOK', ChainInv, OnceInv, [Next]_vars PROVE OnceInv'
    OBVIOUS
  <2>1. None(Repeats)' => None(Repeats)
    BY ErrorsGrow
  <2>2. CASE Next
    BY <2>1, <2>2, StepGroups, OnceRequests, OnceDispatch, OnceBehind
  <2>3. CASE UNCHANGED vars
    BY <2>3 DEF vars, requestVars, dispatchVars, schedVars, OnceInv, None, Copies, InHand,
                Unpublished
  <2> QED
    BY <2>2, <2>3
<1> QED
  BY <1>1, <1>2, SubmissionTypes, ChainInvariant, PTL DEF Spec

\* A key makes at most one job, in whatever workspace and state, and a job is
\* handled at most once unless an event may have been published twice: the
\* UNIQUE column on one side, on the other the outbox and the offsets.
THEOREM KeysAreHandledOnce == Spec => []KeyHandledOnce
<1>1. Init => KeysUnique
  BY DEF Init, KeysUnique
<1>2. TypeOK /\ ChainInv /\ KeysUnique /\ OnceInv => KeyHandledOnce
  <2> SUFFICES ASSUME TypeOK, ChainInv, KeysUnique, OnceInv PROVE KeyHandledOnce
    OBVIOUS
  <2>1. \A s \in Submissions : jobs[s] = "none" => handled[s] = 0
    BY DEF ChainInv, NothingOf
  <2>2. None(Repeats) => \A s \in Submissions : handled[s] <= 1
    BY CopiesType DEF OnceInv, Copies
  <2> QED
    BY <2>1, <2>2 DEF KeysUnique, KeyHandledOnce, Repeats
<1> QED
  BY <1>1, <1>2, KeysStep, SubmissionTypes, ChainInvariant, OnceInvariant, PTL DEF Spec
=============================================================================
