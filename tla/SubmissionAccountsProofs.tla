---------------------- MODULE SubmissionAccountsProofs ----------------------
(***************************************************************************)
(* The accounts of JobSubmission, for every number of requests, attempts   *)
(* and failures: every lost event has an error of its own, and every slot  *)
(* by which the counter of the rate limit is off has one, so the jobs that *)
(* run exceed the limit only by the requests that pass the check together. *)
(***************************************************************************)
EXTENDS JobSubmissionProofs

(***************************************************************************)
(* Arithmetic with MaxAttempts, of which the solvers only know a numeral   *)
(* multiple.                                                               *)
(***************************************************************************)
LEMMA TimesMonotone ==
  ASSUME NEW m \in Nat, NEW a \in Int, NEW b \in Int, a <= b
  PROVE  m * a \in Int /\ m * b \in Int /\ m * a <= m * b
<1>1. m * (b - a) >= 0
  OBVIOUS
<1>2. m * (b - a) = m * b - m * a
  OBVIOUS
<1> QED
  BY <1>1, <1>2

LEMMA TimesOneMore ==
  ASSUME NEW m \in Nat, NEW a \in Int
  PROVE  m * a \in Int /\ m * (a + 1) = m * a + m
  OBVIOUS

LEMMA TimesQuotient ==
  ASSUME NEW m \in Nat \ {0}, NEW a \in Int, NEW h \in Nat, m * a <= h
  PROVE  a <= h \div m
<1> DEFINE q == h \div m
<1>1. q \in Int /\ h < m * (q + 1)
  OBVIOUS
<1>2. CASE a >= q + 1
  <2>1. m * (q + 1) <= m * a
    BY <1>1, <1>2, TimesMonotone
  <2> QED
    BY <1>1, <2>1, TimesMonotone
<1> QED
  BY <1>1, <1>2

\* What an error changes in the accounts.
LEMMA OneError ==
  ASSUME TypeOK, NEW k \in Kinds, Error(k)
  PROVE  /\ errors[k] \in Nat /\ errors'[k] = errors[k] + 1
         /\ \A i \in Kinds \ {k} : errors'[i] = errors[i]
  BY DEF Error, TypeOK

(***************************************************************************)
(* Lost events.  An event is gone when it was not handled, no copy of it   *)
(* is on its way and the dispatcher is through with its row, or about to   *)
(* mark it.  The loss is booked at the call that fails, and the failures   *)
(* of the handler on the event in hand are kept apart until there are      *)
(* MaxAttempts of them.                                                    *)
(***************************************************************************)
Tried == IF sched.job = NoOne THEN 0 ELSE sched.attempt - 1

Excused == errors["publish"] + errors["read"] + errors["schedulerCrash"]

Passed(s) ==
    outbox[s] # "PENDING" \/ (disp.pc \in {"markDelivered", "markFailed"} /\ disp.event = s)

Gone == {s \in Submissions : /\ handled[s] = 0 /\ jobs[s] # "none"
                             /\ topic[s] = 0 /\ sched.job # s /\ Passed(s)}

Attempting == sched.job # NoOne => sched.attempt >= 1

LossInv ==
    /\ Attempting
    /\ MaxAttempts * (Cardinality(Gone) - Excused) + Tried <= errors["handler"]

LEMMA GoneFinite ==
  /\ IsFiniteSet(Gone) /\ Cardinality(Gone) \in Nat
  /\ IsFiniteSet(Gone') /\ Cardinality(Gone') \in Nat
<1>1. IsFiniteSet(Submissions)
  BY FS_Interval, SubmissionAssumption DEF Submissions
<1>2. Gone \subseteq Submissions /\ Gone' \subseteq Submissions
  BY DEF Gone
<1> QED
  BY <1>1, <1>2, FS_Subset, FS_CardinalityType

LEMMA GoneMoves ==
  /\ Gone' \subseteq Gone => Cardinality(Gone') <= Cardinality(Gone)
  /\ \A s : Gone' \subseteq Gone \cup {s} => Cardinality(Gone') <= Cardinality(Gone) + 1
<1>1. Gone' \subseteq Gone => Cardinality(Gone') <= Cardinality(Gone)
  BY GoneFinite, FS_Subset
<1>2. ASSUME NEW s, Gone' \subseteq Gone \cup {s}
      PROVE  Cardinality(Gone') <= Cardinality(Gone) + 1
  <2>1. /\ IsFiniteSet(Gone \cup {s})
        /\ Cardinality(Gone \cup {s}) \in {Cardinality(Gone), Cardinality(Gone) + 1}
    BY GoneFinite, FS_AddElement
  <2>2. Cardinality(Gone') <= Cardinality(Gone \cup {s})
    BY <1>2, <2>1, FS_Subset
  <2> QED
    BY <2>1, <2>2, GoneFinite
<1> QED
  BY <1>1, <1>2

LEMMA LossTypes ==
  ASSUME TypeOK
  PROVE  Excused \in Nat /\ errors["handler"] \in Nat /\ Tried \in Int
  BY SubmissionAssumption DEF TypeOK, Excused, Kinds, Tried

\* A step with an excuse for what it loses, and an error for what it tries.
LEMMA LossKept ==
  ASSUME TypeOK, TypeOK', LossInv, Attempting',
         Cardinality(Gone') - Excused' <= Cardinality(Gone) - Excused,
         Tried' - errors'["handler"] <= Tried - errors["handler"]
  PROVE  LossInv'
<1> DEFINE a == Cardinality(Gone) - Excused
           b == Cardinality(Gone') - Excused'
<1>1. /\ a \in Int /\ Tried \in Int /\ errors["handler"] \in Int
      /\ b \in Int /\ Tried' \in Int /\ errors'["handler"] \in Int
  <2>1. Excused \in Nat /\ errors["handler"] \in Nat /\ Tried \in Int
    BY LossTypes
  <2>2. Excused' \in Nat /\ errors'["handler"] \in Nat /\ Tried' \in Int
    BY SubmissionAssumption DEF TypeOK, Excused, Kinds, Tried
  <2> QED
    BY <2>1, <2>2, GoneFinite
<1>2. MaxAttempts * a \in Int /\ MaxAttempts * b \in Int /\ MaxAttempts * b <= MaxAttempts * a
  BY <1>1, SubmissionAssumption, TimesMonotone
<1>3. MaxAttempts * a + Tried <= errors["handler"]
  BY DEF LossInv
<1>4. MaxAttempts * b + Tried' <= errors'["handler"]
  <2> HIDE DEF a, b
  <2> QED
    BY <1>1, <1>2, <1>3
<1> QED
  BY <1>4 DEF LossInv

\* A step that loses nothing.
LEMMA NothingLost ==
  ASSUME TypeOK, TypeOK', LossInv, Gone' \subseteq Gone,
         UNCHANGED sched, UNCHANGED errors \/ \E k \in Kinds \ {"handler"} : Error(k)
  PROVE  LossInv'
<1>1. Excused' >= Excused /\ errors'["handler"] = errors["handler"]
  <2>1. CASE UNCHANGED errors
    BY <2>1, LossTypes DEF Excused
  <2>2. ASSUME NEW k \in Kinds \ {"handler"}, Error(k)
        PROVE  Excused' >= Excused /\ errors'["handler"] = errors["handler"]
    <3>1. \A i \in Kinds : errors[i] \in Nat /\ errors'[i] \in {errors[i], errors[i] + 1}
      BY <2>2, OneError DEF TypeOK
    <3>2. errors'["handler"] = errors["handler"]
      BY <2>2, OneError DEF Kinds
    <3> QED
      BY <3>1, <3>2 DEF Excused, Kinds
  <2> QED
    BY <2>1, <2>2
<1>2. Tried' = Tried /\ Attempting'
  BY DEF Tried, LossInv, Attempting
<1>3. Cardinality(Gone') <= Cardinality(Gone)
  BY GoneMoves
<1>4. Excused \in Nat /\ Excused' \in Nat /\ Tried \in Int /\ errors["handler"] \in Int
  <2>1. Excused' \in Nat
    BY DEF TypeOK, Excused, Kinds
  <2> QED
    BY <2>1, LossTypes
<1> QED
  BY <1>1, <1>2, <1>3, <1>4, GoneFinite, LossKept

\* A step that loses one event for an error that excuses it.
LEMMA OneExcused ==
  ASSUME TypeOK, TypeOK', LossInv, Attempting', Tried' <= Tried,
         NEW k \in {"publish", "read", "schedulerCrash"}, Error(k),
         NEW s, Gone' \subseteq Gone \cup {s}
  PROVE  LossInv'
<1>1. Excused' = Excused + 1 /\ errors'["handler"] = errors["handler"]
  <2>1. \A i \in Kinds : errors[i] \in Nat
    BY DEF TypeOK
  <2>2. /\ errors'[k] = errors[k] + 1
        /\ \A i \in Kinds \ {k} : errors'[i] = errors[i]
    BY OneError DEF Kinds
  <2> QED
    BY <2>1, <2>2 DEF Excused, Kinds
<1>2. Cardinality(Gone') <= Cardinality(Gone) + 1
  BY GoneMoves
<1>3. Tried \in Int /\ Tried' \in Int /\ Excused \in Nat /\ errors["handler"] \in Int
  <2>1. Tried' \in Int
    BY SubmissionAssumption DEF TypeOK, Tried
  <2> QED
    BY <2>1, LossTypes
<1> QED
  BY <1>1, <1>2, <1>3, GoneFinite, LossKept

\* A request of the API loses no event: the row it inserts is PENDING, and the
\* dispatcher has no row of it in hand.
LEMMA LossRequests ==
  ASSUME TypeOK, TypeOK', ChainInv, LossInv, NEW s \in Submissions,
         AllowJobSubmission(s) \/ CreateJob(s) \/ RequestError(s) \/ CancelJob(s)
  PROVE  LossInv'
<1>1. UNCHANGED <<disp, schedVars>>
  BY DEF AllowJobSubmission, CreateJob, CommitJob, IncrementRunningJobs, RequestError, CancelJob,
         dispatchVars
<1>2. UNCHANGED errors \/ \E k \in Kinds \ {"handler"} : Error(k)
  BY DEF AllowJobSubmission, CreateJob, CommitJob, IncrementRunningJobs, RequestError, CancelJob,
         Kinds
<1>3. ASSUME UNCHANGED outbox, \A r \in Submissions : jobs'[r] # "none" => jobs[r] # "none"
      PROVE  Gone' \subseteq Gone
  BY <1>1, <1>3 DEF Gone, Passed, schedVars
<1>4. ASSUME pc[s] = "allowed", InsertJobAndEvent(s)
      PROVE  Gone' \subseteq Gone
  <2>1. ~(disp.pc \in {"markDelivered", "markFailed"} /\ disp.event = s)
    BY <1>4 DEF ChainInv, NothingOf, TypeOK
  <2>2. outbox'[s] = "PENDING"
    BY <1>4 DEF InsertJobAndEvent, Put, TypeOK
  <2>3. \A r \in Submissions : r # s => jobs'[r] = jobs[r] /\ outbox'[r] = outbox[r]
    BY <1>4 DEF InsertJobAndEvent, Put, TypeOK
  <2> QED
    BY <1>1, <2>1, <2>2, <2>3 DEF Gone, Passed, schedVars
<1>5. Gone' \subseteq Gone
  <2>1. CASE AllowJobSubmission(s) \/ IncrementRunningJobs(s)
    BY <1>3, <2>1 DEF AllowJobSubmission, IncrementRunningJobs, dispatchVars
  <2>2. CASE CommitJob(s) \/ RequestError(s)
    BY <1>3, <1>4, <2>2 DEF CommitJob, RequestError, Answer
  <2>3. CASE CancelJob(s)
    BY <1>3, <2>3 DEF CancelJob, Put, TypeOK, dispatchVars
  <2> QED
    BY <2>1, <2>2, <2>3 DEF CreateJob
<1> QED
  BY <1>1, <1>2, <1>5, NothingLost DEF schedVars

\* The dispatcher loses the event whose publication fails; a mark, made or
\* not, and the cleanup lose none.
LEMMA LossDispatch ==
  ASSUME TypeOK, TypeOK', ChainInv, LossInv,
         \/ Dispatch \/ MarkError \/ CleanupDeliveredOutboxEvents
         \/ \E s \in Submissions : PublishError(s)
  PROVE  LossInv'
<1>1. ASSUME UNCHANGED <<jobs, schedVars>>,
             disp'.pc \in {"idle", "publish"}, UNCHANGED errors \/ Error("mark"),
             \A s \in Submissions : outbox'[s] # "PENDING" => Passed(s)
      PROVE  LossInv'
  <2>1. \A s \in Submissions : Passed(s)' => Passed(s)
    BY <1>1 DEF Passed
  <2>2. Gone' \subseteq Gone
    BY <1>1, <2>1 DEF Gone, schedVars
  <2> QED
    BY <1>1, <2>2, NothingLost DEF schedVars, Kinds
<1>2. CASE GetPendingOutboxEvents
  BY <1>1, <1>2 DEF GetPendingOutboxEvents, Idle, Passed, requestVars
<1>3. ASSUME NEW s \in Submissions, Publish(s) PROVE LossInv'
  <2>1. /\ disp.pc = "publish" /\ disp'.event = s
        /\ topic' = [topic EXCEPT ![s] = @ + 1]
        /\ UNCHANGED <<jobs, outbox, sched, handled, errors>>
    BY <1>3 DEF Publish, Add, TypeOK, requestVars
  <2>2. topic'[s] # 0
    BY <2>1 DEF TypeOK
  <2>3. \A r \in Submissions : r # s => topic'[r] = topic[r] /\ (Passed(r)' => Passed(r))
    BY <2>1 DEF Passed, TypeOK
  <2>4. Gone' \subseteq Gone
    BY <2>1, <2>2, <2>3 DEF Gone
  <2> QED
    BY <2>1, <2>4, NothingLost
<1>4. ASSUME NEW s \in Submissions, PublishError(s) PROVE LossInv'
  <2>1. /\ disp.pc = "publish" /\ disp'.event = s /\ Error("publish")
        /\ UNCHANGED <<jobs, outbox, sched, handled>>
    BY <1>4 DEF PublishError, TypeOK, requestVars
  <2>2. \E n \in {0, 1, 2} : topic' = [topic EXCEPT ![s] = @ + n]
    BY <1>4, PublishSteps
  <2>3. \A r \in Submissions : r # s => topic'[r] = topic[r] /\ (Passed(r)' => Passed(r))
    BY <2>1, <2>2 DEF Passed, TypeOK
  <2>4. Gone' \subseteq Gone \cup {s}
    BY <2>1, <2>3 DEF Gone
  <2>5. Tried' <= Tried /\ Attempting'
    BY <2>1, LossTypes DEF Tried, LossInv, Attempting
  <2> QED
    BY <2>1, <2>4, <2>5, OneExcused
<1>5. ASSUME NextRow PROVE disp'.pc \in {"idle", "publish"}
  BY <1>5 DEF NextRow, Idle
<1>6. CASE MarkOutboxDelivered \/ MarkOutboxFailed
  <2>1. /\ disp'.pc \in {"idle", "publish"} /\ Passed(disp.event)
        /\ UNCHANGED <<jobs, schedVars, errors>>
    BY <1>5, <1>6 DEF MarkOutboxDelivered, MarkOutboxFailed, Passed, requestVars
  <2>2. \A s \in Submissions : s # disp.event => outbox'[s] = outbox[s]
    BY <1>6 DEF MarkOutboxDelivered, MarkOutboxFailed, Put, TypeOK
  <2>3. \A s \in Submissions : outbox'[s] # "PENDING" => Passed(s)
    BY <2>1, <2>2 DEF Passed
  <2> QED
    BY <1>1, <2>1, <2>3
<1>7. CASE MarkError
  <2>1. disp'.pc \in {"idle", "publish"}
    BY <1>5, <1>7 DEF MarkError
  <2> QED
    BY <1>1, <1>7, <2>1 DEF MarkError, Passed, requestVars
<1>8. CASE CleanupDeliveredOutboxEvents
  <2>1. \A s \in Submissions : outbox'[s] # "PENDING" => outbox[s] # "PENDING"
    BY <1>8 DEF CleanupDeliveredOutboxEvents, TypeOK
  <2>2. UNCHANGED <<jobs, disp, schedVars, errors>>
    BY <1>8 DEF CleanupDeliveredOutboxEvents, requestVars
  <2>3. Gone' \subseteq Gone
    BY <2>1, <2>2 DEF Gone, Passed, schedVars
  <2> QED
    BY <2>2, <2>3, NothingLost DEF schedVars
<1> QED
  BY <1>2, <1>3, <1>4, <1>6, <1>7, <1>8 DEF Dispatch

\* The scheduler loses the event in hand when it stops or has failed for the
\* last time, and perhaps the one whose offset it could not commit.
LEMMA LossSchedule ==
  ASSUME TypeOK, TypeOK', ChainInv, LossInv,
         \/ Schedule \/ HandlerError \/ SchedulerCrash
         \/ \E s \in Submissions : ReadError(s)
  PROVE  LossInv'
<1>1. ASSUME NEW s \in Submissions, ReadSubmitted(s) PROVE LossInv'
  <2>1. /\ sched.job = NoOne /\ sched'.job = s /\ sched'.attempt = 1
        /\ topic' = [topic EXCEPT ![s] = @ + -1]
        /\ UNCHANGED <<jobs, dispatchVars, handled, errors>>
    BY <1>1 DEF ReadSubmitted, Read, Add, Waiting, requestVars
  <2>2. Tried = 0 /\ Tried' = 0 /\ Attempting'
    BY <2>1 DEF Tried, Attempting, NoOne, Submissions
  <2>3. Gone' \subseteq Gone
    <3>1. \A r \in Submissions : r # s => topic'[r] = topic[r] /\ sched.job # r
      BY <2>1 DEF TypeOK, NoOne, Submissions
    <3> QED
      BY <2>1, <3>1 DEF Gone, Passed, dispatchVars
  <2>4. Cardinality(Gone') <= Cardinality(Gone) /\ Excused' = Excused
    BY <2>1, <2>3, GoneMoves DEF Excused
  <2> QED
    BY <2>1, <2>2, <2>4, LossKept, LossTypes, GoneFinite
<1>2. CASE HandleJobSubmitted
  <2>1. PICK s \in Submissions :
           /\ sched.job = s /\ sched' = Waiting /\ handled'[s] # 0
           /\ \A r \in Submissions : r # s => handled'[r] = handled[r] /\ jobs'[r] = jobs[r]
           /\ UNCHANGED <<topic, dispatchVars, errors>>
    BY <1>2 DEF HandleJobSubmitted, Put, Add, TypeOK
  <2>2. Tried' = 0 /\ Tried >= 0 /\ Attempting'
    BY <2>1, SubmissionAssumption
    DEF Tried, LossInv, Attempting, Waiting, TypeOK, NoOne, Submissions
  <2>3. Gone' \subseteq Gone
    BY <2>1 DEF Gone, Passed, dispatchVars
  <2>4. Cardinality(Gone') <= Cardinality(Gone) /\ Excused' = Excused
    BY <2>1, <2>3, GoneMoves DEF Excused
  <2> QED
    BY <2>1, <2>2, <2>4, LossKept, LossTypes, GoneFinite
<1>3. CASE HandlerError
  <2>1. PICK s \in Submissions :
           /\ sched.job = s /\ sched' = Retry(sched)
           /\ \A r \in Submissions : r # s => jobs'[r] = jobs[r]
           /\ UNCHANGED <<topic, handled, dispatchVars>>
    BY <1>3 DEF HandlerError, HandledInPart, Put, TypeOK
  <2>2. /\ errors'["handler"] = errors["handler"] + 1 /\ Excused' = Excused
        /\ errors["handler"] \in Nat /\ Excused \in Nat
    BY <1>3, OneError, LossTypes DEF HandlerError, Kinds, Excused
  <2>3. sched.attempt \in Nat /\ sched.attempt >= 1 /\ sched.attempt <= MaxAttempts
    BY <2>1, SubmissionAssumption DEF LossInv, Attempting, TypeOK, NoOne, Submissions
  <2>4. Tried = sched.attempt - 1
    BY <2>1 DEF Tried, NoOne, Submissions
  <2>5. CASE sched.attempt < MaxAttempts
    <3>1. sched' = [sched EXCEPT !.attempt = @ + 1]
      BY <2>1, <2>5 DEF Retry
    <3>2. sched'.job = s /\ sched'.attempt = sched.attempt + 1
      BY <2>1, <3>1 DEF TypeOK
    <3>3. Gone' \subseteq Gone
      BY <2>1, <3>2 DEF Gone, Passed, dispatchVars
    <3>4. Tried' = Tried + 1 /\ Attempting'
      BY <2>3, <2>4, <3>2 DEF Tried, Attempting, NoOne, Submissions
    <3> QED
      BY <2>2, <2>3, <2>4, <3>3, <3>4, GoneMoves, GoneFinite, LossKept
  <2>6. CASE sched.attempt = MaxAttempts
    <3>1. sched' = Waiting
      BY <2>1, <2>3, <2>6, SubmissionAssumption DEF Retry
    <3>2. Gone' \subseteq Gone \cup {s}
      BY <2>1, <3>1 DEF Gone, Passed, dispatchVars, Waiting, NoOne, Submissions
    <3>3. Tried' = 0 /\ Attempting'
      BY <3>1 DEF Tried, Attempting, Waiting
    <3> DEFINE a == Cardinality(Gone) - Excused
               b == Cardinality(Gone') - Excused'
    <3>4. a \in Int /\ b \in Int /\ b <= a + 1
      BY <2>2, <3>2, GoneMoves, GoneFinite
    <3>5. /\ MaxAttempts * b <= MaxAttempts * (a + 1)
          /\ MaxAttempts * (a + 1) = MaxAttempts * a + MaxAttempts
          /\ MaxAttempts * a \in Int /\ MaxAttempts * b \in Int
      <4> HIDE DEF a, b
      <4>1. a + 1 \in Int /\ MaxAttempts \in Nat
        BY <3>4, SubmissionAssumption
      <4> QED
        BY <3>4, <4>1, TimesMonotone, TimesOneMore
    <3>6. MaxAttempts * a + (MaxAttempts - 1) <= errors["handler"]
      BY <2>4, <2>6 DEF LossInv
    <3>7. MaxAttempts * b + Tried' <= errors'["handler"]
      <4> HIDE DEF a, b
      <4> QED
        BY <2>2, <3>3, <3>5, <3>6, SubmissionAssumption
    <3> QED
      BY <3>3, <3>7 DEF LossInv
  <2> QED
    BY <2>3, <2>5, <2>6, SubmissionAssumption
<1>4. CASE SchedulerCrash
  <2>1. /\ sched' = Waiting /\ Error("schedulerCrash")
        /\ \A r \in Submissions : r # sched.job => jobs'[r] = jobs[r]
        /\ UNCHANGED <<topic, handled, dispatchVars>>
    BY <1>4 DEF SchedulerCrash, HandledInPart, Put, TypeOK
  <2>2. Gone' \subseteq Gone \cup {sched.job}
    BY <2>1 DEF Gone, Passed, dispatchVars
  <2>3. Tried' <= Tried /\ Attempting'
    BY <2>1, SubmissionAssumption DEF Tried, LossInv, Attempting, Waiting, TypeOK
  <2> QED
    BY <2>1, <2>2, <2>3, OneExcused
<1>5. ASSUME NEW s \in Submissions, ReadError(s) PROVE LossInv'
  <2>1. Error("read") /\ UNCHANGED <<jobs, sched, handled, dispatchVars>>
    BY <1>5 DEF ReadError, requestVars
  <2>2. \A r \in Submissions : r # s => topic'[r] = topic[r]
    BY <1>5 DEF ReadError, Add, TypeOK
  <2>3. Gone' \subseteq Gone \cup {s}
    BY <2>1, <2>2 DEF Gone, Passed, dispatchVars
  <2>4. Tried' <= Tried /\ Attempting'
    BY <2>1, LossTypes DEF Tried, LossInv, Attempting
  <2> QED
    BY <2>1, <2>3, <2>4, OneExcused
<1> QED
  BY <1>1, <1>2, <1>3, <1>4, <1>5 DEF Schedule

\* Nothing behind the handler loses an event, and no crash of the API does.
LEMMA LossRelease ==
  ASSUME TypeOK, TypeOK', ChainInv, LossInv,
         \/ Release \/ DecrementError \/ ApiCrash
         \/ \E s \in Submissions : CloseJob(s) \/ CloseJobAgain(s) \/ AnnounceError(s)
  PROVE  LossInv'
<1>1. UNCHANGED <<outbox, schedVars>>
  BY DEF Release, ReadCompleted, DecrementRunningJobs, DecrementError, ApiCrash, CloseJob,
         CloseJobAgain, AnnounceError, Announce, requestVars, dispatchVars
<1>2. UNCHANGED errors \/ \E k \in Kinds \ {"handler"} : Error(k)
  BY DEF Release, ReadCompleted, DecrementRunningJobs, DecrementError, ApiCrash, CloseJob,
         CloseJobAgain, AnnounceError, Announce, Kinds
<1>3. disp' = disp \/ disp'.pc = "idle"
  BY DEF Release, ReadCompleted, DecrementRunningJobs, DecrementError, ApiCrash, CloseJob,
         CloseJobAgain, AnnounceError, Announce, dispatchVars, Idle
<1>4. \A r \in Submissions : jobs'[r] # "none" => jobs[r] # "none"
  <2>1. UNCHANGED jobs \/ \E s \in spawned : jobs' = [jobs EXCEPT ![s] = "FINISHED"]
    BY DEF Release, ReadCompleted, DecrementRunningJobs, DecrementError, ApiCrash, CloseJob,
           CloseJobAgain, AnnounceError, Announce, Put, requestVars
  <2>2. \A s \in spawned : jobs[s] # "none"
    BY DEF ChainInv, NothingOf, TypeOK
  <2> QED
    BY <2>1, <2>2 DEF TypeOK
<1>5. Gone' \subseteq Gone
  BY <1>1, <1>3, <1>4 DEF Gone, Passed, schedVars
<1> QED
  BY <1>1, <1>2, <1>5, NothingLost DEF schedVars

\* Every lost event has a cause of its own, for any number of requests, events
\* and failures: an event is given up only by a failed publication, a failed
\* commit of its offset, a crash of the scheduler that had it in hand, or
\* MaxAttempts failures of the handler that no other event shares.  Failed
\* marks, crashes of the API, lost answers and the cleanup lose none.
THEOREM LossesAreAccounted == Spec => []LossesAccounted
<1>1. Init => LossInv
  <2> SUFFICES ASSUME Init PROVE LossInv
    OBVIOUS
  <2>1. Gone = {} /\ Excused = 0 /\ Tried = 0 /\ Attempting /\ errors["handler"] = 0
    BY DEF Init, Gone, Excused, Tried, Attempting, Waiting, Kinds
  <2>2. Cardinality(Gone) = 0
    BY <2>1, FS_EmptySet
  <2> QED
    BY <2>1, <2>2, SubmissionAssumption DEF LossInv
<1>2. TypeOK /\ TypeOK' /\ ChainInv /\ LossInv /\ [Next]_vars => LossInv'
  <2> SUFFICES ASSUME TypeOK, TypeOK', ChainInv, LossInv, [Next]_vars PROVE LossInv'
    OBVIOUS
  <2>1. CASE Next
    BY <2>1, StepGroups, LossRequests, LossDispatch, LossSchedule, LossRelease
  <2>2. CASE UNCHANGED vars
    BY <2>2 DEF vars, requestVars, dispatchVars, schedVars, LossInv, Attempting, Gone, Passed,
                Excused, Tried
  <2> QED
    BY <2>1, <2>2
<1>3. TypeOK /\ LossInv => LossesAccounted
  <2> SUFFICES ASSUME TypeOK, LossInv PROVE LossesAccounted
    OBVIOUS
  <2> DEFINE lost == {s \in Submissions : Fate[s] = "lost"}
  <2>1. lost \subseteq Gone
    BY DEF Fate, Gone, Passed, TypeOK
  <2>2. Cardinality(lost) \in Nat /\ Cardinality(lost) <= Cardinality(Gone)
    BY <2>1, GoneFinite, FS_Subset, FS_CardinalityType
  <2>3. Excused \in Nat /\ errors["handler"] \in Nat /\ Tried >= 0
    BY LossTypes, SubmissionAssumption DEF LossInv, Attempting, Tried, TypeOK
  <2> DEFINE a == Cardinality(Gone) - Excused
  <2>4. a \in Int /\ MaxAttempts * a + Tried <= errors["handler"]
    BY <2>3, GoneFinite DEF LossInv
  <2>5. a <= errors["handler"] \div MaxAttempts
    <3> HIDE DEF a
    <3>1. MaxAttempts \in Nat \ {0} /\ MaxAttempts * a \in Int /\ Tried \in Int
      BY <2>4, SubmissionAssumption, LossTypes, TimesOneMore
    <3> QED
      BY <2>3, <2>4, <3>1, TimesQuotient
  <2>6. errors["handler"] \div MaxAttempts \in Int
    BY <2>3, SubmissionAssumption
  <2> QED
    BY <2>2, <2>3, <2>5, <2>6, GoneFinite DEF LossesAccounted, Excused
<1> QED
  BY <1>1, <1>2, <1>3, SubmissionTypes, ChainInvariant, PTL DEF Spec

(***************************************************************************)
(* The counter of the rate limit.  It ought to show the jobs whose request *)
(* is through minus the completions the consumer is through with, and      *)
(* Drift says how far it is off.  First the messages, one by one.          *)
(***************************************************************************)
LEMMA MessageIn ==
  ASSUME NEW f, NEW S, NEW x
  PROVE  x \in Messages(f, S) <=> \E r \in S : \E i \in 1..f[r] : x = <<r, i>>
<1>1. x \in Messages(f, S) <=> \E r \in S : x \in {r} \X (1..f[r])
  BY DEF Messages
<1>2. \A r \in S : x \in {r} \X (1..f[r]) <=> \E i \in 1..f[r] : x = <<r, i>>
  OBVIOUS
<1> QED
  BY <1>1, <1>2

\* The messages of some jobs are finitely many if those of all are.
LEMMA MessagesFinite ==
  ASSUME NEW f, NEW S \in SUBSET Submissions, IsFiniteSet(Messages(f, Submissions))
  PROVE  IsFiniteSet(Messages(f, S)) /\ Cardinality(Messages(f, S)) \in Nat
<1>1. Messages(f, S) \subseteq Messages(f, Submissions)
  BY MessageIn
<1> QED
  BY <1>1, FS_Subset, FS_CardinalityType

\* One message more, or less.
OneMore(f, g, s) == g[s] = f[s] + 1 /\ \A r \in Submissions \ {s} : g[r] = f[r]

LEMMA MessageAdded ==
  ASSUME NEW f \in [Submissions -> Nat], NEW g \in [Submissions -> Nat],
         NEW s \in Submissions, NEW S \in SUBSET Submissions,
         OneMore(f, g, s), IsFiniteSet(Messages(f, S))
  PROVE  /\ IsFiniteSet(Messages(g, S))
         /\ Cardinality(Messages(f, S)) \in Nat
         /\ Cardinality(Messages(g, S)) = Cardinality(Messages(f, S)) + (IF s \in S THEN 1 ELSE 0)
<1> DEFINE e == <<s, f[s] + 1>>
<1>1. /\ \A x : x \in Messages(f, S) <=> \E r \in S : \E i \in 1..f[r] : x = <<r, i>>
      /\ \A x : x \in Messages(g, S) <=> \E r \in S : \E i \in 1..g[r] : x = <<r, i>>
  BY MessageIn
<1>2. CASE s \in S
  <2>1. \A r \in S : \A i : i \in 1..g[r] <=> i \in 1..f[r] \/ (r = s /\ i = f[s] + 1)
    BY DEF OneMore
  <2>2. ASSUME NEW x PROVE x \in Messages(g, S) <=> x \in Messages(f, S) \cup {e}
    <3>1. CASE x \in Messages(g, S)
      <4>1. PICK r \in S : \E i \in 1..g[r] : x = <<r, i>>
        BY <1>1, <3>1
      <4>2. PICK i \in 1..g[r] : x = <<r, i>>
        BY <4>1
      <4> QED
        BY <1>1, <2>1, <3>1, <4>2
    <3>2. CASE x \in Messages(f, S)
      <4>1. PICK r \in S : \E i \in 1..f[r] : x = <<r, i>>
        BY <1>1, <3>2
      <4>2. PICK i \in 1..f[r] : x = <<r, i>>
        BY <4>1
      <4> QED
        BY <1>1, <2>1, <3>2, <4>2
    <3>3. CASE x = e
      <4>1. f[s] + 1 \in 1..g[s]
        BY <1>2, <2>1
      <4> QED
        BY <1>1, <1>2, <3>3, <4>1
    <3> QED
      BY <3>1, <3>2, <3>3
  <2>3. e \notin Messages(f, S)
    <3>1. f[s] + 1 \notin 1..f[s]
      OBVIOUS
    <3> QED
      BY <1>1, <3>1
  <2>4. Messages(g, S) = Messages(f, S) \cup {e}
    BY <2>2
  <2>5. Cardinality(Messages(f, S)) \in Nat
    BY FS_CardinalityType
  <2>6. /\ IsFiniteSet(Messages(g, S))
        /\ Cardinality(Messages(g, S)) = Cardinality(Messages(f, S)) + 1
    <3> HIDE DEF e
    <3> QED
      BY <2>3, <2>4, FS_AddElement
  <2> QED
    BY <1>2, <2>5, <2>6
<1>3. CASE s \notin S
  <2>1. \A r \in S : g[r] = f[r]
    BY <1>3 DEF OneMore
  <2>2. Messages(g, S) = Messages(f, S)
    BY <2>1 DEF Messages
  <2>3. Cardinality(Messages(f, S)) \in Nat
    BY FS_CardinalityType
  <2> QED
    BY <1>3, <2>2, <2>3
<1> QED
  BY <1>2, <1>3

LEMMA MessageRemoved ==
  ASSUME NEW f \in [Submissions -> Nat], NEW g \in [Submissions -> Nat],
         NEW s \in Submissions, NEW S \in SUBSET Submissions,
         OneMore(g, f, s), IsFiniteSet(Messages(f, S))
  PROVE  /\ IsFiniteSet(Messages(g, S))
         /\ Cardinality(Messages(g, S)) \in Nat
         /\ Cardinality(Messages(f, S)) = Cardinality(Messages(g, S)) + (IF s \in S THEN 1 ELSE 0)
<1>1. \A r \in S : \A i \in 1..g[r] : i \in 1..f[r]
  BY DEF OneMore
<1>2. ASSUME NEW x \in Messages(g, S) PROVE x \in Messages(f, S)
  <2>1. PICK r \in S : \E i \in 1..g[r] : x = <<r, i>>
    BY MessageIn
  <2>2. PICK i \in 1..g[r] : x = <<r, i>>
    BY <2>1
  <2> QED
    BY <1>1, <2>2, MessageIn
<1>3. IsFiniteSet(Messages(g, S))
  BY <1>2, FS_Subset
<1> QED
  BY <1>3, MessageAdded

\* Jobs without messages add none.
LEMMA MessagesSame ==
  ASSUME NEW f, NEW S, NEW T, S \subseteq T, \A r \in T \ S : f[r] = 0
  PROVE  Messages(f, T) = Messages(f, S)
<1>1. \A r \in T \ S : 1..f[r] = {}
  OBVIOUS
<1>2. ASSUME NEW x PROVE x \in Messages(f, T) <=> x \in Messages(f, S)
  BY <1>1, MessageIn
<1> QED
  BY <1>2

(***************************************************************************)
(* What exists for whom: nothing is announced or in hand of a job that is  *)
(* not committed, a request that still has to increment has its job, and   *)
(* at most MaxConcurrent requests do.  The messages are finitely many.     *)
(***************************************************************************)
Serving == {s \in Submissions : pc[s] \in InFlight}

SlotInv ==
    /\ comp.job # NoOne => comp.attempt >= 1
    /\ \A s \in Submissions : jobs[s] = "none" => announced[s] = 0 /\ done[s] = 0 /\ comp.job # s
    /\ \A s \in Submissions : pc[s] = "committed" => jobs[s] # "none"
    /\ Cardinality(Serving) <= MaxConcurrent
    /\ IsFiniteSet(Messages(announced, Submissions))
    /\ IsFiniteSet(Messages(done, Submissions))

SameJobs == \A r \in Submissions : jobs'[r] = "none" <=> jobs[r] = "none"

\* A step beside the accounts.
Aside == SameJobs /\ UNCHANGED <<request, pc, counter, closeVars>>

\* A completion that the consumer missed.
Missed(s) ==
    /\ Error("read") /\ SameJobs /\ done[s] > 0 /\ done' = Add(done, s, -1)
    /\ UNCHANGED <<request, pc, counter, announced, comp>>

LEMMA ErrorsOnlyGrow ==
  ASSUME TypeOK, [Next]_vars
  PROVE  \A k \in Kinds : errors[k] \in Nat /\ errors'[k] \in Nat /\ errors[k] <= errors'[k]
<1>1. ASSUME UNCHANGED errors \/ \E k \in Kinds : Error(k)
      PROVE  \A k \in Kinds : errors[k] \in Nat /\ errors'[k] \in Nat /\ errors[k] <= errors'[k]
  <2>1. CASE UNCHANGED errors
    BY <2>1 DEF TypeOK
  <2>2. ASSUME NEW k \in Kinds, Error(k)
        PROVE  \A i \in Kinds : errors[i] \in Nat /\ errors'[i] \in Nat /\ errors[i] <= errors'[i]
    <3>1. errors[k] \in Nat /\ errors'[k] = errors[k] + 1
      BY <2>2, OneError
    <3>2. \A i \in Kinds \ {k} : errors[i] \in Nat /\ errors'[i] = errors[i]
      BY <2>2, OneError DEF TypeOK
    <3> QED
      BY <3>1, <3>2
  <2> QED
    BY <1>1, <2>1, <2>2
<1>2. CASE Failure
  BY <1>1, <1>2 DEF Failure, MarkError, HandlerError, DecrementError, ApiCrash, SchedulerCrash,
                    RequestError, PublishError, ReadError, AnnounceError, CloseJobAgain, Kinds
<1>3. CASE \E s \in Submissions : \/ AllowJobSubmission(s) \/ CreateJob(s)
                                  \/ CancelJob(s) \/ CloseJob(s)
  BY <1>1, <1>3 DEF AllowJobSubmission, CreateJob, CommitJob, IncrementRunningJobs, CancelJob,
                    CloseJob
<1>4. CASE Dispatch \/ CleanupDeliveredOutboxEvents \/ Schedule \/ Release
  BY <1>1, <1>4 DEF Dispatch, GetPendingOutboxEvents, Publish, MarkOutboxDelivered,
                    MarkOutboxFailed, CleanupDeliveredOutboxEvents, Schedule, ReadSubmitted,
                    HandleJobSubmitted, Release, ReadCompleted, DecrementRunningJobs
<1>5. CASE UNCHANGED vars
  BY <1>1, <1>5 DEF vars
<1> QED
  BY <1>2, <1>3, <1>4, <1>5 DEF Next

\* What a step is to the accounts.
LEMMA AccountSteps ==
  ASSUME TypeOK, ChainInv, [Next]_vars
  PROVE  \/ Aside
         \/ \E s \in Submissions : AllowJobSubmission(s) \/ CreateJob(s) \/ RequestError(s)
         \/ \E s \in Submissions : Announce(s) /\ SameJobs
         \/ \E s \in Submissions : ReadCompleted(s) \/ Missed(s)
         \/ DecrementRunningJobs \/ DecrementError \/ ApiCrash
<1>1. CASE UNCHANGED vars
  BY <1>1 DEF vars, requestVars, Aside, SameJobs
<1>2. ASSUME NEW s \in Submissions, jobs[s] # "none", NEW st \in {"QUEUED", "FINISHED", "CANCELLED"},
             jobs' = [jobs EXCEPT ![s] = st] \/ UNCHANGED jobs
      PROVE  SameJobs
  BY <1>2 DEF SameJobs, TypeOK
<1>3. ASSUME NEW s \in Submissions, CancelJob(s) PROVE Aside
  BY <1>2, <1>3 DEF CancelJob, Put, Aside
<1>4. CASE HandleJobSubmitted \/ HandlerError \/ SchedulerCrash
  <2>1. sched.job \in Submissions
    BY <1>4 DEF HandleJobSubmitted, HandlerError, SchedulerCrash, TypeOK
  <2>2. jobs[sched.job] # "none"
    BY <2>1 DEF ChainInv, NothingOf
  <2> QED
    BY <1>2, <1>4, <2>1, <2>2
    DEF HandleJobSubmitted, HandlerError, SchedulerCrash, HandledInPart, Put, Aside
<1>5. ASSUME NEW s \in spawned, Announce(s) \/ AnnounceError(s) PROVE SameJobs
  <2>1. s \in Submissions /\ jobs[s] # "none"
    BY DEF ChainInv, NothingOf, TypeOK
  <2>2. jobs' = [jobs EXCEPT ![s] = "FINISHED"]
    BY <1>5 DEF Announce, AnnounceError, Put
  <2> QED
    BY <1>2, <2>1, <2>2
<1>6. ASSUME NEW s \in Submissions, CloseJob(s) \/ CloseJobAgain(s)
      PROVE  Announce(s) /\ SameJobs
  BY <1>5, <1>6 DEF CloseJob, CloseJobAgain, Announce
<1>7. ASSUME NEW s \in Submissions, AnnounceError(s) PROVE Aside
  BY <1>5, <1>7 DEF AnnounceError, Aside
<1>8. ASSUME NEW s \in Submissions, ReadError(s) PROVE Aside \/ Missed(s)
  BY <1>8 DEF ReadError, Read, Aside, Missed, SameJobs, requestVars, closeVars
<1>9. ASSUME \/ Dispatch \/ MarkError \/ CleanupDeliveredOutboxEvents
             \/ \E s \in Submissions : PublishError(s)
             \/ \E s \in Submissions : ReadSubmitted(s)
      PROVE  Aside
  BY <1>9 DEF Dispatch, GetPendingOutboxEvents, MarkOutboxDelivered, MarkOutboxFailed, Publish,
              MarkError, CleanupDeliveredOutboxEvents, PublishError, ReadSubmitted,
              requestVars, Aside, SameJobs
<1> QED
  BY <1>1, <1>3, <1>4, <1>6, <1>7, <1>8, <1>9, StepGroups DEF Schedule, Release

\* What CreateJob and its failures are to the accounts: the answer that leaves
\* the job out, the commit, and the end of a request whose job exists.
LEMMA RequestSteps ==
  ASSUME TypeOK, ChainInv, SlotInv, NEW s \in Submissions, CreateJob(s) \/ RequestError(s)
  PROVE  /\ UNCHANGED <<request, closeVars>>
         /\ pc[s] \in InFlight
         /\ \E to \in {"committed", "created", "error"} : pc' = [pc EXCEPT ![s] = to]
         /\ \A r \in Submissions : r # s => jobs'[r] = jobs[r]
         /\ jobs'[s] = "none" => jobs[s] = "none"
         /\ \/ pc[s] = "allowed" /\ jobs'[s] = "none" /\ pc'[s] # "committed" /\ UNCHANGED counter
            \/ /\ pc[s] = "allowed" /\ jobs'[s] # "none" /\ pc'[s] = "committed"
               /\ UNCHANGED counter
            \/ /\ (pc[s] = "committed" \/ jobs[s] = "none") /\ jobs'[s] # "none"
               /\ pc'[s] # "committed"
               /\ \E n \in {0, 1} : /\ counter' = [counter EXCEPT ![WorkspaceOf(s)] = @ + n]
                                    /\ n = 1 \/ Error("tx") \/ Error("redis")
<1>n. pc[s] = "allowed" => jobs[s] = "none"
  BY DEF ChainInv
<1>c. pc[s] = "committed" => jobs[s] # "none"
  BY DEF SlotInv
<1>w. WorkspaceOf(s) \in Workspaces /\ [counter EXCEPT ![WorkspaceOf(s)] = @ + 0] = counter
  BY DEF TypeOK, WorkspaceOf
<1>i. ASSUME InsertJobAndEvent(s)
      PROVE  jobs'[s] # "none" /\ \A r \in Submissions : r # s => jobs'[r] = jobs[r]
  BY <1>i DEF InsertJobAndEvent, Put, TypeOK
<1>a. ASSUME NEW from, NEW to, Answer(s, from, to)
      PROVE  pc[s] = from /\ pc' = [pc EXCEPT ![s] = to] /\ pc'[s] = to
  BY <1>a DEF Answer, Put, TypeOK
<1>1. CASE CommitJob(s)
  BY <1>1, <1>n, <1>i, <1>a DEF CommitJob, InFlight
<1>2. CASE IncrementRunningJobs(s)
  BY <1>2, <1>c, <1>a DEF IncrementRunningJobs, Add, InFlight
<1>3. CASE RequestError(s)
  <2>1. UNCHANGED <<request, closeVars>>
    BY <1>3 DEF RequestError
  <2>2. CASE Answer(s, "allowed", "error") /\ UNCHANGED <<request, jobs, outbox, counter>>
    BY <1>n, <1>a, <2>1, <2>2 DEF InFlight
  <2>3. CASE /\ Answer(s, "allowed", "error") /\ Error("tx")
             /\ InsertJobAndEvent(s) /\ UNCHANGED counter
    BY <1>n, <1>w, <1>i, <1>a, <2>1, <2>3 DEF InFlight
  <2>4. CASE /\ Answer(s, "committed", "error") /\ Error("redis")
             /\ \E n \in {0, 1} : counter' = Add(counter, WorkspaceOf(s), n)
             /\ UNCHANGED <<request, jobs, outbox>>
    <3>1. pc[s] = "committed" /\ pc' = [pc EXCEPT ![s] = "error"] /\ pc'[s] = "error"
      BY <1>a, <2>4
    <3>2. \E n \in {0, 1} : counter' = [counter EXCEPT ![WorkspaceOf(s)] = @ + n]
      BY <2>4 DEF Add
    <3>3. jobs'[s] # "none" /\ \A r \in Submissions : jobs'[r] = jobs[r]
      BY <1>c, <2>4, <3>1
    <3> QED
      BY <2>1, <2>4, <3>1, <3>2, <3>3 DEF InFlight
  <2> QED
    BY <1>3, <2>2, <2>3, <2>4 DEF RequestError
<1> QED
  BY <1>1, <1>2, <1>3 DEF CreateJob

\* What a message more or less is to the accounts.
LEMMA AddsOne ==
  ASSUME NEW f \in [Submissions -> Nat], NEW s \in Submissions
  PROVE  /\ Add(f, s, 1) \in [Submissions -> Nat] /\ OneMore(f, Add(f, s, 1), s)
         /\ f[s] > 0 => Add(f, s, -1) \in [Submissions -> Nat] /\ OneMore(Add(f, s, -1), f, s)
  BY DEF Add, OneMore

LEMMA ServingFinite ==
  /\ IsFiniteSet(Serving) /\ Cardinality(Serving) \in Nat
  /\ \A S : S \subseteq Serving => Cardinality(S) \in Nat /\ Cardinality(S) <= Cardinality(Serving)
<1>1. IsFiniteSet(Submissions)
  BY FS_Interval, SubmissionAssumption DEF Submissions
<1>2. Serving \subseteq Submissions
  BY DEF Serving
<1> QED
  BY <1>1, <1>2, FS_Subset, FS_CardinalityType

LEMMA SlotInit == Init => SlotInv
<1> SUFFICES ASSUME Init PROVE SlotInv
  OBVIOUS
<1>1. Serving = {} /\ Cardinality({}) = 0 /\ IsFiniteSet({})
  BY FS_EmptySet DEF Init, Serving, InFlight
<1>2. Messages([s \in Submissions |-> 0], Submissions) = {}
  BY DEF Messages
<1> QED
  <2>1. announced = [s \in Submissions |-> 0] /\ done = [s \in Submissions |-> 0]
    BY DEF Init
  <2>2. /\ IsFiniteSet(Messages(announced, Submissions)) /\ IsFiniteSet(Messages(done, Submissions))
        /\ Cardinality(Serving) <= MaxConcurrent
    BY <1>1, <1>2, <2>1, SubmissionAssumption
  <2> QED
    BY <2>1, <2>2 DEF Init, SlotInv, Waiting, NoOne, Submissions

LEMMA SlotStep ==
  ASSUME TypeOK, TypeOK', ChainInv, SlotInv, [Next]_vars
  PROVE  SlotInv'
<1>1. CASE Aside
  <2>1. Serving' = Serving
    BY <1>1 DEF Aside, Serving
  <2> QED
    BY <1>1, <2>1 DEF Aside, SameJobs, SlotInv, closeVars
<1>2. ASSUME NEW s \in Submissions, AllowJobSubmission(s) PROVE SlotInv'
  <2>1. /\ Cardinality(Serving) < MaxConcurrent /\ pc[s] = "new"
        /\ pc' = [pc EXCEPT ![s] = pc'[s]] /\ pc'[s] \in {"refused", "allowed"}
        /\ UNCHANGED <<jobs, closeVars>>
    BY <1>2 DEF AllowJobSubmission, Answer, Put, Serving, TypeOK
  <2>2. Serving' \subseteq Serving \cup {s}
    BY <2>1 DEF Serving, TypeOK
  <2>3. /\ IsFiniteSet(Serving \cup {s})
        /\ Cardinality(Serving \cup {s}) <= Cardinality(Serving) + 1
        /\ Cardinality(Serving \cup {s}) \in Nat
    <3>1. IsFiniteSet(Serving \cup {s})
      BY ServingFinite, FS_AddElement
    <3>2. Cardinality(Serving \cup {s}) \in {Cardinality(Serving), Cardinality(Serving) + 1}
      BY ServingFinite, FS_AddElement
    <3> QED
      BY <3>1, <3>2, ServingFinite
  <2>4. Cardinality(Serving') <= Cardinality(Serving \cup {s}) /\ Cardinality(Serving') \in Nat
    BY <2>2, <2>3, FS_Subset, FS_CardinalityType
  <2>5. Cardinality(Serving') <= MaxConcurrent
    BY <2>1, <2>3, <2>4, ServingFinite, SubmissionAssumption
  <2>6. \A r \in Submissions : pc'[r] = "committed" => pc[r] = "committed"
    BY <2>1 DEF TypeOK
  <2> QED
    BY <2>1, <2>5, <2>6 DEF SlotInv, closeVars
<1>3. ASSUME NEW s \in Submissions, CreateJob(s) \/ RequestError(s) PROVE SlotInv'
  <2>1. /\ UNCHANGED closeVars /\ pc[s] \in InFlight
        /\ \E to \in {"committed", "created", "error"} : pc' = [pc EXCEPT ![s] = to]
        /\ \A r \in Submissions : r # s => jobs'[r] = jobs[r]
        /\ jobs'[s] = "none" => jobs[s] = "none" /\ pc'[s] # "committed"
    BY <1>3, RequestSteps
  <2>2. Serving' \subseteq Serving
    BY <2>1 DEF Serving, InFlight, TypeOK
  <2>3. Cardinality(Serving') <= Cardinality(Serving)
    BY <2>2, ServingFinite
  <2>4. Cardinality(Serving') <= MaxConcurrent
    BY <2>2, <2>3, ServingFinite, SubmissionAssumption DEF SlotInv
  <2>5. \A r \in Submissions : r # s => pc'[r] = pc[r]
    BY <2>1 DEF TypeOK
  <2> QED
    BY <2>1, <2>4, <2>5 DEF SlotInv, closeVars
<1>4. ASSUME UNCHANGED pc, SameJobs,
             \A r \in Submissions : jobs[r] = "none" =>
                 announced'[r] = announced[r] /\ done'[r] = done[r] /\ comp'.job # r,
             comp'.job # NoOne => comp'.attempt >= 1,
             IsFiniteSet(Messages(announced', Submissions)),
             IsFiniteSet(Messages(done', Submissions))
      PROVE  SlotInv'
  <2>1. Serving' = Serving
    BY <1>4 DEF Serving
  <2> QED
    BY <1>4, <2>1 DEF SlotInv, SameJobs
<1>5. ASSUME NEW s \in Submissions, Announce(s), SameJobs PROVE SlotInv'
  <2>1. /\ announced' = Add(announced, s, 1) /\ done' = Add(done, s, 1)
        /\ UNCHANGED <<pc, comp>> /\ jobs[s] # "none"
    BY <1>5 DEF Announce, ChainInv, NothingOf
  <2>2. \A r \in Submissions : r # s => announced'[r] = announced[r] /\ done'[r] = done[r]
    BY <2>1 DEF Add, TypeOK
  <2>3. /\ IsFiniteSet(Messages(announced', Submissions))
        /\ IsFiniteSet(Messages(done', Submissions))
    <3>1. /\ announced \in [Submissions -> Nat] /\ announced' \in [Submissions -> Nat]
          /\ done \in [Submissions -> Nat] /\ done' \in [Submissions -> Nat]
      BY DEF TypeOK
    <3>2. OneMore(announced, announced', s) /\ OneMore(done, done', s)
      BY <2>1, <3>1, AddsOne
    <3>3. /\ IsFiniteSet(Messages(announced, Submissions))
          /\ IsFiniteSet(Messages(done, Submissions))
      BY DEF SlotInv
    <3> QED
      BY <3>1, <3>2, <3>3, MessageAdded
  <2> QED
    BY <1>4, <1>5, <2>1, <2>2, <2>3 DEF SlotInv
<1>6. ASSUME NEW s \in Submissions, ReadCompleted(s) \/ Missed(s) PROVE SlotInv'
  <2>1. /\ done[s] > 0 /\ done' = Add(done, s, -1) /\ UNCHANGED <<pc, announced>> /\ SameJobs
        /\ comp' = [job |-> s, attempt |-> 1] \/ comp' = comp
    BY <1>6 DEF ReadCompleted, Read, Missed, SameJobs, requestVars
  <2>2. \A r \in Submissions : r # s => done'[r] = done[r]
    BY <2>1 DEF Add, TypeOK
  <2>3. jobs[s] # "none"
    BY <2>1 DEF SlotInv
  <2>4. IsFiniteSet(Messages(done', Submissions))
    <3>1. done \in [Submissions -> Nat] /\ done' \in [Submissions -> Nat]
      BY DEF TypeOK
    <3>2. OneMore(done', done, s)
      BY <2>1, <3>1, AddsOne
    <3>3. IsFiniteSet(Messages(done, Submissions))
      BY DEF SlotInv
    <3> QED
      BY <3>1, <3>2, <3>3, MessageRemoved
  <2> QED
    BY <1>4, <2>1, <2>2, <2>3, <2>4 DEF SlotInv
<1>7. CASE DecrementRunningJobs \/ DecrementError
  <2>1. /\ UNCHANGED <<pc, announced, done>> /\ SameJobs
        /\ comp.job # NoOne /\ comp' \in {Waiting, Retry(comp)}
    BY <1>7 DEF DecrementRunningJobs, DecrementError, SameJobs, requestVars
  <2>2. comp' = Waiting \/ (comp'.job = comp.job /\ comp'.attempt = comp.attempt + 1)
    BY <2>1 DEF Retry, TypeOK
  <2>3. comp.attempt >= 1 /\ comp.attempt \in Int
    BY <2>1, SubmissionAssumption DEF SlotInv, TypeOK
  <2> QED
    BY <1>4, <2>1, <2>2, <2>3 DEF SlotInv, Waiting, NoOne, Submissions
<1>8. CASE ApiCrash
  <2>1. /\ pc' = [s \in Submissions |-> IF pc[s] \in InFlight THEN "gone" ELSE pc[s]]
        /\ comp' = Waiting /\ UNCHANGED <<jobs, announced, done>>
    BY <1>8 DEF ApiCrash
  <2>2. Serving' \subseteq Serving /\ \A s \in Submissions : pc'[s] # "committed"
    BY <2>1 DEF Serving, InFlight, TypeOK
  <2>3. Cardinality(Serving') \in Nat /\ Cardinality(Serving') <= Cardinality(Serving)
    BY <2>2, ServingFinite
  <2>4. Cardinality(Serving') <= MaxConcurrent
    BY <2>3, ServingFinite, SubmissionAssumption DEF SlotInv
  <2> QED
    BY <2>1, <2>2, <2>4 DEF SlotInv, Waiting, NoOne, Submissions
<1> QED
  BY <1>1, <1>2, <1>3, <1>5, <1>6, <1>7, <1>8, AccountSteps

LEMMA SlotInvariant == Spec => []SlotInv
<1>1. TypeOK /\ TypeOK' /\ ChainInv /\ SlotInv /\ [Next]_vars => SlotInv'
  BY SlotStep
<1> QED
  BY <1>1, SlotInit, SubmissionTypes, ChainInvariant, PTL DEF Spec

(***************************************************************************)
(* How far the counter is off.  The error that shifts it is booked when it *)
(* happens, and the failed decrements of the message in hand are kept      *)
(* apart until there are MaxAttempts of them.                              *)
(***************************************************************************)
Hand(w) == {s \in In(w) : comp.job = s}

Announced(w) == Messages(announced, In(w))
Unread(w)    == Messages(done, In(w))

Parts(w) ==
    /\ counter[w] \in Int
    /\ IsFiniteSet(Taken(w)) /\ Cardinality(Taken(w)) \in Nat
    /\ IsFiniteSet(Announced(w)) /\ Cardinality(Announced(w)) \in Nat
    /\ IsFiniteSet(Unread(w)) /\ Cardinality(Unread(w)) \in Nat
    /\ IsFiniteSet(Hand(w)) /\ Cardinality(Hand(w)) \in Nat
    /\ Drift(w) = counter[w] - Cardinality(Taken(w)) + Cardinality(Announced(w))
                    - Cardinality(Unread(w)) - Cardinality(Hand(w))

LEMMA DriftParts == TypeOK /\ SlotInv => \A w \in Workspaces : Parts(w)
<1> SUFFICES ASSUME TypeOK, SlotInv, NEW w \in Workspaces PROVE Parts(w)
  OBVIOUS
<1>1. IsFiniteSet(Submissions)
  BY FS_Interval, SubmissionAssumption DEF Submissions
<1>2. In(w) \subseteq Submissions /\ Taken(w) \subseteq Submissions /\ Hand(w) \subseteq Submissions
  BY DEF In, Taken, Hand
<1>3. /\ IsFiniteSet(Taken(w)) /\ Cardinality(Taken(w)) \in Nat
      /\ IsFiniteSet(Hand(w)) /\ Cardinality(Hand(w)) \in Nat
  BY <1>1, <1>2, FS_Subset, FS_CardinalityType
<1>4. /\ IsFiniteSet(Announced(w)) /\ Cardinality(Announced(w)) \in Nat
      /\ IsFiniteSet(Unread(w)) /\ Cardinality(Unread(w)) \in Nat
  BY <1>2, MessagesFinite DEF SlotInv, Announced, Unread
<1>5. counter[w] \in Int
  BY DEF TypeOK
<1>6. Drift(w) = counter[w] - (Cardinality(Taken(w)) - (Cardinality(Announced(w))
                   - Cardinality(Unread(w)) - Cardinality(Hand(w))))
  BY DEF Drift, Given, Announced, Unread, Hand
<1> QED
  BY <1>3, <1>4, <1>5, <1>6 DEF Parts

LEMMA DriftPartsNext == (TypeOK /\ SlotInv => \A w \in Workspaces : Parts(w))'
  BY DriftParts, PTL

Tries == IF comp.job = NoOne THEN 0 ELSE comp.attempt - 1

Missing   == errors["apiCrash"] + errors["read"]
Forgotten == errors["tx"] + errors["redis"] + errors["release"]
               + MaxConcurrent * errors["apiCrash"]

DriftBounds(w) ==
    /\ MaxAttempts * (Drift(w) - Missing) + Tries <= errors["release"]
    /\ -Drift(w) <= Forgotten

LEMMA DriftTypes ==
  TypeOK => /\ Missing \in Nat /\ Forgotten \in Nat /\ Tries \in Int
            /\ errors["release"] \in Nat
<1> SUFFICES ASSUME TypeOK
             PROVE  /\ Missing \in Nat /\ Forgotten \in Nat /\ Tries \in Int
                    /\ errors["release"] \in Nat
  OBVIOUS
<1>1. \A k \in {"apiCrash", "read", "tx", "redis", "release"} : errors[k] \in Nat
  BY DEF TypeOK, Kinds
<1>2. MaxConcurrent * errors["apiCrash"] \in Nat
  BY <1>1, SubmissionAssumption
<1>3. Missing \in Nat /\ Forgotten \in Nat /\ errors["release"] \in Nat
  BY <1>1, <1>2 DEF Missing, Forgotten
<1>4. Tries \in Int
  BY SubmissionAssumption DEF Tries, TypeOK
<1> QED
  BY <1>3, <1>4

LEMMA DriftTypesNext ==
  (TypeOK => /\ Missing \in Nat /\ Forgotten \in Nat /\ Tries \in Int
             /\ errors["release"] \in Nat)'
  BY DriftTypes, PTL

\* A step with an error for what it shifts and for what it tries.
LEMMA DriftKept ==
  ASSUME TypeOK, TypeOK', SlotInv, SlotInv', NEW w \in Workspaces, DriftBounds(w),
         Drift(w)' - Missing' <= Drift(w) - Missing,
         Tries' - errors'["release"] <= Tries - errors["release"],
         -Drift(w)' - Forgotten' <= -Drift(w) - Forgotten
  PROVE  DriftBounds(w)'
<1> DEFINE a == Drift(w) - Missing
           b == Drift(w)' - Missing'
<1>1. Drift(w) \in Int /\ Drift(w)' \in Int
  <2>1. Parts(w) /\ Parts(w)'
    BY DriftParts, DriftPartsNext
  <2> QED
    BY <2>1 DEF Parts
<1>2. /\ Missing \in Nat /\ Forgotten \in Nat /\ Tries \in Int /\ errors["release"] \in Nat
      /\ Missing' \in Nat /\ Forgotten' \in Nat /\ Tries' \in Int /\ errors'["release"] \in Nat
  BY DriftTypes, DriftTypesNext
<1>3. a \in Int /\ b \in Int /\ b <= a
  BY <1>1, <1>2
<1>4. MaxAttempts * a \in Int /\ MaxAttempts * b \in Int /\ MaxAttempts * b <= MaxAttempts * a
  <2> HIDE DEF a, b
  <2> QED
    BY <1>3, SubmissionAssumption, TimesMonotone
<1>5. MaxAttempts * a + Tries <= errors["release"]
  BY DEF DriftBounds
<1>6. MaxAttempts * b + Tries' <= errors'["release"]
  <2> HIDE DEF a, b
  <2> QED
    BY <1>2, <1>4, <1>5
<1>7. -Drift(w)' <= Forgotten'
  BY <1>1, <1>2 DEF DriftBounds
<1> QED
  BY <1>6, <1>7 DEF DriftBounds

\* Errors grow, and with them what they excuse.
LEMMA AccountsGrow ==
  ASSUME TypeOK, TypeOK', [Next]_vars
  PROVE  /\ Missing <= Missing' /\ errors["release"] <= errors'["release"]
         /\ Forgotten <= Forgotten'
<1>1. \A k \in {"apiCrash", "read", "tx", "redis", "release"} :
         errors[k] \in Nat /\ errors'[k] \in Nat /\ errors[k] <= errors'[k]
  BY ErrorsOnlyGrow DEF Kinds
<1>2. /\ MaxConcurrent * errors["apiCrash"] \in Int /\ MaxConcurrent * errors'["apiCrash"] \in Int
      /\ MaxConcurrent * errors["apiCrash"] <= MaxConcurrent * errors'["apiCrash"]
  BY <1>1, SubmissionAssumption, TimesMonotone
<1> QED
  BY <1>1, <1>2 DEF Missing, Forgotten

\* A step that shifts nothing.
LEMMA DriftSame ==
  ASSUME TypeOK, TypeOK', SlotInv, SlotInv', [Next]_vars,
         NEW w \in Workspaces, DriftBounds(w), Drift(w)' = Drift(w), Tries' <= Tries
  PROVE  DriftBounds(w)'
<1>1. Drift(w) \in Int
  BY DriftParts DEF Parts
<1>2. /\ Missing \in Nat /\ Forgotten \in Nat /\ Tries \in Int /\ errors["release"] \in Nat
      /\ Missing' \in Nat /\ Forgotten' \in Nat /\ Tries' \in Int /\ errors'["release"] \in Nat
  BY DriftTypes, DriftTypesNext
<1> QED
  BY <1>1, <1>2, AccountsGrow, DriftKept

\* Beside the accounts, and at the check: the request that enters has no job.
LEMMA DriftAside ==
  ASSUME TypeOK, TypeOK', ChainInv, SlotInv, SlotInv', [Next]_vars,
         Aside \/ \E s \in Submissions : AllowJobSubmission(s),
         NEW w \in Workspaces, DriftBounds(w)
  PROVE  DriftBounds(w)'
<1>1. Parts(w) /\ Parts(w)'
  BY DriftParts, DriftPartsNext
<1>2. ASSUME Tries' = Tries, counter'[w] = counter[w], Taken(w)' = Taken(w), Hand(w)' = Hand(w),
             Announced(w)' = Announced(w), Unread(w)' = Unread(w)
      PROVE  DriftBounds(w)'
  <2>1. Drift(w)' = Drift(w)
    BY <1>1, <1>2 DEF Parts
  <2> QED
    BY <1>2, <2>1, DriftTypes, DriftSame
<1>3. CASE Aside
  <2>1. In(w)' = In(w)
    BY <1>3 DEF Aside, In, WorkspaceOf
  <2>2. Taken(w)' = Taken(w) /\ Hand(w)' = Hand(w) /\ Tries' = Tries
    BY <1>3, <2>1 DEF Aside, SameJobs, Taken, Hand, Tries, In, closeVars
  <2>3. Announced(w)' = Announced(w) /\ Unread(w)' = Unread(w) /\ counter'[w] = counter[w]
    BY <1>3, <2>1 DEF Aside, Announced, Unread, closeVars
  <2> QED
    BY <1>2, <2>2, <2>3
<1>4. ASSUME NEW s \in Submissions, AllowJobSubmission(s) PROVE DriftBounds(w)'
  <2>1. /\ pc[s] = "new" /\ pc' = [pc EXCEPT ![s] = pc'[s]] /\ pc'[s] \in {"refused", "allowed"}
        /\ UNCHANGED <<request, jobs, closeVars, counter>>
    BY <1>4 DEF AllowJobSubmission, Answer, Put, TypeOK
  <2>2. In(w) \subseteq In(w)' /\ In(w)' \subseteq In(w) \cup {s}
    BY <2>1 DEF In, WorkspaceOf, TypeOK
  <2>3. jobs[s] = "none" /\ announced[s] = 0 /\ done[s] = 0 /\ comp.job # s
    BY <2>1 DEF ChainInv, SlotInv
  <2>4. Hand(w)' = Hand(w) /\ Tries' = Tries /\ counter'[w] = counter[w]
    BY <2>1, <2>2, <2>3 DEF Hand, Tries, closeVars
  <2>5. Taken(w)' = Taken(w)
    <3>1. \A r \in Submissions : r # s => pc'[r] = pc[r]
      BY <2>1 DEF TypeOK
    <3> QED
      BY <2>1, <2>2, <2>3, <3>1 DEF Taken, In
  <2>6. Announced(w)' = Announced(w) /\ Unread(w)' = Unread(w)
    <3>1. \A r \in In(w)' \ In(w) : announced[r] = 0 /\ done[r] = 0
      BY <2>2, <2>3
    <3>2. /\ Messages(announced, In(w)') = Messages(announced, In(w))
          /\ Messages(done, In(w)') = Messages(done, In(w))
      BY <2>2, <3>1, MessagesSame
    <3> QED
      BY <2>1, <3>2 DEF Announced, Unread, closeVars
  <2> QED
    BY <1>2, <2>4, <2>5, <2>6
<1> QED
  BY <1>3, <1>4

\* A request that is through is counted, or its failure was.
LEMMA DriftRequests ==
  ASSUME TypeOK, TypeOK', ChainInv, SlotInv, SlotInv', [Next]_vars,
         NEW s \in Submissions, CreateJob(s) \/ RequestError(s),
         NEW w \in Workspaces, DriftBounds(w)
  PROVE  DriftBounds(w)'
<1>1. Parts(w) /\ Parts(w)'
  BY DriftParts, DriftPartsNext
<1>2. /\ UNCHANGED <<request, closeVars>> /\ pc[s] \in InFlight
      /\ \E to \in {"committed", "created", "error"} : pc' = [pc EXCEPT ![s] = to]
      /\ \A r \in Submissions : r # s => jobs'[r] = jobs[r]
  BY RequestSteps
<1>3. In(w)' = In(w) /\ \A r \in Submissions : r # s => pc'[r] = pc[r]
  BY <1>2 DEF In, WorkspaceOf, InFlight, TypeOK
<1>4. /\ Announced(w)' = Announced(w) /\ Unread(w)' = Unread(w)
      /\ Hand(w)' = Hand(w) /\ Tries' = Tries
  BY <1>2, <1>3 DEF Announced, Unread, Hand, Tries, closeVars
<1>5. ASSUME Taken(w)' = Taken(w), counter'[w] = counter[w] PROVE DriftBounds(w)'
  <2>1. Drift(w)' = Drift(w)
    BY <1>1, <1>4, <1>5 DEF Parts
  <2> QED
    BY <1>4, <2>1, DriftTypes, DriftSame
<1>6. CASE /\ pc[s] = "allowed" /\ UNCHANGED counter
           /\ jobs'[s] = "none" \/ pc'[s] = "committed"
  <2>1. jobs[s] = "none"
    BY <1>6 DEF ChainInv
  <2>2. Taken(w)' = Taken(w)
    BY <1>2, <1>3, <1>6, <2>1 DEF Taken, In
  <2> QED
    BY <1>5, <1>6, <2>2
<1>7. ASSUME pc[s] = "committed" \/ jobs[s] = "none", jobs'[s] # "none", pc'[s] # "committed",
             NEW n \in {0, 1}, counter' = [counter EXCEPT ![WorkspaceOf(s)] = @ + n],
             n = 1 \/ Error("tx") \/ Error("redis")
      PROVE  DriftBounds(w)'
  <2>1. CASE WorkspaceOf(s) # w
    <3>1. s \notin In(w)
      BY <2>1 DEF In
    <3>2. Taken(w)' = Taken(w)
      BY <1>2, <1>3, <3>1 DEF Taken, In
    <3>3. counter'[w] = counter[w]
      BY <1>7, <2>1 DEF TypeOK
    <3> QED
      BY <1>5, <3>2, <3>3
  <2>2. CASE WorkspaceOf(s) = w
    <3>1. s \in In(w) /\ s \notin Taken(w)
      BY <1>2, <1>7, <2>2 DEF In, Taken, InFlight
    <3>2. Taken(w)' = Taken(w) \cup {s}
      BY <1>2, <1>3, <1>7, <3>1 DEF Taken, In
    <3>3. Cardinality(Taken(w)') = Cardinality(Taken(w)) + 1
      BY <1>1, <3>1, <3>2, FS_AddElement DEF Parts
    <3>4. counter'[w] = counter[w] + n
      BY <1>7, <2>2 DEF TypeOK
    <3>5. Drift(w)' = Drift(w) - (1 - n) /\ Drift(w) \in Int
      BY <1>1, <1>4, <3>3, <3>4 DEF Parts
    <3>6. /\ Missing \in Nat /\ Missing' \in Nat /\ Missing <= Missing'
          /\ errors["release"] \in Nat /\ errors'["release"] \in Nat
          /\ errors["release"] <= errors'["release"] /\ Tries \in Int
      BY AccountsGrow, DriftTypes, DriftTypesNext
    <3>7. Forgotten \in Nat /\ Forgotten' \in Nat /\ Forgotten' >= Forgotten + (1 - n)
      <4>1. CASE n = 1
        BY <4>1, AccountsGrow, DriftTypes, DriftTypesNext
      <4>2. CASE Error("tx") \/ Error("redis")
        <5>1. \A k \in {"tx", "redis", "release", "apiCrash"} : errors[k] \in Nat
          BY DEF TypeOK, Kinds
        <5>2. /\ errors'["tx"] + errors'["redis"] = errors["tx"] + errors["redis"] + 1
              /\ errors'["release"] = errors["release"] /\ errors'["apiCrash"] = errors["apiCrash"]
          BY <4>2, <5>1, OneError DEF Kinds
        <5>3. \A k \in {"tx", "redis", "release", "apiCrash"} : errors'[k] \in Nat
          BY DEF TypeOK, Kinds
        <5>4. MaxConcurrent * errors["apiCrash"] \in Nat
          BY <5>1, SubmissionAssumption
        <5>5. Forgotten' = Forgotten + 1
          BY <5>1, <5>2, <5>3, <5>4 DEF Forgotten
        <5> QED
          BY <5>5, DriftTypes
      <4> QED
        BY <1>7, <4>1, <4>2
    <3> QED
      BY <1>4, <3>5, <3>6, <3>7, DriftKept
  <2> QED
    BY <2>1, <2>2
<1> QED
  BY <1>6, <1>7, RequestSteps

\* One job more in a set of jobs, if it is of the workspace.
LEMMA InOrNot ==
  ASSUME TypeOK, NEW w \in Workspaces
  PROVE  /\ In(w) \in SUBSET Submissions
         /\ announced \in [Submissions -> Nat] /\ done \in [Submissions -> Nat]
  BY DEF In, TypeOK

\* A completion announced is one to be read; one that is read is in hand; only
\* one that is missed leaves a slot behind.
LEMMA DriftMessages ==
  ASSUME TypeOK, TypeOK', ChainInv, SlotInv, SlotInv', [Next]_vars, NEW s \in Submissions,
         (Announce(s) /\ SameJobs) \/ ReadCompleted(s) \/ Missed(s),
         NEW w \in Workspaces, DriftBounds(w)
  PROVE  DriftBounds(w)'
<1> DEFINE one == IF s \in In(w) THEN 1 ELSE 0
<1>1. Parts(w) /\ Parts(w)'
  BY DriftParts, DriftPartsNext
<1>2. UNCHANGED <<request, pc, counter>> /\ SameJobs
  BY DEF Announce, ReadCompleted, Missed, SameJobs, requestVars
<1>3. In(w)' = In(w) /\ Taken(w)' = Taken(w) /\ counter'[w] = counter[w]
  BY <1>2 DEF In, Taken, WorkspaceOf, SameJobs
<1>4. CASE Announce(s)
  <2>1. announced' = Add(announced, s, 1) /\ done' = Add(done, s, 1) /\ comp' = comp
    BY <1>4 DEF Announce
  <2>2. OneMore(announced, announced', s) /\ OneMore(done, done', s)
    BY <2>1, AddsOne, InOrNot
  <2>3. announced' \in [Submissions -> Nat] /\ done' \in [Submissions -> Nat]
    BY DEF TypeOK
  <2>4. /\ Cardinality(Messages(announced', In(w))) = Cardinality(Messages(announced, In(w))) + one
        /\ Cardinality(Messages(done', In(w))) = Cardinality(Messages(done, In(w))) + one
    BY <1>1, <2>2, <2>3, InOrNot, MessageAdded DEF Parts, Announced, Unread
  <2>5. /\ Cardinality(Announced(w)') = Cardinality(Announced(w)) + one
        /\ Cardinality(Unread(w)') = Cardinality(Unread(w)) + one
        /\ Hand(w)' = Hand(w) /\ Tries' = Tries
    BY <1>3, <2>1, <2>4 DEF Announced, Unread, Hand, Tries
  <2>6. Drift(w)' = Drift(w)
    BY <1>1, <1>3, <2>5 DEF Parts
  <2> QED
    BY <2>5, <2>6, DriftTypes, DriftSame
<1>5. CASE ReadCompleted(s) \/ Missed(s)
  <2>1. done[s] > 0 /\ done' = Add(done, s, -1) /\ announced' = announced
    BY <1>5 DEF ReadCompleted, Read, Missed
  <2>2. OneMore(done', done, s) /\ done' \in [Submissions -> Nat]
    BY <2>1, AddsOne, InOrNot
  <2>3. /\ Cardinality(Messages(done, In(w))) = Cardinality(Messages(done', In(w))) + one
    BY <1>1, <2>2, InOrNot, MessageRemoved DEF Parts, Unread
  <2>4. /\ Cardinality(Unread(w)) = Cardinality(Unread(w)') + one
        /\ Announced(w)' = Announced(w)
    BY <1>3, <2>1, <2>3 DEF Announced, Unread
  <2>5. CASE ReadCompleted(s)
    <3>1. comp.job = NoOne /\ comp' = [job |-> s, attempt |-> 1]
      BY <2>5 DEF ReadCompleted, Read, Waiting
    <3>2. Tries = 0 /\ Tries' = 0
      BY <3>1 DEF Tries, NoOne, Submissions
    <3>3. Hand(w) = {} /\ Hand(w)' = IF s \in In(w) THEN {s} ELSE {}
      BY <1>3, <3>1 DEF Hand, In, NoOne, Submissions
    <3>4. Cardinality(Hand(w)) = 0 /\ Cardinality(Hand(w)') = one
      BY <3>3, FS_EmptySet, FS_Singleton
    <3>5. Drift(w)' = Drift(w)
      BY <1>1, <1>3, <2>4, <3>4 DEF Parts
    <3> QED
      BY <3>2, <3>5, DriftSame
  <2>6. CASE Missed(s)
    <3>1. comp' = comp /\ Error("read")
      BY <2>6 DEF Missed
    <3>2. Hand(w)' = Hand(w) /\ Tries' = Tries
      BY <1>3, <3>1 DEF Hand, Tries
    <3>3. Drift(w) \in Int /\ Drift(w) <= Drift(w)' /\ Drift(w)' <= Drift(w) + 1
      BY <1>1, <1>3, <2>4, <3>2 DEF Parts
    <3>4. Missing' = Missing + 1 /\ errors'["release"] = errors["release"]
      <4>1. /\ errors["read"] \in Nat /\ errors'["read"] = errors["read"] + 1
            /\ errors'["apiCrash"] = errors["apiCrash"] /\ errors["apiCrash"] \in Nat
            /\ errors'["release"] = errors["release"]
        BY <3>1, OneError DEF Kinds, TypeOK
      <4> QED
        BY <4>1 DEF Missing
    <3>5. /\ Missing \in Nat /\ Tries \in Int /\ errors["release"] \in Nat
          /\ Forgotten \in Nat /\ Forgotten' \in Nat /\ Forgotten <= Forgotten'
      BY AccountsGrow, DriftTypes, DriftTypesNext
    <3>6. Drift(w)' \in Int
      BY <1>1 DEF Parts
    <3> QED
      BY <3>2, <3>3, <3>4, <3>5, <3>6, DriftKept
  <2> QED
    BY <1>5, <2>5, <2>6
<1> QED
  BY <1>4, <1>5

\* A completion out of the hand is a decrement made, or the last of
\* MaxAttempts that failed.
LEMMA DriftDecrements ==
  ASSUME TypeOK, TypeOK', ChainInv, SlotInv, SlotInv', [Next]_vars,
         DecrementRunningJobs \/ DecrementError,
         NEW w \in Workspaces, DriftBounds(w)
  PROVE  DriftBounds(w)'
<1> DEFINE one == IF comp.job \in In(w) THEN 1 ELSE 0
<1>1. Parts(w) /\ Parts(w)'
  BY DriftParts, DriftPartsNext
<1>2. UNCHANGED <<requestVars, announced, done>>
  BY DEF DecrementRunningJobs, DecrementError
<1>3. /\ In(w)' = In(w) /\ Taken(w)' = Taken(w)
      /\ Announced(w)' = Announced(w) /\ Unread(w)' = Unread(w)
  BY <1>2 DEF In, Taken, WorkspaceOf, requestVars, Announced, Unread
<1>4. /\ comp.job \in Submissions /\ comp.job # NoOne
      /\ comp.attempt \in Nat /\ comp.attempt >= 1 /\ comp.attempt <= MaxAttempts
  BY SubmissionAssumption DEF DecrementRunningJobs, DecrementError, TypeOK, SlotInv
<1>5. comp.job \in In(w) <=> WorkspaceOf(comp.job) = w
  <2>1. pc[comp.job] # "new"
    BY <1>4 DEF ChainInv, SlotInv
  <2> QED
    BY <1>4, <2>1 DEF In
<1>6. Hand(w) = IF comp.job \in In(w) THEN {comp.job} ELSE {}
  BY DEF Hand
<1>7. Cardinality(Hand(w)) = one
  BY <1>6, FS_EmptySet, FS_Singleton
<1>8. Tries = comp.attempt - 1
  BY <1>4 DEF Tries
<1>9. ASSUME comp' = Waiting PROVE Cardinality(Hand(w)') = 0 /\ Tries' = 0
  <2>1. Hand(w)' = {}
    BY <1>3, <1>9 DEF Hand, In, Waiting, NoOne, Submissions
  <2> QED
    BY <1>9, <2>1, FS_EmptySet DEF Tries, Waiting
<1>10. CASE DecrementRunningJobs
  <2>1. comp' = Waiting /\ counter' = [counter EXCEPT ![WorkspaceOf(comp.job)] = @ + -1]
    BY <1>10 DEF DecrementRunningJobs, Add
  <2>2. counter'[w] = counter[w] - one
    BY <1>5, <2>1 DEF TypeOK
  <2>3. Drift(w)' = Drift(w)
    BY <1>1, <1>3, <1>7, <1>9, <2>1, <2>2 DEF Parts
  <2>4. Tries' <= Tries
    BY <1>4, <1>8, <1>9, <2>1
  <2> QED
    BY <2>3, <2>4, DriftSame
<1>11. CASE DecrementError
  <2>1. PICK n \in {0, -1} : counter' = [counter EXCEPT ![WorkspaceOf(comp.job)] = @ + n]
    BY <1>11 DEF DecrementError, Add
  <2>2. counter'[w] = counter[w] + (IF comp.job \in In(w) THEN n ELSE 0)
    BY <1>5, <2>1 DEF TypeOK
  <2>3. comp' = Retry(comp) /\ Error("release")
    BY <1>11 DEF DecrementError
  <2>4. /\ errors'["release"] = errors["release"] + 1 /\ Missing' = Missing
        /\ Forgotten' = Forgotten + 1
    <3>1. \A k \in {"apiCrash", "read", "tx", "redis", "release"} : errors[k] \in Nat
      BY DEF TypeOK, Kinds
    <3>2. /\ errors'["release"] = errors["release"] + 1
          /\ \A k \in {"apiCrash", "read", "tx", "redis"} : errors'[k] = errors[k]
      BY <2>3, OneError DEF Kinds
    <3>3. MaxConcurrent * errors["apiCrash"] \in Nat
      BY <3>1, SubmissionAssumption
    <3> QED
      BY <3>1, <3>2, <3>3 DEF Missing, Forgotten
  <2>5. /\ Missing \in Nat /\ Tries \in Int /\ errors["release"] \in Nat /\ Forgotten \in Nat
        /\ Drift(w) \in Int /\ Drift(w)' \in Int
    BY <1>1, DriftTypes DEF Parts
  <2>6. CASE comp.attempt < MaxAttempts
    <3>1. comp' = [comp EXCEPT !.attempt = @ + 1]
      BY <2>3, <2>6 DEF Retry
    <3>2. comp'.job = comp.job /\ comp'.attempt = comp.attempt + 1
      BY <3>1 DEF TypeOK
    <3>3. Hand(w)' = Hand(w) /\ Tries' = Tries + 1
      BY <1>3, <1>4, <1>8, <3>2 DEF Hand, Tries
    <3>4. Drift(w)' <= Drift(w) /\ -Drift(w)' <= -Drift(w) + 1
      BY <1>1, <1>3, <2>2, <3>3 DEF Parts
    <3> QED
      BY <2>4, <2>5, <3>3, <3>4, DriftKept
  <2>7. CASE comp.attempt = MaxAttempts
    <3>1. comp' = Waiting
      BY <2>3, <2>7, SubmissionAssumption DEF Retry
    <3>2. Drift(w)' <= Drift(w) + 1 /\ Drift(w) <= Drift(w)'
      BY <1>1, <1>3, <1>7, <1>9, <2>2, <3>1 DEF Parts
    <3> DEFINE a == Drift(w) - Missing
               b == Drift(w)' - Missing'
    <3>3. a \in Int /\ b \in Int /\ b <= a + 1
      BY <2>4, <2>5, <3>2
    <3>4. /\ MaxAttempts * b <= MaxAttempts * (a + 1)
          /\ MaxAttempts * (a + 1) = MaxAttempts * a + MaxAttempts
          /\ MaxAttempts * a \in Int /\ MaxAttempts * b \in Int
      <4> HIDE DEF a, b
      <4>1. a + 1 \in Int /\ MaxAttempts \in Nat
        BY <3>3, SubmissionAssumption
      <4> QED
        BY <3>3, <4>1, TimesMonotone, TimesOneMore
    <3>5. MaxAttempts * a + (MaxAttempts - 1) <= errors["release"]
      BY <1>8, <2>7 DEF DriftBounds
    <3>6. MaxAttempts * b + Tries' <= errors'["release"]
      <4>1. Tries' = 0
        BY <1>9, <3>1
      <4> HIDE DEF a, b
      <4> QED
        BY <2>4, <2>5, <3>4, <3>5, <4>1, SubmissionAssumption
    <3>7. -Drift(w)' <= Forgotten'
      BY <2>4, <2>5, <3>2 DEF DriftBounds
    <3> QED
      BY <3>6, <3>7 DEF DriftBounds
  <2> QED
    BY <1>4, <2>6, <2>7, SubmissionAssumption
<1> QED
  BY <1>10, <1>11

\* A crash of the API forgets a completion in hand, and the increments of the
\* requests that were about to make one.
LEMMA DriftCrash ==
  ASSUME TypeOK, TypeOK', ChainInv, SlotInv, SlotInv', [Next]_vars, ApiCrash,
         NEW w \in Workspaces, DriftBounds(w)
  PROVE  DriftBounds(w)'
<1> DEFINE cut == {s \in In(w) : pc[s] = "committed"}
<1>1. Parts(w) /\ Parts(w)'
  BY DriftParts, DriftPartsNext
<1>2. /\ pc' = [s \in Submissions |-> IF pc[s] \in InFlight THEN "gone" ELSE pc[s]]
      /\ comp' = Waiting /\ UNCHANGED <<request, jobs, counter, announced, done>>
      /\ Error("apiCrash")
  BY DEF ApiCrash
<1>3. In(w)' = In(w)
  BY <1>2 DEF In, WorkspaceOf, InFlight
<1>4. Announced(w)' = Announced(w) /\ Unread(w)' = Unread(w) /\ counter'[w] = counter[w]
  BY <1>2, <1>3 DEF Announced, Unread
<1>5. Taken(w) \subseteq Taken(w)' /\ Taken(w)' \subseteq Taken(w) \cup cut
  BY <1>2, <1>3 DEF Taken, In, InFlight, TypeOK
<1>6. cut \subseteq Serving /\ IsFiniteSet(cut)
  BY ServingFinite, FS_Subset DEF Serving, In, InFlight
<1>7. Cardinality(cut) \in Nat /\ Cardinality(cut) <= MaxConcurrent
  <2>1. Cardinality(cut) \in Nat /\ Cardinality(cut) <= Cardinality(Serving)
    BY <1>6, ServingFinite
  <2> QED
    BY <2>1, ServingFinite, SubmissionAssumption DEF SlotInv
<1>8. /\ Cardinality(Taken(w)) <= Cardinality(Taken(w)')
      /\ Cardinality(Taken(w)') <= Cardinality(Taken(w)) + MaxConcurrent
  <2>1. Cardinality(Taken(w)) <= Cardinality(Taken(w)')
    BY <1>1, <1>5, FS_Subset DEF Parts
  <2>2. /\ IsFiniteSet(Taken(w) \cup cut)
        /\ Cardinality(Taken(w) \cup cut)
             = Cardinality(Taken(w)) + Cardinality(cut) - Cardinality(Taken(w) \cap cut)
    BY <1>1, <1>6, FS_Union DEF Parts
  <2>3. Cardinality(Taken(w) \cap cut) \in Nat
    BY <1>6, FS_Subset, FS_CardinalityType
  <2>4. Cardinality(Taken(w)') <= Cardinality(Taken(w) \cup cut)
    BY <1>5, <2>2, FS_Subset
  <2> QED
    BY <1>1, <1>7, <2>1, <2>2, <2>3, <2>4, SubmissionAssumption DEF Parts
<1>9. Cardinality(Hand(w)) <= 1 /\ Cardinality(Hand(w)') = 0
  <2>1. Hand(w) = {} \/ Hand(w) = {comp.job}
    BY DEF Hand
  <2>2. Hand(w)' = {}
    BY <1>2, <1>3 DEF Hand, In, Waiting, NoOne, Submissions
  <2>3. Cardinality(Hand(w)) \in {0, 1}
    BY <2>1, FS_EmptySet, FS_Singleton
  <2>4. Cardinality(Hand(w)') = 0
    BY <2>2, FS_EmptySet
  <2> QED
    BY <2>3, <2>4
<1>10. /\ Drift(w) \in Int /\ Drift(w)' \in Int
       /\ Drift(w)' <= Drift(w) + 1 /\ -Drift(w)' <= -Drift(w) + MaxConcurrent
  BY <1>1, <1>4, <1>8, <1>9, SubmissionAssumption DEF Parts
<1>11. /\ Missing' = Missing + 1 /\ Forgotten' = Forgotten + MaxConcurrent
       /\ errors'["release"] = errors["release"]
  <2>1. \A k \in {"apiCrash", "read", "tx", "redis", "release"} : errors[k] \in Nat
    BY DEF TypeOK, Kinds
  <2>2. /\ errors'["apiCrash"] = errors["apiCrash"] + 1
        /\ \A k \in {"release", "read", "tx", "redis"} : errors'[k] = errors[k]
    BY <1>2, OneError DEF Kinds
  <2>3. /\ MaxConcurrent * (errors["apiCrash"] + 1)
             = MaxConcurrent * errors["apiCrash"] + MaxConcurrent
        /\ MaxConcurrent * errors["apiCrash"] \in Int
    BY <2>1, SubmissionAssumption, TimesOneMore
  <2>4. MaxConcurrent * errors'["apiCrash"] = MaxConcurrent * errors["apiCrash"] + MaxConcurrent
    BY <2>2, <2>3
  <2>5. Missing' = Missing + 1
    BY <2>1, <2>2 DEF Missing
  <2>6. Forgotten' = Forgotten + MaxConcurrent
    <3> DEFINE x == MaxConcurrent * errors["apiCrash"]
               y == MaxConcurrent * errors'["apiCrash"]
    <3>1. Forgotten = errors["tx"] + errors["redis"] + errors["release"] + x
      BY DEF Forgotten
    <3>2. Forgotten' = errors["tx"] + errors["redis"] + errors["release"] + y
      BY <2>2 DEF Forgotten
    <3>3. x \in Int /\ y = x + MaxConcurrent
      BY <2>3, <2>4
    <3> HIDE DEF x, y
    <3> QED
      BY <2>1, <3>1, <3>2, <3>3, SubmissionAssumption
  <2> QED
    BY <2>2, <2>5, <2>6
<1>12. Tries' <= Tries
  <2>1. Tries' = 0
    BY <1>2 DEF Tries, Waiting
  <2>2. Tries >= 0
    BY SubmissionAssumption DEF Tries, SlotInv, TypeOK
  <2> QED
    BY <2>1, <2>2
<1>13. /\ Missing \in Nat /\ Tries \in Int /\ Tries' \in Int /\ errors["release"] \in Nat
       /\ Forgotten \in Nat
  BY DriftTypes, DriftTypesNext
<1> QED
  BY <1>10, <1>11, <1>12, <1>13, SubmissionAssumption, DriftKept

DriftInv == \A w \in Workspaces : DriftBounds(w)

LEMMA DriftInit == Init => DriftInv
<1> SUFFICES ASSUME Init, NEW w \in Workspaces PROVE DriftBounds(w)
  BY DEF DriftInv
<1>1. Parts(w)
  BY TypeInit, SlotInit, DriftParts
<1>2. Taken(w) = {} /\ Announced(w) = {} /\ Unread(w) = {} /\ Hand(w) = {}
  BY DEF Init, Taken, Announced, Unread, Hand, Messages, In
<1>3. counter[w] = 0 /\ Cardinality({}) = 0
  BY FS_EmptySet DEF Init
<1>4. Drift(w) = 0
  BY <1>1, <1>2, <1>3 DEF Parts
<1>5. Missing = 0 /\ Tries = 0 /\ errors["release"] = 0 /\ Forgotten \in Nat
  BY TypeInit, DriftTypes DEF Init, Missing, Tries, Waiting, Kinds
<1> QED
  BY <1>4, <1>5, SubmissionAssumption DEF DriftBounds

LEMMA DriftStep ==
  ASSUME TypeOK, TypeOK', ChainInv, SlotInv, SlotInv', DriftInv, [Next]_vars
  PROVE  DriftInv'
<1> SUFFICES ASSUME NEW w \in Workspaces PROVE DriftBounds(w)'
  BY DEF DriftInv
<1>1. DriftBounds(w)
  BY DEF DriftInv
<1> QED
  BY <1>1, AccountSteps, DriftAside, DriftRequests, DriftMessages, DriftDecrements, DriftCrash

\* The counter of every workspace is off by no more than what went wrong, for
\* any number of requests, workspaces, attempts and failures: every slot that
\* stays taken has a crash of the API, a missed message or MaxAttempts failed
\* decrements of its own, and every slot that was given to too many has a
\* failed commit, increment or decrement, or a crash, which costs at most
\* MaxConcurrent.  Cancelling shifts nothing, nor does the order of increments
\* and decrements.
THEOREM CounterDriftIsBounded == Spec => []CounterDrift
<1>1. TypeOK /\ TypeOK' /\ ChainInv /\ SlotInv /\ SlotInv' /\ DriftInv /\ [Next]_vars => DriftInv'
  BY DriftStep
<1>2. TypeOK /\ SlotInv /\ DriftInv => CounterDrift
  <2> SUFFICES ASSUME TypeOK, SlotInv, DriftInv, NEW w \in Workspaces
               PROVE  /\ Drift(w) <= errors["release"] \div MaxAttempts
                                       + errors["apiCrash"] + errors["read"]
                      /\ -Drift(w) <= errors["tx"] + errors["redis"] + errors["release"]
                                        + MaxConcurrent * errors["apiCrash"]
    BY DEF CounterDrift
  <2>1. Drift(w) \in Int
    BY DriftParts DEF Parts
  <2>2. DriftBounds(w)
    BY DEF DriftInv
  <2>3. Missing \in Nat /\ errors["release"] \in Nat /\ Tries \in Int /\ Tries >= 0
    BY DriftTypes, SubmissionAssumption DEF Tries, SlotInv, TypeOK
  <2> DEFINE a == Drift(w) - Missing
  <2>4. a \in Int /\ MaxAttempts * a + Tries <= errors["release"]
    BY <2>1, <2>2, <2>3 DEF DriftBounds
  <2>5. a <= errors["release"] \div MaxAttempts
    <3> HIDE DEF a
    <3>1. MaxAttempts \in Nat \ {0} /\ MaxAttempts * a \in Int
      BY <2>4, SubmissionAssumption, TimesOneMore
    <3> QED
      BY <2>3, <2>4, <3>1, TimesQuotient
  <2>6. errors["release"] \div MaxAttempts \in Int /\ errors["apiCrash"] \in Nat /\ errors["read"] \in Nat
    BY <2>3, SubmissionAssumption DEF TypeOK, Kinds
  <2>7. Drift(w) <= errors["release"] \div MaxAttempts + errors["apiCrash"] + errors["read"]
    BY <2>1, <2>5, <2>6 DEF Missing
  <2> QED
    BY <2>2, <2>7 DEF DriftBounds, Forgotten
<1> QED
  BY <1>1, <1>2, DriftInit, SubmissionTypes, ChainInvariant, SlotInvariant, PTL DEF Spec

(***************************************************************************)
(* The jobs that run.  Without the errors that make the counter forget one *)
(* or an event count twice, a job is announced at most once and then stays *)
(* over: its run came from the only copy of its event, which nobody will   *)
(* read again.                                                             *)
(***************************************************************************)
Forgetting == {"tx", "redis", "release", "publish", "mark", "handler", "apiCrash", "closedTwice"}

UsedUp(s) == topic[s] = 0 /\ sched.job # s /\ ~Unpublished(s)

OverInv ==
    None(Forgetting) =>
        \A s \in Submissions :
            /\ s \in spawned => UsedUp(s)
            /\ announced[s] <= 1
            /\ announced[s] # 0 => s \in spawned /\ jobs[s] \notin {"SUBMITTED", "QUEUED"}

LEMMA ForgettingGrows ==
  ASSUME TypeOK, [Next]_vars
  PROVE  /\ None(Forgetting)' => None(Forgetting)
         /\ \A k \in Forgetting : Error(k) => ~None(Forgetting)'
<1>1. \A k \in Forgetting : errors[k] \in Nat /\ errors'[k] \in Nat /\ errors[k] <= errors'[k]
  BY ErrorsOnlyGrow DEF Forgetting, Kinds
<1>2. None(Forgetting)' => None(Forgetting)
  BY <1>1 DEF None
<1>3. ASSUME NEW k \in Forgetting, Error(k) PROVE ~None(Forgetting)'
  <2>1. errors'[k] = errors[k] + 1
    BY <1>3, OneError DEF Forgetting, Kinds
  <2> QED
    BY <1>1, <2>1 DEF None
<1> QED
  BY <1>2, <1>3

\* Without those errors only Publish makes a copy of an event, and of none
\* whose copy was used up.
LEMMA StaysUsedUp ==
  ASSUME TypeOK, TypeOK', ChainInv, OnceInv, None(Repeats), [Next]_vars,
         \A k \in Forgetting : ~Error(k), NEW s \in Submissions, UsedUp(s)
  PROVE  UsedUp(s)'
<1>1. ASSUME UNCHANGED <<outbox, disp>>, jobs'[s] = "none" => jobs[s] = "none",
             topic'[s] = 0, sched'.job # s
      PROVE  UsedUp(s)'
  BY <1>1 DEF UsedUp, Unpublished
<1>2. ASSUME UNCHANGED <<jobs, topic, sched>>, outbox'[s] = "PENDING" => outbox[s] = "PENDING",
             outbox'[s] = "PENDING" => ~(disp.pc = "markDelivered" /\ disp.event = s)
      PROVE  UsedUp(s)'
  BY <1>2 DEF UsedUp, Unpublished
<1>3. ASSUME NEW r \in Submissions,
             AllowJobSubmission(r) \/ CreateJob(r) \/ RequestError(r) \/ CancelJob(r)
      PROVE  UsedUp(s)'
  <2>1. UNCHANGED <<disp, schedVars>>
    BY <1>3 DEF AllowJobSubmission, CreateJob, CommitJob, IncrementRunningJobs, RequestError,
                CancelJob, dispatchVars
  <2>2. CASE UNCHANGED outbox
    <3>1. jobs'[s] = "none" => jobs[s] = "none"
      BY <1>3 DEF AllowJobSubmission, CreateJob, CommitJob, IncrementRunningJobs, RequestError,
                  CancelJob, InsertJobAndEvent, Put, TypeOK
    <3> QED
      BY <1>1, <2>1, <2>2, <3>1 DEF schedVars, UsedUp
  <2>3. CASE pc[r] = "allowed" /\ InsertJobAndEvent(r)
    <3>1. jobs[r] = "none"
      BY <2>3 DEF ChainInv
    <3>2. r # s
      BY <3>1 DEF UsedUp, Unpublished
    <3>3. outbox'[s] = outbox[s] /\ jobs'[s] = jobs[s]
      BY <2>3, <3>2 DEF InsertJobAndEvent, Put, TypeOK
    <3> QED
      BY <2>1, <3>3 DEF UsedUp, Unpublished, schedVars
  <2> QED
    BY <1>3, <2>2, <2>3 DEF AllowJobSubmission, CreateJob, CommitJob, IncrementRunningJobs,
                            RequestError, CancelJob, Answer, dispatchVars
<1>4. CASE GetPendingOutboxEvents
  BY <1>2, <1>4 DEF GetPendingOutboxEvents, requestVars, schedVars
<1>5. ASSUME NEW r \in Submissions, Publish(r) PROVE UsedUp(s)'
  <2>1. /\ disp.pc = "publish" /\ r \in disp.batch /\ topic' = [topic EXCEPT ![r] = @ + 1]
        /\ disp'.event = r /\ UNCHANGED <<jobs, outbox, sched>>
    BY <1>5 DEF Publish, Add, TypeOK, requestVars
  <2>2. Unpublished(r)
    BY <2>1 DEF ChainInv, Unpublished
  <2>3. r # s
    BY <2>2 DEF UsedUp
  <2> QED
    BY <2>1, <2>3 DEF UsedUp, Unpublished, TypeOK
<1>6. CASE MarkOutboxDelivered
  <2>1. /\ disp.pc = "markDelivered" /\ disp.event \in Submissions
        /\ outbox' = [outbox EXCEPT ![disp.event] = "DELIVERED"]
        /\ UNCHANGED <<jobs, topic, sched>>
    BY <1>6 DEF MarkOutboxDelivered, Put, TypeOK, requestVars, schedVars
  <2>2. outbox'[s] = "PENDING" => outbox[s] = "PENDING" /\ disp.event # s
    BY <2>1 DEF TypeOK
  <2> QED
    BY <1>2, <2>1, <2>2
<1>7. ~MarkOutboxFailed
  BY DEF MarkOutboxFailed, OnceInv
<1>8. ASSUME NEW r \in Submissions, PublishError(r) \/ CloseJobAgain(r) PROVE FALSE
  BY <1>8 DEF PublishError, CloseJobAgain, Forgetting
<1>9. ~(MarkError \/ HandlerError \/ DecrementError \/ ApiCrash)
  BY DEF MarkError, HandlerError, DecrementError, ApiCrash, Forgetting
<1>10. CASE CleanupDeliveredOutboxEvents
  <2>1. UNCHANGED <<jobs, topic, sched, disp>> /\ (outbox'[s] = "PENDING" => outbox[s] = "PENDING")
    BY <1>10 DEF CleanupDeliveredOutboxEvents, TypeOK, requestVars, schedVars
  <2> QED
    BY <2>1 DEF UsedUp, Unpublished
<1>11. ASSUME NEW r \in Submissions, ReadSubmitted(r) \/ ReadError(r) PROVE UsedUp(s)'
  <2>1. /\ UNCHANGED <<jobs, outbox, disp>>
        /\ sched'.job = sched.job \/ (topic[r] > 0 /\ sched'.job = r)
        /\ UNCHANGED topic \/ (topic[r] > 0 /\ topic' = [topic EXCEPT ![r] = @ + -1])
    BY <1>11 DEF ReadSubmitted, ReadError, Read, Add, requestVars, dispatchVars
  <2>2. topic'[s] = 0 /\ sched'.job # s
    BY <2>1 DEF UsedUp, TypeOK
  <2> QED
    BY <1>1, <2>1, <2>2
<1>12. CASE HandleJobSubmitted \/ SchedulerCrash
  <2>1. /\ UNCHANGED <<outbox, disp, topic>> /\ sched'.job = NoOne
        /\ jobs'[s] = "none" => jobs[s] = "none"
    BY <1>12 DEF HandleJobSubmitted, SchedulerCrash, HandledInPart, Waiting, Put, TypeOK,
                 dispatchVars
  <2> QED
    BY <1>1, <2>1 DEF UsedUp, NoOne, Submissions
<1>13. ASSUME NEW r \in Submissions, CloseJob(r) \/ AnnounceError(r) PROVE UsedUp(s)'
  <2>1. /\ UNCHANGED <<outbox, disp, topic, sched>>
        /\ jobs'[s] = "none" => jobs[s] = "none"
    BY <1>13 DEF CloseJob, AnnounceError, Announce, Put, TypeOK, dispatchVars, schedVars
  <2> QED
    BY <1>1, <2>1 DEF UsedUp
<1>14. CASE Release \/ UNCHANGED vars
  BY <1>1, <1>14 DEF Release, ReadCompleted, DecrementRunningJobs, vars, requestVars, dispatchVars,
                     schedVars, UsedUp
<1> QED
  BY <1>3, <1>4, <1>5, <1>6, <1>7, <1>8, <1>9, <1>10, <1>11, <1>12, <1>13, <1>14, StepGroups
  DEF Dispatch, Schedule

LEMMA OverStep ==
  ASSUME TypeOK, TypeOK', ChainInv, SlotInv, OnceInv, OverInv, [Next]_vars
  PROVE  OverInv'
<1> DEFINE over == \A s \in Submissions :
                      /\ (s \in spawned => UsedUp(s))'
                      /\ announced'[s] <= 1
                      /\ (announced[s] # 0 => s \in spawned /\ jobs[s] \notin {"SUBMITTED", "QUEUED"})'
<1>0. SUFFICES ASSUME None(Forgetting)' PROVE over
  BY DEF OverInv
<1>1. \A s \in Submissions :
         /\ s \in spawned => UsedUp(s)
         /\ announced[s] <= 1
         /\ announced[s] # 0 => s \in spawned /\ jobs[s] \notin {"SUBMITTED", "QUEUED"}
  BY <1>0, ForgettingGrows DEF OverInv
<1>2. None(Repeats) /\ \A k \in Forgetting : ~Error(k)
  <2>1. None(Forgetting) /\ \A k \in Forgetting : ~Error(k)
    BY <1>0, ForgettingGrows
  <2> QED
    BY <2>1 DEF None, Repeats, Forgetting
<1>u. \A s \in Submissions : s \in spawned => UsedUp(s)'
  BY <1>1, <1>2, StaysUsedUp
<1>3. ASSUME UNCHANGED <<spawned, announced>>,
             \A s \in Submissions : announced[s] # 0 =>
                 (jobs'[s] \in {"SUBMITTED", "QUEUED"} => jobs[s] \in {"SUBMITTED", "QUEUED"})
      PROVE  over
  BY <1>1, <1>3, <1>u
<1>4. CASE UNCHANGED vars
  BY <1>3, <1>4 DEF vars, requestVars, schedVars, closeVars
<1>5. ASSUME NEW s \in Submissions, AllowJobSubmission(s) \/ CreateJob(s) PROVE over
  <2>1. UNCHANGED <<spawned, announced>>
    BY <1>5 DEF AllowJobSubmission, CreateJob, CommitJob, IncrementRunningJobs, schedVars, closeVars
  <2>2. \A r \in Submissions : jobs'[r] = jobs[r] \/ announced[r] = 0
    <3>1. CASE AllowJobSubmission(s)
      BY <3>1 DEF AllowJobSubmission
    <3>2. CASE CreateJob(s)
      <4>1. \A r \in Submissions : r # s => jobs'[r] = jobs[r]
        BY <3>2, RequestSteps
      <4>2. CASE IncrementRunningJobs(s)
        BY <4>2 DEF IncrementRunningJobs
      <4>3. CASE CommitJob(s)
        <5>1. pc[s] = "allowed"
          BY <4>3 DEF CommitJob, Answer
        <5>2. announced[s] = 0
          BY <5>1 DEF ChainInv, SlotInv
        <5> QED
          BY <4>1, <5>2
      <4> QED
        BY <3>2, <4>2, <4>3 DEF CreateJob
    <3> QED
      BY <1>5, <3>1, <3>2
  <2> QED
    BY <1>3, <2>1, <2>2
<1>6. ASSUME NEW s \in Submissions, CancelJob(s) \/ AnnounceError(s) PROVE over
  <2>1. /\ UNCHANGED <<spawned, announced>>
        /\ \E st \in {"CANCELLED", "FINISHED"} : jobs' = [jobs EXCEPT ![s] = st]
    BY <1>6 DEF CancelJob, AnnounceError, Put, schedVars, closeVars
  <2>2. \A r \in Submissions : jobs'[r] = jobs[r] \/ jobs'[r] \in {"CANCELLED", "FINISHED"}
    BY <2>1 DEF TypeOK
  <2> QED
    BY <1>3, <2>1, <2>2
<1>7. ASSUME NEW s \in Submissions, RequestError(s) \/ PublishError(s) \/ CloseJobAgain(s)
      PROVE  FALSE
  BY <1>2, <1>7 DEF RequestError, PublishError, CloseJobAgain, Forgetting
<1>8. ~(MarkError \/ HandlerError \/ DecrementError \/ ApiCrash)
  BY <1>2 DEF MarkError, HandlerError, DecrementError, ApiCrash, Forgetting
<1>9. ASSUME \/ Dispatch \/ CleanupDeliveredOutboxEvents \/ Release
             \/ \E s \in Submissions : ReadSubmitted(s) \/ ReadError(s)
      PROVE  over
  <2>1. UNCHANGED <<jobs, spawned, announced>>
    BY <1>9 DEF Dispatch, GetPendingOutboxEvents, MarkOutboxDelivered, MarkOutboxFailed, Publish,
                CleanupDeliveredOutboxEvents, Release, ReadCompleted, DecrementRunningJobs,
                ReadSubmitted, ReadError, requestVars, schedVars, closeVars
  <2> QED
    BY <1>3, <2>1
<1>10. CASE HandleJobSubmitted \/ SchedulerCrash
  <2>1. PICK s \in Submissions :
           /\ sched.job = s /\ sched' = Waiting /\ spawned' \subseteq spawned \cup {s}
           /\ \A r \in Submissions : r # s => jobs'[r] = jobs[r]
           /\ spawned \subseteq spawned' /\ jobs'[s] \in {jobs[s], "QUEUED"}
           /\ UNCHANGED <<announced, topic, outbox, disp>>
    BY <1>10 DEF HandleJobSubmitted, SchedulerCrash, HandledInPart, Put, Add, TypeOK, closeVars,
                 dispatchVars
  <2>2. announced[s] = 0
    BY <1>1, <2>1 DEF UsedUp
  <2>3. UsedUp(s)'
    <3>1. topic[s] = 0 /\ ~Unpublished(s)
      <4>1. Copies(s) <= 1 /\ InHand(s) = 1 /\ (Unpublished(s) => Copies(s) = 0)
        BY <1>2, <2>1 DEF OnceInv, InHand
      <4> QED
        BY <4>1, CopiesType DEF Copies
    <3> QED
      BY <2>1, <3>1 DEF UsedUp, Unpublished, Waiting, NoOne, Submissions
  <2> QED
    BY <1>1, <1>u, <2>1, <2>2, <2>3
<1>11. ASSUME NEW s \in Submissions, CloseJob(s) PROVE over
  <2>1. /\ s \in spawned /\ announced[s] = 0
        /\ announced' = [announced EXCEPT ![s] = @ + 1]
        /\ jobs' = [jobs EXCEPT ![s] = "FINISHED"]
        /\ UNCHANGED spawned
    BY <1>11 DEF CloseJob, Announce, Put, Add, schedVars
  <2>2. /\ announced'[s] = 1 /\ jobs'[s] = "FINISHED"
        /\ \A r \in Submissions : r # s => announced'[r] = announced[r] /\ jobs'[r] = jobs[r]
    BY <2>1 DEF TypeOK
  <2> QED
    BY <1>1, <1>u, <2>1, <2>2
<1> QED
  BY <1>4, <1>5, <1>6, <1>7, <1>8, <1>9, <1>10, <1>11, StepGroups DEF Schedule

LEMMA OverInvariant == Spec => []OverInv
<1>1. Init => OverInv
  BY DEF Init, OverInv
<1>2. TypeOK /\ TypeOK' /\ ChainInv /\ SlotInv /\ OnceInv /\ OverInv /\ [Next]_vars => OverInv'
  BY OverStep
<1> QED
  BY <1>1, <1>2, SubmissionTypes, ChainInvariant, SlotInvariant, OnceInvariant, PTL DEF Spec

\* The jobs of a workspace that are over and announced.
Over(w) == {s \in In(w) : announced[s] # 0}

\* One announcement each.
LEMMA AnnouncedOnce ==
  ASSUME TypeOK, SlotInv, NEW w \in Workspaces, \A s \in Submissions : announced[s] <= 1
  PROVE  /\ IsFiniteSet(Over(w)) /\ Cardinality(Over(w)) \in Nat
         /\ Cardinality(Announced(w)) = Cardinality(Over(w))
<1> DEFINE job == [x \in Announced(w) |-> x[1]]
<1>1. IsFiniteSet(Submissions)
  BY FS_Interval, SubmissionAssumption DEF Submissions
<1>2. Over(w) \subseteq Submissions
  BY DEF Over, In
<1>3. IsFiniteSet(Over(w)) /\ Cardinality(Over(w)) \in Nat
  BY <1>1, <1>2, FS_Subset, FS_CardinalityType
<1>4. ASSUME NEW x \in Announced(w) PROVE \E r \in Over(w) : x = <<r, 1>>
  <2>1. PICK r \in In(w) : \E i \in 1..announced[r] : x = <<r, i>>
    BY MessageIn DEF Announced
  <2>2. PICK i \in 1..announced[r] : x = <<r, i>>
    BY <2>1
  <2>3. announced[r] \in Nat /\ announced[r] <= 1
    BY <1>2 DEF TypeOK, In
  <2>4. i = 1 /\ announced[r] # 0
    BY <2>2, <2>3
  <2> QED
    BY <2>2, <2>4 DEF Over
<1>5. job \in Injection(Announced(w), Over(w))
  <2>1. \A x \in Announced(w) : job[x] \in Over(w) /\ x = <<job[x], 1>>
    BY <1>4
  <2>2. job \in [Announced(w) -> Over(w)]
    BY <2>1
  <2>3. \A x, y \in Announced(w) : job[x] = job[y] => x = y
    BY <2>1
  <2> QED
    BY <2>2, <2>3 DEF Injection, IsInjective
<1>6. job \in Surjection(Announced(w), Over(w))
  <2>1. ASSUME NEW r \in Over(w) PROVE \E x \in Announced(w) : job[x] = r
    <3>1. announced[r] \in Nat /\ announced[r] # 0 /\ r \in In(w)
      BY <1>2 DEF TypeOK, Over
    <3>2. <<r, 1>> \in Announced(w)
      BY <3>1, MessageIn DEF Announced
    <3> QED
      BY <3>2
  <2>2. job \in [Announced(w) -> Over(w)]
    BY <1>5 DEF Injection
  <2> QED
    BY <2>1, <2>2 DEF Surjection
<1>7. Cardinality(Announced(w)) = Cardinality(Over(w))
  <2> HIDE DEF job
  <2> QED
    BY <1>3, <1>5, <1>6, FS_Injection
<1> QED
  BY <1>3, <1>7

\* The limit holds up to the requests that pass the check together: without
\* the errors named in the property, no workspace has more unfinished jobs than
\* MaxRunning and MaxConcurrent allow, for any limit and any number of requests,
\* cancellations, crashes of the scheduler and missed or unpublished
\* completions.  A job that is not over has its place in the counter or its
\* request in between, and OvershootBounded bounds the sum of the two.
THEOREM ActiveJobsAreBounded == Spec => []ActiveJobsBounded
<1>1. TypeOK /\ SlotInv /\ OverInv /\ OvershootBounded /\ CounterDrift => ActiveJobsBounded
  <2> SUFFICES ASSUME TypeOK, SlotInv, OverInv, OvershootBounded, CounterDrift,
                      None(Forgetting), NEW w \in Workspaces
               PROVE  Cardinality(Active(w)) <= MaxRunning + MaxConcurrent - 1
    BY DEF ActiveJobsBounded, Forgetting
  <2>1. Parts(w)
    BY DriftParts
  <2>2. /\ IsFiniteSet(Over(w)) /\ Cardinality(Over(w)) \in Nat
        /\ Cardinality(Announced(w)) = Cardinality(Over(w))
    BY AnnouncedOnce DEF OverInv
  <2>3. Cardinality(Taken(w)) <= counter[w] + Cardinality(Over(w))
    <3>1. \A k \in {"tx", "redis", "release", "apiCrash"} : errors[k] = 0
      BY DEF None, Forgetting
    <3>2. -Drift(w) <= 0
      BY <3>1, SubmissionAssumption DEF CounterDrift
    <3> QED
      BY <2>1, <2>2, <3>2 DEF Parts
  <2>4. Active(w) \subseteq (Taken(w) \cup Between(w)) \ Over(w)
    <3>1. Active(w) \subseteq Taken(w) \cup Between(w)
      BY DEF Active, Taken, Between, InFlight
    <3>2. Active(w) \cap Over(w) = {}
      BY DEF Active, Over, OverInv, In
    <3> QED
      BY <3>1, <3>2
  <2>5. Over(w) \subseteq Taken(w) \cup Between(w)
    BY DEF Over, Taken, Between, In, InFlight, SlotInv
  <2> DEFINE all  == Taken(w) \cup Between(w)
             rest == all \ Over(w)
  <2>6. IsFiniteSet(all) /\ Cardinality(all) <= Cardinality(Taken(w)) + Cardinality(Between(w))
    <3>1. /\ IsFiniteSet(Taken(w) \cup Between(w))
          /\ Cardinality(Taken(w) \cup Between(w)) = Cardinality(Taken(w)) + Cardinality(Between(w))
               - Cardinality(Taken(w) \cap Between(w))
      BY <2>1, BetweenFinite, FS_Union DEF Parts
    <3>2. Cardinality(Taken(w) \cap Between(w)) \in Nat
      BY BetweenFinite, FS_Subset, FS_CardinalityType
    <3> QED
      BY <2>1, <3>1, <3>2, BetweenFinite DEF Parts
  <2>7. /\ IsFiniteSet(rest) /\ Cardinality(rest) \in Nat
        /\ Cardinality(all) = Cardinality(rest) + Cardinality(Over(w))
    <3> HIDE DEF all
    <3>1. all = rest \cup Over(w) /\ rest \cap Over(w) = {}
      BY <2>5 DEF all
    <3>2. IsFiniteSet(rest) /\ Cardinality(rest) \in Nat
      BY <2>6, FS_Subset, FS_CardinalityType
    <3> HIDE DEF rest
    <3>3. Cardinality(rest \cup Over(w)) = Cardinality(rest) + Cardinality(Over(w))
            - Cardinality(rest \cap Over(w))
      BY <2>2, <3>2, FS_Union
    <3>4. Cardinality(rest \cap Over(w)) = 0
      BY <3>1, FS_EmptySet
    <3> QED
      BY <2>2, <3>1, <3>2, <3>3, <3>4
  <2>8. Cardinality(Active(w)) \in Nat /\ Cardinality(Active(w)) <= Cardinality(rest)
    BY <2>4, <2>7, FS_Subset, FS_CardinalityType
  <2>9. counter[w] + Cardinality(Between(w)) <= MaxRunning + MaxConcurrent - 1
    BY DEF OvershootBounded
  <2>10. counter[w] \in Int /\ Cardinality(Taken(w)) \in Nat /\ Cardinality(Between(w)) \in Nat
    BY <2>1, BetweenFinite DEF Parts
  <2> HIDE DEF all, rest
  <2> QED
    BY <2>2, <2>3, <2>6, <2>7, <2>8, <2>9, <2>10, SubmissionAssumption
<1> QED
  BY <1>1, SubmissionTypes, SlotInvariant, OverInvariant, OvershootIsBounded, CounterDriftIsBounded,
     PTL

(***************************************************************************)
(* The safety half of SlotsReturned: when the requests and the completions *)
(* that are on their way have arrived, the counter is exactly what the two *)
(* tables say, whatever became of the jobs.                                *)
(***************************************************************************)
AtRest == comp = Waiting /\ \A s \in Submissions : pc[s] \notin InFlight /\ done[s] = 0

\* No request is between its check and its increment and no completion is
\* unread: then a workspace has given back one slot per announcement, neither
\* more nor less.  Jobs that are cancelled, that never finish, whose event was
\* lost or whose completion could not be published keep theirs for good.
SlotsReturnedAtRest ==
    None(Shifting) /\ AtRest => \A w \in Workspaces :
        counter[w] = Cardinality({s \in In(w) : jobs[s] # "none"})
                       - Cardinality(Messages(announced, In(w)))

\* The limit forgets no job and gives back no slot by itself, for any number of
\* workspaces and requests and any interleaving of increments and decrements:
\* unless a call that moves the counter failed, the drift is 0 both ways, and
\* at rest all jobs are counted and all announcements received.  How many
\* slots leak is therefore how many jobs were never announced.
THEOREM SlotsAreReturnedAtRest == Spec => []SlotsReturnedAtRest
<1>1. TypeOK /\ SlotInv /\ CounterDrift => SlotsReturnedAtRest
  <2> SUFFICES ASSUME TypeOK, SlotInv, CounterDrift, None(Shifting), AtRest, NEW w \in Workspaces
               PROVE  counter[w] = Cardinality({s \in In(w) : jobs[s] # "none"})
                                     - Cardinality(Messages(announced, In(w)))
    BY DEF SlotsReturnedAtRest
  <2>1. Parts(w)
    BY DriftParts
  <2>2. Drift(w) = 0
    <3>1. MaxConcurrent * 0 = 0 /\ 0 \div MaxAttempts = 0
      BY SubmissionAssumption
    <3>2. \A k \in Shifting : errors[k] = 0
      BY DEF None
    <3>3. Drift(w) <= 0 /\ -Drift(w) <= 0
      BY <3>1, <3>2 DEF CounterDrift, Shifting
    <3> QED
      BY <2>1, <3>3 DEF Parts
  <2>3. Unread(w) = {} /\ Hand(w) = {}
    <3>1. \A r \in In(w) : 1..done[r] = {}
      BY DEF AtRest, In
    <3>2. \A x : x \notin Unread(w)
      BY <3>1, MessageIn DEF Unread
    <3> QED
      BY <3>2 DEF Hand, AtRest, Waiting, In, NoOne, Submissions
  <2>4. Taken(w) = {s \in In(w) : jobs[s] # "none"}
    BY DEF Taken, In, AtRest, InFlight
  <2>5. Cardinality({}) = 0
    BY FS_EmptySet
  <2> QED
    BY <2>1, <2>2, <2>3, <2>4, <2>5 DEF Parts, Announced
<1> QED
  BY <1>1, SubmissionTypes, SlotInvariant, CounterDriftIsBounded, PTL
=============================================================================
