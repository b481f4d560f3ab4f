---------------------------- MODULE JobSubmission ----------------------------
(***************************************************************************)
(* From POST /jobs to the end of the scheduler's handler, and the way back *)
(* of job.completed to the rate limit: the requests and the dispatcher and *)
(* the job.completed consumer of one API process, the scheduler's consumer,*)
(* the tables jobs and outbox, the two topics and the Redis counters.      *)
(*                                                                         *)
(* PostgreSQL, Redis and Kafka share no transaction, so every call is an   *)
(* action.  Any call may fail, and one whose answer is lost has taken      *)
(* effect; either process may stop between any two calls and starts again  *)
(* with empty hands.  errors counts what went wrong, by kind.              *)
(***************************************************************************)
EXTENDS Integers, FiniteSets, FiniteSetsExt

CONSTANTS Workspaces,
          Keys,           \* idempotency keys a client may send
          NoKey,          \* "" in the request, NULL in the table
          Requests,       \* what the clients may ask for, one after the other
          MaxRunning,     \* the limit (10 in the API's main)
          BatchSize,      \* rows per dispatch (10 in the query)
          MaxAttempts,    \* calls of a handler per message (3 in the consumer)
          MaxRequests,    \* bound: POST /jobs requests
          MaxConcurrent,  \* bound: requests between check and increment
          MaxTrouble      \* bound: requests, failures and crashes together

ASSUME SubmissionAssumption ==
    /\ MaxRunning \in Nat \ {0}
    /\ BatchSize \in Nat \ {0}
    /\ MaxAttempts \in Nat \ {0}
    /\ MaxRequests \in Nat
    /\ MaxConcurrent \in Nat \ {0}
    /\ MaxTrouble \in Nat

ASSUME RequestsAssumption ==
    /\ NoKey \notin Keys
    /\ Requests \subseteq [1..MaxRequests -> [workspace : Workspaces, key : Keys \cup {NoKey}]]

VARIABLES request,    \* workspace and key of each request
          pc,         \* CreateJob, per request: the call it makes next
          jobs,       \* table jobs: the state of the row a request inserted
          outbox,     \* table outbox: the status of its event
          counter,    \* Redis: rate_limit:jobs:running:<workspace>
          disp,       \* the dispatcher: program counter and rows in hand
          topic,      \* copies of job.submitted the scheduler has not read
          sched,      \* the scheduler's consumer: the job in hand, its attempt
          spawned,    \* jobs with a run the workers may execute
          handled,    \* how often the handler reached its end
          announced,  \* job.completed events published
          done,       \* job.completed events the API has not read
          comp,       \* the job.completed consumer: as sched
          errors      \* what went wrong so far, per kind

requestVars  == <<request, pc, jobs>>
dispatchVars == <<outbox, disp>>
schedVars    == <<topic, sched, spawned, handled>>
closeVars    == <<announced, done, comp>>
vars         == <<requestVars, dispatchVars, schedVars, closeVars, counter, errors>>

Kinds == {"tx", "redis", "publish", "mark", "read", "handler", "announce",
          "closedTwice", "release", "apiCrash", "schedulerCrash"}

Submissions == 1..MaxRequests   \* the requests, in the order they arrive
NoOne       == 0

InFlight == {"allowed", "committed"}   \* between the check and the increment
Idle     == [pc |-> "idle", batch |-> {}, event |-> NoOne]
Waiting  == [job |-> NoOne, attempt |-> 0]

WorkspaceOf(s) == request[s].workspace
KeyOf(s)       == request[s].key

In(w) == {s \in Submissions : pc[s] # "new" /\ WorkspaceOf(s) = w}

\* Requests of a workspace between the check and the increment.
Between(w) == {s \in In(w) : pc[s] \in InFlight}

TypeOK ==
    /\ request \in [Submissions -> [workspace : Workspaces, key : Keys \cup {NoKey}]]
    /\ pc \in [Submissions -> {"new", "created", "refused", "error", "gone"} \cup InFlight]
    /\ jobs \in [Submissions -> {"none", "SUBMITTED", "QUEUED", "FINISHED", "CANCELLED"}]
    /\ outbox \in [Submissions -> {"none", "PENDING", "DELIVERED", "FAILED"}]
    /\ counter \in [Workspaces -> Int]
    /\ disp \in [pc : {"idle", "publish", "markDelivered", "markFailed"},
                 batch : SUBSET Submissions, event : Submissions \cup {NoOne}]
    /\ disp.pc \in {"markDelivered", "markFailed"} => disp.event \in disp.batch
    /\ topic \in [Submissions -> Nat]
    /\ sched \in [job : Submissions \cup {NoOne}, attempt : 0..MaxAttempts]
    /\ spawned \subseteq Submissions
    /\ handled \in [Submissions -> Nat]
    /\ announced \in [Submissions -> Nat]
    /\ done \in [Submissions -> Nat]
    /\ comp \in [job : Submissions \cup {NoOne}, attempt : 0..MaxAttempts]
    /\ errors \in [Kinds -> Nat]

Init ==
    /\ request \in Requests
    /\ pc = [s \in Submissions |-> "new"]
    /\ jobs = [s \in Submissions |-> "none"]
    /\ outbox = [s \in Submissions |-> "none"]
    /\ counter = [w \in Workspaces |-> 0]
    /\ disp = Idle
    /\ topic = [s \in Submissions |-> 0]
    /\ sched = Waiting
    /\ spawned = {}
    /\ handled = [s \in Submissions |-> 0]
    /\ announced = [s \in Submissions |-> 0]
    /\ done = [s \in Submissions |-> 0]
    /\ comp = Waiting
    /\ errors = [k \in Kinds |-> 0]

None(K) == \A k \in K : errors[k] = 0

Made == {s \in Submissions : pc[s] # "new"}

InBounds == Cardinality(Made) + SumFunction(errors) < MaxTrouble

Error(k) ==
    /\ InBounds
    /\ errors' = [errors EXCEPT ![k] = @ + 1]

Put(f, s, v) == [f EXCEPT ![s] = v]
Add(f, s, n) == [f EXCEPT ![s] = @ + n]

(***************************************************************************)
(* CreateJob.  The limit is checked first, the job and its event are       *)
(* inserted in one transaction, and only then the counter is incremented.  *)
(***************************************************************************)
Answer(s, from, to) == pc[s] = from /\ pc' = Put(pc, s, to)

\* Variant: one job more than the limit says.
AllowJobSubmissionOneMore(s) ==
    /\ Cardinality({r \in Submissions : pc[r] \in InFlight}) < MaxConcurrent
    /\ InBounds
    /\ \A r \in 1..(s - 1) : pc[r] # "new"
    /\ Answer(s, "new", IF counter[WorkspaceOf(s)] > MaxRunning
                        THEN "refused" ELSE "allowed")
    /\ UNCHANGED <<request, jobs, dispatchVars, schedVars, closeVars, counter, errors>>

AllowJobSubmission(s) ==
    /\ Cardinality({r \in Submissions : pc[r] \in InFlight}) < MaxConcurrent
    /\ InBounds
    /\ \A r \in 1..(s - 1) : pc[r] # "new"
    /\ Answer(s, "new", IF counter[WorkspaceOf(s)] >= MaxRunning
                        THEN "refused" ELSE "allowed")
    /\ UNCHANGED <<request, jobs, dispatchVars, schedVars, closeVars, counter, errors>>

\* Variant: a key may be used again once its job is over.
KeyTakenWhileActive(s) ==
    /\ KeyOf(s) # NoKey
    /\ \E r \in Submissions : /\ jobs[r] \in {"SUBMITTED", "QUEUED"}
                              /\ KeyOf(r) = KeyOf(s)

KeyTaken(s) ==
    /\ KeyOf(s) # NoKey
    /\ \E r \in Submissions : jobs[r] # "none" /\ KeyOf(r) = KeyOf(s)

InsertJobAndEvent(s) ==
    /\ jobs' = Put(jobs, s, "SUBMITTED")
    /\ outbox' = Put(outbox, s, "PENDING")

\* Variant: a known key is answered as a success, and counted.
CommitJobAnswersDuplicate(s) ==
    /\ Answer(s, "allowed", "committed")
    /\ IF KeyTaken(s) THEN UNCHANGED <<request, jobs, outbox>> ELSE InsertJobAndEvent(s)
    /\ UNCHANGED <<request, disp, schedVars, closeVars, counter, errors>>

\* idempotency_key is UNIQUE over all workspaces.
CommitJob(s) ==
    /\ IF KeyTaken(s)
       THEN Answer(s, "allowed", "error") /\ UNCHANGED <<request, jobs, outbox>>
       ELSE Answer(s, "allowed", "committed") /\ InsertJobAndEvent(s)
    /\ UNCHANGED <<request, disp, schedVars, closeVars, counter, errors>>

IncrementRunningJobs(s) ==
    /\ Answer(s, "committed", "created")
    /\ counter' = Add(counter, WorkspaceOf(s), 1)
    /\ UNCHANGED <<request, jobs, dispatchVars, schedVars, closeVars, errors>>

\* The request is answered 500: the transaction was rolled back, or it was
\* committed and the answer did not arrive; the same for the increment, which
\* also fails when the client hangs up.  The committed job stays.  (A check
\* that fails changes nothing and answers like a refusal.)
RequestError(s) ==
    /\ \/ /\ Answer(s, "allowed", "error") /\ Error("tx")
          /\ UNCHANGED <<request, jobs, outbox, counter>>
       \/ /\ ~KeyTaken(s)
          /\ Answer(s, "allowed", "error") /\ Error("tx")
          /\ InsertJobAndEvent(s)
          /\ UNCHANGED counter
       \/ /\ Answer(s, "committed", "error") /\ Error("redis")
          /\ \E n \in {0, 1} : counter' = Add(counter, WorkspaceOf(s), n)
          /\ UNCHANGED <<request, jobs, outbox>>
    /\ UNCHANGED <<request, disp, schedVars, closeVars>>

\* Variant: cancelling gives the slot back at once.
CancelJobReleases(s) ==
    /\ jobs[s] \notin {"none", "CANCELLED"}
    /\ jobs' = Put(jobs, s, "CANCELLED")
    /\ counter' = Add(counter, WorkspaceOf(s), -1)
    /\ UNCHANGED <<request, pc, dispatchVars, schedVars, closeVars, errors>>

\* CancelJob, as far as this module sees it: the counter is left alone.
CancelJob(s) ==
    /\ jobs[s] \notin {"none", "CANCELLED"}
    /\ jobs' = Put(jobs, s, "CANCELLED")
    /\ UNCHANGED <<request, pc, dispatchVars, schedVars, closeVars, counter, errors>>

CreateJob(s) == CommitJob(s) \/ IncrementRunningJobs(s)

(***************************************************************************)
(* The dispatcher: every two seconds a batch of PENDING rows, published    *)
(* and marked one by one.  created_at is the begin of the transaction, so  *)
(* the order of the rows tells nothing about the order of the commits: a   *)
(* batch is any set of them.  The answers of the marks are not looked at.  *)
(***************************************************************************)
\* Variant: failed events are selected again.
PendingOrFailed == {s \in Submissions : outbox[s] \in {"PENDING", "FAILED"}}

Pending == {s \in Submissions : outbox[s] = "PENDING"}

GetPendingOutboxEvents ==
    /\ disp.pc = "idle"
    /\ Pending # {}
    /\ \E B \in SUBSET Pending :
          /\ Cardinality(B) = Cardinality(Pending) \/ Cardinality(B) = BatchSize
          /\ Cardinality(B) <= BatchSize
          /\ disp' = [Idle EXCEPT !.pc = "publish", !.batch = B]
    /\ UNCHANGED <<requestVars, outbox, schedVars, closeVars, counter, errors>>

Publish(s) ==
    /\ disp.pc = "publish" /\ s \in disp.batch
    /\ disp' = [disp EXCEPT !.pc = "markDelivered", !.event = s]
    /\ topic' = Add(topic, s, 1)
    /\ UNCHANGED <<requestVars, outbox, sched, spawned, handled, closeVars, counter, errors>>

\* An error after the broker took the message or before; or no error, and the
\* client library wrote the message again because the first answer was lost.
PublishError(s) ==
    /\ disp.pc = "publish" /\ s \in disp.batch
    /\ Error("publish")
    /\ \/ /\ disp' = [disp EXCEPT !.pc = "markFailed", !.event = s]
          /\ \E n \in {0, 1} : topic' = Add(topic, s, n)
       \/ /\ disp' = [disp EXCEPT !.pc = "markDelivered", !.event = s]
          /\ topic' = Add(topic, s, 2)
    /\ UNCHANGED <<requestVars, outbox, sched, spawned, handled, closeVars, counter>>

\* Variant: the end of the batch is not noticed.
NextRowEndless == disp' = [Idle EXCEPT !.pc = "publish", !.batch = disp.batch \ {disp.event}]

\* After the last row of the batch the dispatcher waits for the next tick.
NextRow ==
    LET rest == disp.batch \ {disp.event}
    IN  disp' = IF rest = {} THEN Idle ELSE [Idle EXCEPT !.pc = "publish", !.batch = rest]

MarkOutboxDelivered ==
    /\ disp.pc = "markDelivered"
    /\ outbox' = Put(outbox, disp.event, "DELIVERED")
    /\ NextRow
    /\ UNCHANGED <<requestVars, schedVars, closeVars, counter, errors>>

MarkOutboxFailed ==
    /\ disp.pc = "markFailed"
    /\ outbox' = Put(outbox, disp.event, "FAILED")
    /\ NextRow
    /\ UNCHANGED <<requestVars, schedVars, closeVars, counter, errors>>

MarkError ==
    /\ disp.pc \in {"markDelivered", "markFailed"}
    /\ Error("mark")
    /\ NextRow
    /\ UNCHANGED <<requestVars, outbox, schedVars, closeVars, counter>>

\* Variant: rows are deleted by age alone.
CleanupByAge ==
    /\ \E old \in SUBSET {s \in Submissions : outbox[s] # "none"} :
          /\ old # {}
          /\ outbox' = [s \in Submissions |-> IF s \in old THEN "none" ELSE outbox[s]]
    /\ UNCHANGED <<requestVars, disp, schedVars, closeVars, counter, errors>>

\* The cleanup service, a day after the publication.
CleanupDeliveredOutboxEvents ==
    /\ \E old \in SUBSET {s \in Submissions : outbox[s] = "DELIVERED"} :
          /\ old # {}
          /\ outbox' = [s \in Submissions |-> IF s \in old THEN "none" ELSE outbox[s]]
    /\ UNCHANGED <<requestVars, disp, schedVars, closeVars, counter, errors>>

Dispatch ==
    \/ GetPendingOutboxEvents \/ MarkOutboxDelivered \/ MarkOutboxFailed
    \/ \E s \in Submissions : Publish(s)

(***************************************************************************)
(* Consume, twice: the scheduler's consumer of job.submitted and the API's *)
(* consumer of job.completed.  ReadMessage commits the offset and returns  *)
(* the message; the handler is called up to MaxAttempts times; after that  *)
(* the message goes to a dead-letter topic that nobody reads.              *)
(***************************************************************************)
Read(c, msgs, s) ==
    /\ c = Waiting
    /\ msgs[s] > 0

\* Variant: one attempt too many.
RetryOnceMore(c) == IF c.attempt <= MaxAttempts
                    THEN [c EXCEPT !.attempt = @ + 1]
                    ELSE Waiting

Retry(c) == IF c.attempt < MaxAttempts
            THEN [c EXCEPT !.attempt = @ + 1]
            ELSE Waiting

ReadSubmitted(s) ==
    /\ Read(sched, topic, s)
    /\ topic' = Add(topic, s, -1)
    /\ sched' = [job |-> s, attempt |-> 1]
    /\ UNCHANGED <<requestVars, dispatchVars, spawned, handled, closeVars, counter, errors>>

\* HandleJobSubmitted to its end: the state of the job is overwritten, and
\* there is a run with all its tasks.
HandleJobSubmitted ==
    /\ sched.job # NoOne
    /\ LET s == sched.job
       IN  /\ jobs' = Put(jobs, s, "QUEUED")
           /\ handled' = Add(handled, s, 1)
           /\ spawned' = spawned \cup {s}
    /\ sched' = Waiting
    /\ UNCHANGED <<request, pc, dispatchVars, topic, closeVars, counter, errors>>

\* What is left of HandleJobSubmitted when it ends early, before its first
\* statement, after it, or with a run inserted.
HandledInPart ==
    \/ UNCHANGED <<jobs, spawned>>
    \/ /\ jobs' = Put(jobs, sched.job, "QUEUED")
       /\ spawned' \in {spawned, spawned \cup {sched.job}}

HandlerError ==
    /\ sched.job # NoOne
    /\ Error("handler")
    /\ HandledInPart
    /\ sched' = Retry(sched)
    /\ UNCHANGED <<request, pc, dispatchVars, topic, handled, closeVars, counter>>

\* The commit of the offset fails, and this reader is past the message without
\* having returned it.  Either nobody ever reads it: the commit did take
\* effect, or a later one of the same partition comes first.  Or the next
\* rebalance or restart starts again from it; until then it is a message not
\* yet read, in a topic whose partitions have no order among them.  Which of
\* the two it will be is chosen here.
ReadError(s) ==
    /\ Error("read")
    /\ \/ /\ Read(sched, topic, s)
          /\ topic' \in {topic, Add(topic, s, -1)}
          /\ UNCHANGED done
       \/ /\ Read(comp, done, s)
          /\ done' \in {done, Add(done, s, -1)}
          /\ UNCHANGED topic
    /\ UNCHANGED <<requestVars, dispatchVars, sched, spawned, handled, announced, comp, counter>>

\* A worker that finds the run complete closes the job and announces it.
Announce(s) ==
    /\ s \in spawned
    /\ jobs' = Put(jobs, s, "FINISHED")
    /\ announced' = Add(announced, s, 1)
    /\ done' = Add(done, s, 1)
    /\ UNCHANGED <<request, pc, dispatchVars, schedVars, comp, counter>>

CloseJob(s) == announced[s] = 0 /\ Announce(s) /\ UNCHANGED errors

\* Two workers both find the run complete, or the job has two runs.
CloseJobAgain(s) == announced[s] > 0 /\ Announce(s) /\ Error("closedTwice")

\* The publication fails, which the worker only logs.
AnnounceError(s) ==
    /\ s \in spawned
    /\ announced[s] = 0
    /\ Error("announce")
    /\ jobs' = Put(jobs, s, "FINISHED")
    /\ UNCHANGED <<request, pc, dispatchVars, schedVars, closeVars, counter>>

ReadCompleted(s) ==
    /\ Read(comp, done, s)
    /\ done' = Add(done, s, -1)
    /\ comp' = [job |-> s, attempt |-> 1]
    /\ UNCHANGED <<requestVars, dispatchVars, schedVars, announced, counter, errors>>

\* Variant: the counter is not allowed below zero.
DecrementIfPositive ==
    /\ comp.job # NoOne
    /\ LET w == WorkspaceOf(comp.job)
       IN  counter' = IF counter[w] > 0 THEN Add(counter, w, -1) ELSE counter
    /\ comp' = Waiting
    /\ UNCHANGED <<requestVars, dispatchVars, schedVars, announced, done, errors>>

DecrementRunningJobs ==
    /\ comp.job # NoOne
    /\ counter' = Add(counter, WorkspaceOf(comp.job), -1)
    /\ comp' = Waiting
    /\ UNCHANGED <<requestVars, dispatchVars, schedVars, announced, done, errors>>

\* The decrement is tried again although it may have taken effect.
DecrementError ==
    /\ comp.job # NoOne
    /\ Error("release")
    /\ \E n \in {0, -1} : counter' = Add(counter, WorkspaceOf(comp.job), n)
    /\ comp' = Retry(comp)
    /\ UNCHANGED <<requestVars, dispatchVars, schedVars, announced, done>>

Schedule == HandleJobSubmitted \/ \E s \in Submissions : ReadSubmitted(s)
Release  == DecrementRunningJobs \/ \E s \in Submissions : ReadCompleted(s)

(***************************************************************************)
(* Crashes.  The API process takes its requests, the dispatcher's batch    *)
(* and the consumer's message with it, the scheduler its message and a     *)
(* handler somewhere between its statements.                               *)
(***************************************************************************)
ApiCrash ==
    /\ Error("apiCrash")
    /\ pc' = [s \in Submissions |-> IF pc[s] \in InFlight THEN "gone" ELSE pc[s]]
    /\ disp' = Idle
    /\ comp' = Waiting
    /\ UNCHANGED <<request, jobs, outbox, schedVars, announced, done, counter>>

SchedulerCrash ==
    /\ sched.job # NoOne
    /\ Error("schedulerCrash")
    /\ HandledInPart
    /\ sched' = Waiting
    /\ UNCHANGED <<request, pc, dispatchVars, topic, handled, closeVars, counter>>

Failure ==
    \/ MarkError \/ HandlerError \/ DecrementError \/ ApiCrash \/ SchedulerCrash
    \/ \E s \in Submissions : \/ RequestError(s) \/ PublishError(s)
                              \/ ReadError(s) \/ AnnounceError(s)
                              \/ CloseJobAgain(s)

Next ==
    \/ \E s \in Submissions : \/ AllowJobSubmission(s) \/ CreateJob(s)
                              \/ CancelJob(s) \/ CloseJob(s)
    \/ Dispatch \/ CleanupDeliveredOutboxEvents \/ Schedule \/ Release
    \/ Failure

Spec == Init /\ [][Next]_vars

(***************************************************************************)
(* A request that was let in runs to its end, the dispatcher ticks and the *)
(* consumers block in ReadMessage.  Requests, cancellations, the cleanup   *)
(* and failures are never forced, and neither is the end of a job: a run   *)
(* with a failed task, or with a total that came too late, is never closed.*)
(***************************************************************************)
Fairness ==
    /\ \A s \in Submissions : WF_vars(CreateJob(s))
    /\ WF_vars(Dispatch) /\ WF_vars(Schedule) /\ WF_vars(Release)

FairSpec == Spec /\ Fairness

-----------------------------------------------------------------------------
\* The messages of the jobs in S, one by one: f says how many each job has.
Messages(f, S) == UNION {{s} \X (1..f[s]) : s \in S}

\* A committed job whose row has not been closed or cancelled.
Active(w) == {s \in In(w) : jobs[s] \in {"SUBMITTED", "QUEUED"}}

\* Jobs whose creation is through with the counter, and completions the
\* consumer is through with: what the counter ought to show.
Taken(w) == {s \in In(w) : jobs[s] # "none" /\ pc[s] # "committed"}
Given(w) == Cardinality(Messages(announced, In(w))) - Cardinality(Messages(done, In(w)))
              - Cardinality({s \in In(w) : comp.job = s})
Drift(w) == counter[w] - (Cardinality(Taken(w)) - Given(w))

\* What moves a counter without a job or an announcement.
Shifting == {"tx", "redis", "read", "release", "apiCrash"}

\* Check and increment are two calls (ratelimit.go: AllowJobSubmission,
\* IncrementRunningJobs), so the limit is not kept; but the counter exceeds
\* it at most by the requests that were between the two at the same time.
OvershootBounded ==
    \A w \in Workspaces :
        counter[w] + Cardinality(Between(w)) <= MaxRunning + MaxConcurrent - 1

\* The same for what the limit is about, the jobs that are not finished, as
\* long as nothing makes the counter forget one: a lost increment, a repeated
\* decrement, a job announced or queued twice.
ActiveJobsBounded ==
    None({"tx", "redis", "release", "publish", "mark", "handler", "apiCrash", "closedTwice"})
    => \A w \in Workspaces :
          Cardinality(Active(w)) <= MaxRunning + MaxConcurrent - 1

\* The counter shows the jobs taken less the announcements received, up to
\* what went wrong: every failed call of Redis, lost commit, lost or undecodable
\* completion shifts it by one, and a crash of the API by what the process had
\* in its hands.  (Whether every job is announced, and once, is another matter:
\* see SlotsReturned.)
CounterDrift ==
    \A w \in Workspaces :
        /\ Drift(w) <= errors["release"] \div MaxAttempts
                         + errors["apiCrash"] + errors["read"]
        /\ -Drift(w) <= errors["tx"] + errors["redis"] + errors["release"]
                          + MaxConcurrent * errors["apiCrash"]

\* A key never makes two jobs, and the handler reaches its end once for the job
\* it makes, unless an event was published twice: by the client library,
\* because the row could not be marked, or because the API stopped before it
\* marked it.  (A handler that fails after CreateRun and is called again makes a
\* second run of the same job; that is not counted here.)
KeyHandledOnce ==
    /\ \A r, s \in Submissions :
          r # s /\ KeyOf(r) = KeyOf(s) /\ KeyOf(s) # NoKey => handled[r] = 0 \/ handled[s] = 0
    /\ None({"publish", "mark", "apiCrash"}) => \A s \in Submissions : handled[s] <= 1

\* What became of the event of a request.
Fate ==
    [s \in Submissions |->
        IF handled[s] > 0 THEN "done"
        ELSE IF jobs[s] = "none" THEN "absent"
        ELSE IF outbox[s] = "PENDING" \/ topic[s] > 0 \/ sched.job = s THEN "owed"
        ELSE "lost"]

\* Every lost event has a cause of its own: a failed publication (the row is
\* FAILED and never selected again), an offset whose commit failed and that was
\* passed before anyone started again from it, a scheduler that died with the
\* message, or MaxAttempts failures of the handler.  No crash of the API, no
\* failed mark, no lost answer, no cleanup loses one.
LossesAccounted ==
    Cardinality({s \in Submissions : Fate[s] = "lost"})
        <= errors["publish"] + errors["read"] + errors["schedulerCrash"]
             + errors["handler"] \div MaxAttempts

D == INSTANCE Delivery WITH Events <- Submissions, fate <- Fate

\* Outbox, dispatcher, topic and consumer implement Delivery: an event is owed
\* from the commit of its job on, also while its message waits for a rebalance
\* after a failed commit, and its fate is sealed once: what is lost (nobody
\* will read it) stays lost, and what is done is not undone.
ImplementsDelivery == D!DeliverySpec

\* Every committed job's event is handled or lost in the end (and then
\* LossesAccounted tells why): none waits for ever in outbox or topic.
EventSettles == <>[](\A s \in Submissions : Fate[s] # "owed")

\* In the end each workspace has given back exactly one slot per announcement,
\* so what is taken for good are its jobs that are never announced (cancelled
\* ones, runs that stay open, completions that were not published) and a job
\* announced twice gives back a second slot that was never its own, unless a
\* call of Redis, a commit of an offset or a crash of the API shifted the
\* counter itself.
SlotsReturned ==
    <>[](None(Shifting) => \A w \in Workspaces :
            counter[w] = Cardinality({s \in In(w) : jobs[s] # "none"})
                           - Cardinality(Messages(announced, In(w))))
=============================================================================
