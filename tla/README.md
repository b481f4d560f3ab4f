# Verification of mini-databricks

TLA+ models of the job platform, model-checked with TLC, with proofs checked by
TLAPS. Paths below are relative to the root of the repository.

## 1. The system

A client submits a job over a dataset through the API. The API writes a row of
`jobs` and an event into `outbox`; a dispatcher publishes the event to Kafka;
the scheduler consumes it and creates a run of `numPartitions` tasks; worker
processes lease the tasks, run a Python subprocess on one slice of the dataset
each, and whoever finishes the last task closes the run and the job and
publishes `job.completed`. Apart from the two Kafka topics the processes share
nothing but PostgreSQL (and a Redis counter per workspace), and there every
statement is a transaction of its own, except that `CreateJob` inserts the job
and its event in one. Kubernetes runs the workers; an autoscaler sets how many.

| component | state | operations | interacts with | hard behaviour | what makes it correct |
|---|---|---|---|---|---|
| worker (`services/worker`) | local variables of `pollAndProcess`; row of its task | lease, check cancellation, start, process, settle, count, close run | tables, Kafka, object storage | concurrency on every row, crashes, failed statements, time-outs, retries | one worker per task, settled stays settled, counters never claim too much, verdict only when all is through |
| scheduler (`services/scheduler`) | local variables of the handler | `HandleJobSubmitted` | tables, Kafka, Kubernetes | workers see its half-built run; retried and redelivered handler; crash | a total only when all tasks exist |
| job service (`internal/service/job_service.go`) | `jobs`, `outbox` | create (idempotency key, rate limit), cancel, progress | rate limiter, tables | cancel against scheduler and workers; a commit whose answer is lost | cancelled work stops, a key makes one job |
| outbox dispatcher (`internal/kafka/dispatcher.go`) | batch in hand | select, publish, mark | outbox, Kafka | crash or error between publish and mark | every committed job is handled, or its loss has a cause |
| Kafka client (`internal/kafka`) | offsets | consume with three attempts, dead letter, publish | all services | commit before handling, duplicates | the same |
| rate limiter (`internal/ratelimit`) | Redis counter per workspace | allow, increment, decrement | job service, `job.completed` consumer | check and increment apart, slots leaked | active jobs bounded, a slot returned per announcement, drift explained |
| dataset service, object storage | `datasets`, objects | initiate, upload, register, delete | MinIO, cleanup, jobs | slow upload against cleanup, client that stops or does not look | READY datasets are uploaded unless the client did not look, and stay |
| cleanup (`services/cleanup`) | none | three DELETEs an hour | tables | deletes what others use or count; fails as a whole | only abandoned rows go |
| workspace service | `workspaces` | create, update, delete with cascade | datasets, jobs | lost update in `UpdateWorkspace`, cascade against references | updates are lost to overlap only, references hold |
| autoscaler (`services/autoscaler`), Kubernetes controller (`internal/k8s`) | time of the last scaling; deployment, namespaces, Jobs | evaluate; ensure namespace, create Job | task counts, Kubernetes API | stale counts, conflicts, failed calls, operator | replicas in bounds, every stranded row has a cause, isolation complete |
| circuit breaker (`internal/circuitbreaker`) | failures in a row, state | external library | `LeaseTask` | half open after an outage | polls resume |
| Python task runner | none | slice a dataset, run the script, upload | object storage | integer division, slices cut at different times | each row once |
| API gateway, user service, Python SDK, frontend | tokens | HTTP | services | | |

`PROJECT.json` lists for each component what is modelled, and the hazards line
by line with the properties that would catch them.

## 2. Modules

| module | role |
|---|---|
| `Queries` | rows of `jobs`, `runs`, `tasks` and each SQL statement as a function of a row |
| `RunExecution` | scheduler, workers, `CancelJob`, task runner, leases, cleanup of old tasks, faults and crashes |
| `TaskLease` | abstract specification of leasing: waiting, held, settled, abandoned |
| `JobSubmission` | `CreateJob`, rate limiter, outbox, dispatcher, both topics and consumers, crashes |
| `Delivery` | abstract specification of an event: absent, owed, done, lost |
| `Catalog` | workspaces, datasets, the jobs that refer to them; uploads, cleanup, deletions, PATCH |
| `Cluster` | autoscaler, operator, pods with their breakers, database outage, the scheduler's Kubernetes calls |
| `MCRunExecution`, `MCJobSubmission`, `MCCatalog`, `MCCluster` | the sets TLC uses |
| `RunExecutionProofs`, `TaskLeaseProofs`, `JobSubmissionProofs`, `CatalogProofs`, `ClusterProofs` | theorems: types, exclusion, references, refinements |
| `RunCountersProofs` | theorems about the counters, verdicts and outputs of a run; extends `RunExecutionProofs` |
| `SubmissionAccountsProofs` | theorems about lost events and drifting counters; extends `JobSubmissionProofs` |

`RunExecution` composes three kinds of process on the statements of `Queries`
and implements `TaskLease` under the mapping `TaskStatus`, `Holds`.
`JobSubmission` composes the API process, the scheduler and the brokers between
them and implements `Delivery` under the mapping `Fate`. The four component
modules meet at narrow places: what `JobSubmission` knows of a run is that it
exists and may be closed (`spawned`, `CloseJob`), and `RunExecution` says how and
when; for `Cluster` tasks are numbers, and what becomes of a LEASED row whose
worker is gone is again `RunExecution`'s subject; `Catalog` knows of a job what
it refers to.

### How `RunExecution` corresponds to the code

* `jobs`, `runs`, `tasks` are the tables; `created` numbers the runs in the
  order of insertion (that is `ORDER BY created_at`). A task is the pair of its
  run and its `partition_index`. Of `lease_expires_at` only NULL, in the future
  or in the past is kept, of a state enum only the values some statement writes.
* `sched` is `HandleJobSubmitted` inside `Consume`: its program counter, `run`
  and loop index, and the attempt. `inbox` holds the published events not read.
* `cancel` is one `CancelJob` request per job.
* `pc[w]`, `work[w]` are the program counter of `pollAndProcess` and the local
  variables that outlive a statement: the leased task with the `RetryCount` it
  was read with, `totalTasks`, the total and verdict of `checkAndCompleteRun`.
* `outputs`, `artifacts` and `completed` are what leaves the database: uploads,
  artifact rows, `job.completed` events. Only the upload remembers
  TOTAL_PARTITIONS.
* One action is one statement. The guard of an action is the program counter
  and the code's condition; there is no condition where the SQL has none: the
  UPDATEs by id overwrite whatever is there.
* `WorkerError` is a failed statement: where the code logs and goes on
  (`GoesOn`), or returns and leaves the row as it is (`GivesUp`). A statement
  that took effect and whose answer was lost is, at every other place, the
  statement followed by the error of the next one; for
  `UpdateTaskState(SUCCEEDED)` it is a disjunct of its own. (The one that is
  left out: `InitRunProgress` written and answered with an error, which leaves
  `tasks_pending` set in a run the handler abandons.)
* `HandlerError` is the consumer's retry or the dead letter; nobody reads the
  dead-letter topic. The offset is committed by `ReadMessage`, so
  `SchedulerCrash` loses the event.
* A worker stopped by SIGTERM cancels its context before its statements, so it
  leaves the same rows as a killed one: `WorkerCrash`. The restarted process has
  a new `workerID`, so a crashed worker never comes back in the model; the other
  members of `Workers` stand for the processes started later.
* `Claim` takes the oldest leasable row. With SKIP LOCKED a statement may pass
  over a row another one is about to take; as both commit, they commute with
  the atomic claims in one order or the other.
* `Slice` is `download_partition`: Python's `iloc` cuts a slice off where the
  data ends, so it is a set of the rows that exist.
* `CleanupDeadTasks` deletes DEAD and FAILED rows by `created_at`, oldest first:
  those not younger than some task. A run may be that old while it goes on.
  `purged` is the set of tasks whose row is gone; `tasks` keeps the last state of
  such a row, for the properties. The one statement that can tell is
  `GetRunTaskCount` (in `Load`): nobody writes a settled row again, as the proofs
  show (`OwnRowLeft`), and the counters are columns of `runs`.
* `Heartbeat` only matters when the lease is not live; a heartbeat that gives
  up after an error is a heartbeat that is not sent, and none is forced.
* The subprocess (`Exec`) succeeds, fails before, or fails after its upload (a
  time-out may strike in between). All errors of `process` are transient to
  `joberrors.IsTransient`, since none is a `JobError`.

### How `JobSubmission` corresponds to the code

* A request is a number, in order of arrival; `request[s]` is its workspace and
  `idempotency_key`, `pc[s]` the call of `CreateJob` that comes next, `jobs[s]`
  and `outbox[s]` the two rows its transaction inserts. Transaction, check and
  increment are three calls of two servers, so they are three actions; the
  transaction is one (`pool.Begin` to `Commit`).
* `idempotency_key` is UNIQUE in the table, not per workspace: `KeyTaken`. The
  handler answers the violated constraint with an error like any other.
* `disp` is the dispatcher's goroutine: the batch `GetPendingOutboxEvents`
  returned, published and marked row by row. `created_at` is the time a
  transaction begins, so the oldest ten rows may be any ten: a batch is any set.
* `topic`, `done` count the copies of a message not read yet. Messages of one
  topic may be read in any order, since the topics have several partitions.
  `sched` and `comp` are the two `Consume` loops; `Retry` is the loop of three
  attempts and the dead letter, which nobody reads.
* `ReadError` is a commit of the offset that fails: `ReadMessage` returns an error
  and the reader is past the message. It is lost for good if the commit took
  effect or a later one of its partition succeeds; otherwise the next rebalance
  or restart reads it again. The model decides at once which it will be, and a
  message that comes back is one that was not read yet.
* A handler that fails, and a scheduler that crashes in one, leave the same behind
  (`HandledInPart`): nothing, a QUEUED job, or a run that workers execute.
* `CloseJob`, `CloseJobAgain`, `AnnounceError` stand for the workers: they may close
  the job of an existing run, and need not (a run with a failed task stays open), a second time if two workers find the run complete
  or the job has two runs, and publish `job.completed`.
* `errors` counts, per kind, what went wrong: a failed call with or without
  effect, a crash of either process. It bounds the model and is what the
  properties that explain a deviation refer to (`CounterDrift`, `LossesAccounted`).

### How `Catalog` corresponds to the code

* The tables are what their foreign keys say (`internal/db/migrations`): a
  workspace takes its datasets and jobs with it, a dataset that a job refers to
  cannot be deleted, and the check happens at the end of the statement.
* `upload[d]` is the client: `InitiateUpload`, PUT to the signed URL,
  `CompleteUpload`. `age` keeps of the clock what somebody compares: the 15
  minutes of the URL and the day of the cleanup. `unchecked` remembers where a
  client registered without a PUT that succeeded: a refused one (`JobsPage.tsx`
  does not look at the status of the answer, the SDK does) or none at all.
* `CompleteUpload` and `CreateJob` look neither at the state of the dataset nor,
  for a job, at its workspace; nor do the actions.
* `patch[c]` is `UpdateWorkspace`: the row it read, the columns the request sets.
  The values of the columns are the clients that set them. `from`, `at`, `writes`
  and `removed` are history for the properties.

### How `Cluster` corresponds to the code

* `scaler` is `evaluate`, one action per call: two counts, `GetWorkerReplicas`,
  the second read of the deployment in `SetWorkerReplicas`, and its update. The
  API server refuses an update whose version is not the last (`conflict`).
  `cooling` is `lastScaleAt`, which a restart forgets. `missed` and `downs` are
  history: the deployment changed between the two reads; updates that took a
  replica away.
* `pods` are the pods of the deployment, each a worker that is idle or has a task
  and the breaker in it: state and failures in a row. The automaton is the
  library's (external), its settings are those of `circuitbreaker.New`; each
  process has its own.
* `jobPods` are the workers of the Kubernetes Jobs `CreateWorkerJob` makes: they
  run the same loop and nothing ever deletes the Job.
* `Settle` is what a worker does last with its task: it is done, put back for a
  retry, or the statement that should say so fails (because the database is
  down, or by itself) and the row stays LEASED while the worker polls on.
* Namespaces are named by the first eight characters of the workspace's id, so
  two workspaces may share one: `NamespaceOf`, any function.
* `sched` are the calls at the end of `HandleJobSubmitted`. A call may fail
  whether or not it took effect; the scheduler logs and goes on, except that a
  failed creation ends `EnsureNamespace`.
* `abandoned` are rows left LEASED with no worker at them; they stay, and count
  as running. `faults`, `operated` and `outages` count what went wrong.

### Variants

Definitions marked "Variant" are not part of the specification: each is a
plausible mistake in the definition that follows it, and the mutants of
`PROJECT.json` use them to show that every property can be violated.

## 3. Runs

The runs `Run...` and `Find...` instantiate `MCRunExecution` with one job.
"Symmetric" runs permute the workers (no liveness property is checked with
symmetry). The deadlock check is off in all: workers, tickers and consumers go
on for ever in the code, and a bounded model in which all work is done, or all
bounds are used up, has no step left.

| run | instance | checks |
|---|---|---|
| `RunCrashes` | 2 workers, 2 partitions, 1 retry, 1 crash, 1 expired lease; symmetric | `TypeOK`, `LeaseExclusive`, `PendingIsFree`, `SucceededRunComplete`, `RowsProcessedOnce`, `TerminalTaskStable` |
| `RunFaults` | 2 workers, 2 partitions, 1 retry, 1 failed statement; symmetric | `CountersSound`, `RetriesBounded`, `VerdictSound`, `PartitionInRange`, `ImplementsTaskLease` |
| `RunRedelivery` | 1 worker, 2 partitions, 2 attempts, 2 runs, 1 fault, 1 crash | `TotalIsWhole`, `VerdictSound` |
| `RunLiveness` | 2 workers, 2 partitions, no retry, 1 crash, fair | `CancelDrains`, `SuccessfulRunCloses`, `TasksSettle` |
| `Submission` | 1 workspace, limit 1, batches of 1, 2 attempts, at most 2 requests between check and increment, 3 requests (with and without a repeated key), failures and crashes together; fair | `TypeOK`, `OvershootBounded`, `ActiveJobsBounded`, `CounterDrift`, `KeyHandledOnce`, `LossesAccounted`, `ImplementsDelivery`, `EventSettles`, `SlotsReturned` |
| `Catalog` | 2 workspaces, 2 datasets, 1 job, 2 PATCH requests, 3 of uploads, jobs and patches together | `TypeOK`, `ReadyIsUploaded`, `CompletedStays`, `ReferencesHold`, `UpdatesLostToOverlapOnly` |
| `Cluster` | 2 workspaces that share a namespace, 1 to 2 workers, thresholds 1 and 0, breaker of 2 failures, 2 runs of 2 tasks, 1 failure, crash, retry, outage or change by an operator; fair | `TypeOK`, `ReplicasInBounds`, `IsolationComplete`, `OverrulesOnlyUnseen`, `StrandedRowsCharged`, `BacklogScales`, `IdleShrinks`, `PollingResumes` |

What the last three say, where the code does not do what one would wish:

* The limit is not a limit: requests pass the check together. `OvershootBounded`
  and `ActiveJobsBounded` say by how much.
* A slot is given back by an announcement and by nothing else. A cancelled job
  whose tasks end DEAD, a run with a failed task and a run whose total came too
  late are never announced, and their slots are gone for good without any call
  having failed; so is the slot of a job whose completion could not be published,
  and a job announced twice gives back two. `SlotsReturned` says exactly this: in the end the counter
  is the number of jobs less the announcements, unless a call that moves the
  counter failed. `CounterDrift` says how far those failures move it.
* An event may be lost: `LossesAccounted` names the four causes and shows that
  each accounts for one event; `ImplementsDelivery` that what nobody will read any
  more stays lost and what was handled stays handled, while an event whose
  offset was not committed is still owed; `KeyHandledOnce` that a key makes one job
  and when its event is handled to the end twice. It counts handlers that
  finished: one that fails after `CreateRun` and is called again makes a second
  run of the same job, and deleting the workspace frees the key.
* An update of a workspace may be lost, to an overlapping request and nothing else.
* One job that refers to an abandoned dataset keeps all abandoned rows in the
  table, as the DELETE fails as a whole (no property: nothing promises that
  abandoned rows go); one row left LEASED keeps the fleet from shrinking
  (`IdleShrinks`); a namespace whose policy or quota failed is never completed
  (`IsolationComplete`).
* A scale-down decided on an old count may take a worker with its task along:
  `StrandedRowsCharged` says that it costs one task at most, and that no row stays
  LEASED without a scale-down, a failed call or a crash of its own, as long as no
  operator scales and the database answers.
* The web page registers a dataset whose PUT was refused, and any client may
  register one it never sent; `ReadyIsUploaded` excepts exactly those, and shows
  that deletions, cleanup, expiry and slow clients make no other.
* The cleanup of old tasks takes rows a worker counts: the partition asked for may
  be beyond the last slice, by as many as were deleted (`PartitionInRange`).

Bounds. `MaxRuns`, `MaxAttempts`, `MaxDeliveries` limit how often the handler
runs, `MaxFaults`, `MaxCrashes`, `MaxExpiries` what the environment does. Two
workers and two partitions are the least with two workers on one run, a worker
on its second task, and a task each; the runs that look for a violation use three
partitions, the code's number, where that is cheap. One fault, crash or expiry can strike at every
statement, and the hazards listed are single failures; two attempts and two runs
are the least with an abandoned run beside a live one. In `JobSubmission`
requests, failures and crashes share one budget (`MaxTrouble`, each up to
three): two requests and one failure, or one request and two failures (a
publication that fails and a crash, two failed attempts and the dead letter), in
every order. A limit of 1 and batches of 1 are reached by two requests, and two
requests between check and increment are the least that overshoot. In `Catalog`
`MaxRequests` lets two uploads meet one job, two patches one upload, and two
workspaces give a job that refers to the dataset of another workspace. In
`Cluster` `MaxReplicas`, `MaxRuns` and `MaxTrouble` bound the operator, the load
and what goes wrong; 1 to 2 workers give both directions and both limits, and
four tasks are more than two workers take at once. Where the theorems below hold,
no bound matters.

Fairness. `SchedulerStep`, each `CancelStep` and each `WorkerStep` are weakly
fair: the consumer blocks in `ReadMessage`, requests run to their end, workers
poll every two seconds and the subprocess has a time-out. Receiving a
cancellation (`CancelMark`), faults, crashes, expiries, heartbeats, errors are
never forced, and a crashed worker is not fair (its `WorkerStep` is disabled).
`RunLiveness` allows no fault: a failed statement legitimately leaves a row
LEASED (the hazard at `worker.go:116`).

`JobSubmission`: a request that was let in runs to its end, the dispatcher's
ticker ticks, and the two consumers block in `ReadMessage`. Requests,
cancellations, the cleanup, failures and crashes are never forced, nor is the
end of a job: `worker.go:188` and `scheduler.go:106` leave runs open with no call
having failed. `Catalog` assumes no fairness; no client has to finish.
`Cluster`: the autoscaler's ticker and cooldown, the breaker's time-out,
Kubernetes starting a pod, a worker's poll, and the end of an outage. Tasks may
take for ever, no pod has to be stopped, no event has to arrive: so
`BacklogScales` is about the scaling and not about workers that are quick.

### What the code does not keep

Five runs check a sentence of the repository and find it violated.

| run | what happens |
|---|---|
| `FindLeaseReclaimed` | a crashed worker's task stays LEASED with an expired lease: `LeaseTask` selects PENDING only, so its condition on `lease_expires_at` never matters (`PendingIsFree`) |
| `FindRunEndsTerminal` | the last task to finish fails permanently: only successes look whether the run is complete |
| `FindAllSucceeded` | all tasks succeed before the scheduler sets `tasks_total` |
| `FindCancel` | the scheduler inserts a run after `CancelJob` listed them |
| `FindPartitions` | TOTAL_PARTITIONS counts the rows inserted so far, not the partitions of the run |

The passing properties say what remains true: `SuccessfulRunCloses`, for
instance, is `RunEndsTerminal` without the failed and killed tasks, and
`TasksSettle` excepts exactly the tasks `LeaseReclaimed` is about.
`SucceededRunComplete` is stated for executions without a failed statement:
after one, a total of 0 with a lost count is taken for "all done"
(`worker.go:372`), and no property of the project excludes that.
`RowsProcessedOnce` needs the subprocesses of the run to agree on the number of
slices, which `FindPartitions` shows they need not: with three partitions a task
cut for two slices beside one cut for three loses or repeats rows.

Without a run of its own: a retried task is started twice, so `tasks_pending`
reaches -1 (the hazard at `worker.go:135`).

## 4. Proofs

Assumptions: what the `ASSUME`s of the modules say of the constants (naturals,
positive where the code divides or counts up to them, `NoOne` and `NoKey` are
none of the members); nothing is assumed of the size of a set.

`RunExecutionProofs`, for every number of jobs, workers, partitions, retries,
attempts, runs, faults, crashes and expiries:

* `TypeCorrect`: `Spec => []TypeOK`. Inductive with `SchedInv`, what the
  scheduler's program counter says of its variables (the run it fills is the
  last one, the loop index is a partition): `TypeOK` alone does not exclude a
  loop index that is out of range.
* `LeaseIsExclusive`: `LeaseExclusive` is not inductive, since it says nothing
  of a worker that is done with its task and still writes by id. `OwnerInv` is:
  a worker owns the row of the task it took until `pollAndProcess` returns, and
  where the worker is tells the state of the row. Two lemmas carry it:
  `WorkerWrites` and `OtherWrites` enumerate what a step may do to the row of a
  task, and the step lemmas argue about those cases only.
* `TotalsAreWhole` and `PendingStaysFree`, with `FreshInv`: the tables are filled
  in order, nothing exists of a run that was not inserted, and of the run under
  construction exactly the first tasks do.
* `TerminalTasksStable`: `TerminalTaskStable`, from the same invariant.
* `LeaseRefinement`: `Spec => ImplementsTaskLease`. Every step of a worker takes
  one task, keeps the one it has, or lets it go (`WorkerMoves`); the scheduler
  only adds tasks; everything else is invisible. `OneOwner` (from `OwnerInv`)
  makes the task that is let go of held by nobody else.
* `RetriesAreBounded`: `RetriesBounded`, with `RetryInv`: the `RetryCount` a
  worker remembers is the one in the row as long as it holds the task.

* `SlicesPartitionRows`: for every number of rows and slices, each row is in
  exactly one slice. Slices with a smaller index end before one with a larger
  begins, and the quotient of the row by the size is the index of its slice,
  unless it is in the last.

`RunCountersProofs`, on top of these invariants:

* `CountersAreSound`: `CountersSound` is not inductive, since it does not tell a
  task that was counted from one that is about to be. `CountInv` is: a task is
  through (`Through`) when its row is settled, or LEASED for good, and no worker
  is still on its way to count it; `done` is at most the number of tasks that
  won, `done + failed` at most the number that are through. Nothing that is
  through comes back (`SettledGrows`), and a worker that counts makes one more
  task through (`OneMore`), so a lost `TaskSucceeded` only loosens the bound.
* `VerdictsAreSound`: `VerdictSound`, with `ClosedInv` for the workers that have read the
  counters and not yet written the run. At `assess` the counters reach the
  total, so by `CountInv` the tasks that are through are as many as the
  partitions, and a subset of a finite set of the same size is the whole set
  (`WholeRun`). Being through is stable, so the verdict survives until it is
  written.
* `PartitionsAreInRange`: `PartitionInRange`, with `PrefixInv`: the tasks of a run are
  inserted in order, so a task that exists has all smaller ones beside it, and a
  count taken later includes those whose rows are still there (`RowsLeft`). By
  `PurgedInv` only DEAD and FAILED rows were deleted, so the worker's own is among
  them and the number of slices is not 0 (`OwnRowLeft`); deleted rows stay deleted
  (`PurgedGrows`), so the bound taken at the count holds until the subprocess runs.
* `SucceededRunsAreComplete`: `SucceededRunComplete`. The invariant `FaultFreeInv` is a
  conditional one (`faults = 0 => ...`): `StoreInv` follows a task from the lease
  over output and artifact to the counter; `CloseInv` says that whoever reads the
  counters has counted a success before, so that nobody finds no task done of
  a total that is still 0 and closes the run on that. A failed `TaskSucceeded`
  makes just this possible.
* `AnyRowIsProcessedOnce` and its instance `RowsAreProcessedOnce` (`RowsProcessedOnce`)
  combine it with `SlicesPartitionRows`. The run tries datasets of a few sizes;
  the theorem holds for every number of rows.

`TaskLeaseProofs` proves `OneHolderAlways`: the abstract lease never has two
holders of one task.

`JobSubmissionProofs`, for every limit, batch size, number of attempts, request
and failure:

* `SubmissionTypes`: `TypeOK`.
* `OvershootIsBounded`: `OvershootBounded` is inductive with `TypeOK`. The sum of
  the counter and of the requests between check and increment grows only when a
  request is let in (`OneEnters`), and then the counter was below the limit and
  fewer than `MaxConcurrent` were in between; an increment moves one from the
  second term to the first (`OneCounted`); every other step adds none
  (`NoneEnters`).
* `ChainInvariant`: `ChainInv`, the inductive core of the two that follow. Rows in
  the dispatcher's batch are PENDING in the table (there is one dispatcher and
  the cleanup takes DELIVERED rows only), and nothing of an event exists before
  its job is committed.
* `DeliveryRefinement`: `Spec => ImplementsDelivery`. Every step leaves all fates
  as they are (`FateStays`) or moves one of them along an edge of `Delivery`
  (`FateMoves`).
* `KeysAreHandledOnce`: `KeyHandledOnce`, with `KeysUnique` (of the rows of `jobs` at most
  one has a key) and `OnceInv` (unless something was published twice, an event is
  in one place: not yet published, in the topic, in the handler's hands, handled).

`SubmissionAccountsProofs`, from the invariants above (`ChainInv`, `OnceInv`):

* `LossesAreAccounted`: `LossesAccounted` counts lost events against failures, and is
  not inductive because the failures of an attempt come before the loss.
  `LossInv` charges them at once: `MaxAttempts` times the lost events that no
  failed publication, failed commit or crash excuses, plus the failed attempts
  of the event in hand, is at most the number of handler failures. `Gone` also
  holds the event between `publish` failing and `MarkFailed`. The property
  follows by dividing (`TimesQuotient`); the product of two variables is kept out
  of the solver's way by `TimesOneMore` and `TimesMonotone`.
* `CounterDriftIsBounded`: `CounterDrift`, both directions at once, per workspace
  (`DriftInv`). The slots taken, the messages not yet consumed and the decrement in
  hand are finite sets, and `MessageAdded`, `MessageRemoved` say what one message
  more or less does to their size. `AccountSteps` and `RequestSteps` sort all steps
  into those that move a slot from one account to another, and those that lose
  or forget one and note an error. `SlotInv` bounds what a crash of the API can
  take along by `MaxConcurrent`.
* `ActiveJobsAreBounded`: `ActiveJobsBounded`. `OverInv`, from `OnceInv`: without a second
  delivery a job is announced at most once, and is over then. So messages and
  announced jobs are equally many (`AnnouncedOnce`, a bijection), a job that is not
  over has a place in the counter or a request in between, and
  `OvershootBounded` and `CounterDrift` bound those.
* `SlotsAreReturnedAtRest`: `SlotsReturnedAtRest`, the safety half of the liveness
  property `SlotsReturned`. If no call that moves the counter failed, no request is
  between check and increment and no completion is unread, the counter of every
  workspace is the number of its jobs less the announcements, whatever became of
  the jobs: the drift is 0 in both directions by `CounterDrift`, and all accounts
  it compares are then jobs or announcements. What TLC adds, under fairness and
  on its instance, is that the two come to rest.

`CatalogProofs`, for every set of workspaces, datasets, jobs, clients and columns:

* `CatalogTypes`; `ReadyMeansUploaded` and `CompletedUploadsStay` from `UploadInv`:
  a client about to register has its file in storage or is noted as `unchecked`
  (`ReadyIsUploaded` says nothing of a row that is not READY yet). `CompletedStays`
  is inductive by itself.
* `ReferencesAlwaysHold`: `ReferencesHold`; cascade and condition of each deletion
  together leave no dangling row.
* `UpdatesAreLostToOverlapOnly`, with `PatchInv`: of every value acknowledged before
  a pending request read the row, the row it read holds the value, or the value
  was overwritten in the sense of the property by then; so writing that row back
  loses only what was written in between.

`ClusterProofs`, for every range of replicas, thresholds and number of pods:

* `ClusterTypes`; `ScalerInvariant`: `ScalerInv` says what the local variables of
  `evaluate` mean: the target is one away from the replicas it read, inside the
  bounds, and those are still the replicas unless the change is noted.
* `ReplicasStayInBounds` and `OverrulesAreUnseen` follow from it.
* `StrandedRowsAreCharged`: `StrandedRowsCharged` is not inductive, since an update
  comes before the pod it stops. `StrandedInv` charges the pods that are still too
  many at once: they and the abandoned rows together are at most the scale-downs
  and the faults. A pod that is stopped moves from one account to the other.
* `IsolationIsComplete`, with `IsolationInv`: while `EnsureNamespace` is at the policy
  or the quota, the parts before are there unless a call failed.

The invariants that are new in each proof (`CountInv`, `ClosedInv`, `RangeInv`,
`FaultFreeInv`, `LossInv`, `SlotInv`, `OverInv`, `StrandedInv`, `SlotsReturnedAtRest`) were checked by
TLC on the instances of the runs before they were proved.

Only model-checked: the liveness properties (`TasksSettle`, `CancelDrains`,
`SuccessfulRunCloses`, `EventSettles`, `SlotsReturned`, `BacklogScales`,
`IdleShrinks`, `PollingResumes`), since fairness and ENABLED are out of the
prover's reach, and the five violated properties. Every invariant and every
action property of a passing run is a theorem.

## 5. Not modelled, and the plan

Left to do, all of it proofs:

1. What is true when a run comes to rest, as for `SlotsReturned`: the safety halves
   of `SuccessfulRunCloses`, `TasksSettle` and `EventSettles`.
2. That every implementation of `Delivery` seals a fate once, beside
   `OneHolderAlways` for `TaskLease`.

Left out of `RunExecution` and `JobSubmission`: deleting a workspace also deletes
its jobs, their runs and tasks, under the hands of scheduler and workers, and
frees their idempotency keys (`ON DELETE CASCADE` in `internal/db/migrations`). The
cascade is modelled in `Catalog`, as far as datasets and jobs; the properties of
the other modules are about workspaces that are not deleted.

Left out, because there is no behaviour to check:

* users, tokens and authentication: one INSERT guarded by a UNIQUE column, no
  state machine;
* handlers and service methods that only read (`GetJob`, `ListJobs`,
  `GetJobProgress`, ...), parsing of requests, probes;
* `DeleteWorkerJob`, `UpdateDatasetState`, the breaker around object storage,
  `audit_logs`: nothing calls or writes them;
* `Job.wait` of the SDK, which polls and changes nothing; that a run need not
  become terminal is `FindRunEndsTerminal`;
* the frontend apart from its upload, configuration, logging, metrics, telemetry,
  build and deployment files, the contents of datasets, scripts and results.
