---------------------------- MODULE RunExecution ----------------------------
(***************************************************************************)
(* What happens to a job between its job.submitted event and the verdict   *)
(* on its run: the scheduler's event handler, the workers' poll loop, the  *)
(* API's CancelJob and the cleanup of old tasks, four kinds of process     *)
(* that share nothing but the tables jobs, runs and tasks.  One action is  *)
(* one statement against the database (or one call of the Python           *)
(* subprocess, or one publication), so every interleaving of the           *)
(* statements of all processes is a behaviour.                             *)
(*                                                                         *)
(* A statement may fail (MaxFaults bounds how often), a worker or the      *)
(* scheduler may stop between any two statements (MaxCrashes).  A worker   *)
(* told to stop by SIGTERM behaves as one that is killed: its context is   *)
(* cancelled first, so none of its later statements reaches the database.  *)
(***************************************************************************)
EXTENDS Queries

CONSTANTS Jobs,           \* the jobs whose job.submitted events are consumed
          NumPartitions,  \* tasks per run (3 in the scheduler)
          MaxRetries,     \* max_retries of the jobs
          MaxAttempts,    \* calls of the handler per event (3 in the consumer)
          MaxDeliveries,  \* bound: copies of one job.submitted event
          MaxRuns,        \* bound: rows of the table runs
          MaxFaults,      \* bound: failed statements
          MaxCrashes,     \* bound: crashes of workers, scheduler and API
          MaxExpiries     \* bound: leases that run out

ASSUME ConstantsAssumption ==
    /\ NumPartitions \in Nat \ {0}
    /\ MaxRetries \in Nat
    /\ MaxAttempts \in Nat \ {0}
    /\ MaxDeliveries \in Nat \ {0}
    /\ MaxRuns \in Nat
    /\ MaxFaults \in Nat
    /\ MaxCrashes \in Nat
    /\ MaxExpiries \in Nat

ASSUME NoJobAssumption == NoOne \notin Jobs

VARIABLES jobs,      \* table jobs: the state of each job
          runs,      \* table runs
          tasks,     \* table tasks
          created,   \* how many rows runs has; run r is the r-th inserted
          inbox,     \* job.submitted events not read yet, per job
          sched,     \* the scheduler: program counter and local variables
          cancel,    \* CancelJob, one request per job
          pc, work,  \* the workers: program counter and local variables
          outputs,   \* object storage: TOTAL_PARTITIONS an output was cut with
          artifacts, \* table artifacts: rows per task
          completed, \* job.completed events published, per job
          faults, crashes, expiries,  \* what the environment did so far
          purged     \* tasks whose row the cleanup service has deleted; tasks
                     \* still tells the state the row was last in

dbVars    == <<jobs, runs, tasks, created>>
schedVars == <<inbox, sched>>
workVars  == <<pc, work>>
storeVars == <<outputs, artifacts, completed>>
envVars   == <<faults, crashes, expiries, purged>>
vars      == <<dbVars, schedVars, cancel, workVars, storeVars, envVars>>

Runs       == 1..MaxRuns
Partitions == 0..(NumPartitions - 1)
Tasks      == Runs \X Partitions   \* (run, partition_index)

RunOf(t)   == t[1]
TasksOf(r) == {t \in Tasks : RunOf(t) = r /\ tasks[t].state # "NONE"}   \* inserted
PurgedOf(r) == {t \in purged : RunOf(t) = r}

\* ORDER BY created_at: a run's tasks are inserted in order, and the only
\* scheduler inserts one run after the other.
Older(t, u) == t[1] < u[1] \/ (t[1] = u[1] /\ t[2] < u[2])

\* Where a worker is in pollAndProcess, by the statement it executes next.
Leaving == {"credit", "assess", "closeRun", "closeJob", "announce", "countFail"}
Holding == {"leased", "kill", "start", "load", "exec", "register", "recheck",
            "succeed", "failed", "retry", "fail"}

NoWork    == [task |-> NoOne, retries |-> 0, parts |-> 0,
              total |-> 0, verdict |-> "none"]
Work      == [task : Tasks \cup {NoOne}, retries : Nat, parts : Nat,
              total : Nat, verdict : {"none", "SUCCEEDED", "FAILED"}]
Consuming == [pc |-> "consuming", job |-> NoOne, run |-> 0, next |-> 0,
              attempt |-> 0]

TablesOK ==
    /\ jobs \in [Jobs -> JobStates]
    /\ runs \in [Runs -> RunRow(Jobs \cup {NoOne})]
    /\ tasks \in [Tasks -> TaskRow]
    /\ created \in 0..MaxRuns

SchedulerOK ==
    /\ inbox \in [Jobs -> 0..MaxDeliveries]
    /\ sched \in [pc : {"consuming", "queue", "run", "tasks", "total", "progress"},
                  job : Jobs \cup {NoOne}, run : 0..MaxRuns,
                  next : 0..NumPartitions, attempt : 0..MaxAttempts]

CancelOK == cancel \in [Jobs -> [pc : {"none", "list", "loop", "aborted"},
                                 todo : SUBSET Runs]]

WorkersOK ==
    /\ pc \in [Workers -> {"polling", "down"} \cup Holding \cup Leaving]
    /\ work \in [Workers -> Work]
    /\ \A w \in Workers :
          /\ pc[w] \in Holding \cup Leaving => work[w].task \in Tasks
          /\ pc[w] \in {"closeRun", "closeJob"} =>
                work[w].verdict \in {"SUCCEEDED", "FAILED"}

StorageOK ==
    /\ outputs \in [Tasks -> Nat]
    /\ artifacts \in [Tasks -> Nat]
    /\ completed \in [Jobs -> Nat]

EnvironmentOK ==
    /\ purged \subseteq Tasks
    /\ faults \in 0..MaxFaults
    /\ crashes \in 0..MaxCrashes
    /\ expiries \in 0..MaxExpiries

TypeOK == TablesOK /\ SchedulerOK /\ CancelOK /\ WorkersOK /\ StorageOK /\ EnvironmentOK

Init ==
    /\ jobs = [j \in Jobs |-> "SUBMITTED"]
    /\ runs = [r \in Runs |-> NoRun(NoOne)]
    /\ tasks = [t \in Tasks |-> NoTask]
    /\ created = 0
    /\ inbox \in [Jobs -> 1..MaxDeliveries]
    /\ sched = Consuming
    /\ cancel = [j \in Jobs |-> [pc |-> "none", todo |-> {}]]
    /\ pc = [w \in Workers |-> "polling"]
    /\ work = [w \in Workers |-> NoWork]
    /\ outputs = [t \in Tasks |-> 0]
    /\ artifacts = [t \in Tasks |-> 0]
    /\ completed = [j \in Jobs |-> 0]
    /\ faults = 0
    /\ crashes = 0
    /\ expiries = 0
    /\ purged = {}

Fault == faults < MaxFaults /\ faults' = faults + 1 /\ UNCHANGED <<crashes, expiries, purged>>
Stop  == crashes < MaxCrashes /\ crashes' = crashes + 1 /\ UNCHANGED <<faults, expiries, purged>>

(***************************************************************************)
(* The scheduler: one consumer of job.submitted that calls                 *)
(* HandleJobSubmitted up to MaxAttempts times per event.  The offset is    *)
(* committed when the event is read, before the handler runs.              *)
(***************************************************************************)
SchedAt(p)   == sched.pc = p
SchedGoto(p) == sched' = [sched EXCEPT !.pc = p]

Receive(j) ==
    /\ SchedAt("consuming")
    /\ inbox[j] > 0
    /\ inbox' = [inbox EXCEPT ![j] = @ - 1]
    /\ sched' = [Consuming EXCEPT !.pc = "queue", !.job = j, !.attempt = 1]
    /\ UNCHANGED <<dbVars, cancel, workVars, storeVars, envVars>>

\* UpdateJobState(QUEUED), whatever the state of the job is.
MarkQueued ==
    /\ SchedAt("queue")
    /\ jobs' = [jobs EXCEPT ![sched.job] = "QUEUED"]
    /\ SchedGoto("run")
    /\ UNCHANGED <<runs, tasks, created, inbox, cancel, workVars, storeVars, envVars>>

\* Variant: the run is inserted with its total.
InsertRunSized ==
    /\ SchedAt("run")
    /\ created < MaxRuns
    /\ created' = created + 1
    /\ runs' = [runs EXCEPT ![created + 1] =
                  UpdateRunTasksTotal(CreateRun(sched.job), NumPartitions)]
    /\ sched' = [sched EXCEPT !.pc = "tasks", !.run = created + 1, !.next = 0]
    /\ UNCHANGED <<jobs, tasks, inbox, cancel, workVars, storeVars, envVars>>

InsertRun ==
    /\ SchedAt("run")
    /\ created < MaxRuns
    /\ created' = created + 1
    /\ runs' = [runs EXCEPT ![created + 1] = CreateRun(sched.job)]
    /\ sched' = [sched EXCEPT !.pc = "tasks", !.run = created + 1, !.next = 0]
    /\ UNCHANGED <<jobs, tasks, inbox, cancel, workVars, storeVars, envVars>>

\* Variants: one turn too many; last partition first.
InsertTaskBeyond ==
    /\ SchedAt("tasks")
    /\ tasks' = [tasks EXCEPT ![<<sched.run, sched.next>>] = CreateTask]
    /\ sched' = [sched EXCEPT !.next = @ + 1,
                    !.pc = IF sched.next = NumPartitions THEN "total" ELSE "tasks"]
    /\ UNCHANGED <<jobs, runs, created, inbox, cancel, workVars, storeVars, envVars>>

InsertTaskReversed ==
    /\ SchedAt("tasks")
    /\ tasks' = [tasks EXCEPT ![<<sched.run, NumPartitions - 1 - sched.next>>] = CreateTask]
    /\ sched' = [sched EXCEPT !.next = @ + 1,
                    !.pc = IF sched.next + 1 = NumPartitions THEN "total" ELSE "tasks"]
    /\ UNCHANGED <<jobs, runs, created, inbox, cancel, workVars, storeVars, envVars>>

InsertTask ==
    /\ SchedAt("tasks")
    /\ tasks' = [tasks EXCEPT ![<<sched.run, sched.next>>] = CreateTask]
    /\ sched' = [sched EXCEPT !.next = @ + 1,
                    !.pc = IF sched.next + 1 = NumPartitions THEN "total" ELSE "tasks"]
    /\ UNCHANGED <<jobs, runs, created, inbox, cancel, workVars, storeVars, envVars>>

SetTotal ==
    /\ SchedAt("total")
    /\ runs' = [runs EXCEPT ![sched.run] = UpdateRunTasksTotal(@, NumPartitions)]
    /\ SchedGoto("progress")
    /\ UNCHANGED <<jobs, tasks, created, inbox, cancel, workVars, storeVars, envVars>>

SetPending ==
    /\ SchedAt("progress")
    /\ runs' = [runs EXCEPT ![sched.run] = InitRunProgress(@)]
    /\ sched' = Consuming
    /\ UNCHANGED <<jobs, tasks, created, inbox, cancel, workVars, storeVars, envVars>>

\* The handler returns its error: it is called again from the start, or the
\* event goes to the dead-letter topic, which nobody reads.
HandlerError ==
    /\ ~SchedAt("consuming")
    /\ Fault
    /\ sched' = IF sched.attempt < MaxAttempts
                THEN [Consuming EXCEPT !.pc = "queue", !.job = sched.job,
                                       !.attempt = sched.attempt + 1]
                ELSE Consuming
    /\ UNCHANGED <<dbVars, inbox, cancel, workVars, storeVars>>

\* The event was committed when it was read: the next incarnation skips it.
SchedulerCrash ==
    /\ ~SchedAt("consuming")
    /\ Stop
    /\ sched' = Consuming
    /\ UNCHANGED <<dbVars, inbox, cancel, workVars, storeVars>>

SchedulerStep == \/ \E j \in Jobs : Receive(j)
                 \/ MarkQueued \/ InsertRun \/ InsertTask \/ SetTotal \/ SetPending

(***************************************************************************)
(* CancelJob of the API, at most one request per job.                      *)
(***************************************************************************)
CancelAt(j, p) == cancel[j].pc = p

CancelMark(j) ==
    /\ CancelAt(j, "none")
    /\ jobs' = [jobs EXCEPT ![j] = "CANCELLED"]
    /\ cancel' = [cancel EXCEPT ![j].pc = "list"]
    /\ UNCHANGED <<runs, tasks, created, schedVars, workVars, storeVars, envVars>>

CancelList(j) ==
    /\ CancelAt(j, "list")
    /\ cancel' = [cancel EXCEPT ![j] =
         [pc |-> "loop", todo |-> {r \in Runs : runs[r].state # "NONE" /\ runs[r].job = j}]]
    /\ UNCHANGED <<dbVars, schedVars, workVars, storeVars, envVars>>

\* One turn of the loop over the runs, newest first; a failed UPDATE is
\* logged and the loop goes on.
CancelRun(j) ==
    /\ CancelAt(j, "loop")
    /\ \E r \in cancel[j].todo :
         /\ \A q \in cancel[j].todo : q <= r
         /\ cancel' = [cancel EXCEPT ![j].todo = @ \ {r}]
         /\ \/ /\ runs' = [runs EXCEPT ![r] = UpdateRunState(@, "CANCELLED")]
               /\ UNCHANGED envVars
            \/ Fault /\ UNCHANGED runs
    /\ UNCHANGED <<jobs, tasks, created, schedVars, workVars, storeVars>>

\* ListRunsByJob fails or the API server stops: the job is marked, the runs
\* left over are not.
CancelError(j) ==
    /\ CancelAt(j, "list") \/ (CancelAt(j, "loop") /\ cancel[j].todo # {})
    /\ IF CancelAt(j, "list") THEN Fault \/ Stop ELSE Stop
    /\ cancel' = [cancel EXCEPT ![j] = [pc |-> "aborted", todo |-> {}]]
    /\ UNCHANGED <<dbVars, schedVars, workVars, storeVars>>

CancelStep(j) == CancelList(j) \/ CancelRun(j)

(***************************************************************************)
(* A worker: pollAndProcess, process and checkAndCompleteRun.              *)
(***************************************************************************)
At(w, p)   == pc[w] = p
Goto(w, p) == pc' = [pc EXCEPT ![w] = p]
Held(w)    == work[w].task
Return(w)  == Goto(w, "polling") /\ work' = [work EXCEPT ![w] = NoWork]

WriteTask(t, row) == tasks' = [tasks EXCEPT ![t] = row]
WriteRun(r, row)  == runs' = [runs EXCEPT ![r] = row]

Claim(w) ==
    /\ At(w, "polling")
    /\ \E t \in Tasks :
         /\ Leasable(tasks[t])
         /\ \A u \in Tasks : Leasable(tasks[u]) => ~Older(u, t)
         /\ WriteTask(t, LeaseTask(tasks[t], w))
         /\ work' = [work EXCEPT ![w] = [NoWork EXCEPT !.task = t,
                                            !.retries = tasks[t].retries]]
    /\ Goto(w, "leased")
    /\ UNCHANGED <<jobs, runs, created, schedVars, cancel, storeVars, envVars>>

\* Variant: the state of the run is read after the work only.
CheckCancelledLate(w) ==
    /\ \/ At(w, "leased") /\ Goto(w, "start")
       \/ At(w, "recheck")
          /\ Goto(w, IF runs[RunOf(Held(w))].state = "CANCELLED" THEN "kill" ELSE "succeed")
    /\ UNCHANGED <<dbVars, schedVars, cancel, work, storeVars, envVars>>

\* GetRunState before and after the work.
CheckCancelled(w) ==
    /\ \/ At(w, "leased")
          /\ Goto(w, IF runs[RunOf(Held(w))].state = "CANCELLED" THEN "kill" ELSE "start")
       \/ At(w, "recheck")
          /\ Goto(w, IF runs[RunOf(Held(w))].state = "CANCELLED" THEN "kill" ELSE "succeed")
    /\ UNCHANGED <<dbVars, schedVars, cancel, work, storeVars, envVars>>

\* Variant: the worker only drops the task.
KillForgets(w) ==
    /\ At(w, "kill")
    /\ Return(w)
    /\ UNCHANGED <<dbVars, schedVars, cancel, storeVars, envVars>>

Kill(w) ==
    /\ At(w, "kill")
    /\ WriteTask(Held(w), UpdateTaskState(tasks[Held(w)], "DEAD"))
    /\ Return(w)
    /\ UNCHANGED <<jobs, runs, created, schedVars, cancel, storeVars, envVars>>

Start(w) ==
    /\ At(w, "start")
    /\ WriteRun(RunOf(Held(w)), TaskStarted(runs[RunOf(Held(w))]))
    /\ Goto(w, "load")
    /\ UNCHANGED <<jobs, tasks, created, schedVars, cancel, work, storeVars, envVars>>

\* The three reads of process; GetRunTaskCount, which counts the rows there
\* are, becomes TOTAL_PARTITIONS.
Load(w) ==
    /\ At(w, "load")
    /\ work' = [work EXCEPT ![w].parts = Cardinality(TasksOf(RunOf(Held(w))) \ purged)]
    /\ Goto(w, "exec")
    /\ UNCHANGED <<dbVars, schedVars, cancel, storeVars, envVars>>

\* Variant: the last slice is no longer than the others.
SliceEven(i, parts, rows) ==
    LET size == IF rows < parts THEN 1 ELSE rows \div parts
    IN  {row \in 0..(rows - 1) : i * size <= row /\ row < (i + 1) * size}

\* download_partition: the rows of a dataset that belong to partition i.  The
\* last slice ends where the data ends; slicing beyond the end gives no rows.
Slice(i, parts, rows) ==
    LET size == IF rows < parts THEN 1 ELSE rows \div parts
    IN  {row \in 0..(rows - 1) : /\ i * size <= row
                                 /\ i < parts - 1 => row < (i + 1) * size}

\* The Python subprocess: it may also fail or time out after its upload.
Exec(w) ==
    /\ At(w, "exec")
    /\ \/ /\ outputs' = [outputs EXCEPT ![Held(w)] = work[w].parts]
          /\ Goto(w, "register") \/ Goto(w, "failed")
       \/ UNCHANGED outputs /\ Goto(w, "failed")
    /\ UNCHANGED <<dbVars, schedVars, cancel, work, artifacts, completed, envVars>>

Register(w) ==
    /\ At(w, "register")
    /\ artifacts' = [artifacts EXCEPT ![Held(w)] = @ + 1]
    /\ Goto(w, "recheck")
    /\ UNCHANGED <<dbVars, schedVars, cancel, work, outputs, completed, envVars>>

Succeed(w) ==
    /\ At(w, "succeed")
    /\ WriteTask(Held(w), UpdateTaskState(tasks[Held(w)], "SUCCEEDED"))
    /\ Goto(w, "credit")
    /\ UNCHANGED <<jobs, runs, created, schedVars, cancel, work, storeVars, envVars>>

\* Variant: the success is not counted.
CreditDropped(w) ==
    /\ At(w, "credit")
    /\ Goto(w, "assess")
    /\ UNCHANGED <<dbVars, schedVars, cancel, work, storeVars, envVars>>

Credit(w) ==
    /\ At(w, "credit")
    /\ WriteRun(RunOf(Held(w)), TaskSucceeded(runs[RunOf(Held(w))]))
    /\ Goto(w, "assess")
    /\ UNCHANGED <<jobs, tasks, created, schedVars, cancel, work, storeVars, envVars>>

\* Variants: at least as many as the total; started tasks count as finished;
\* a failed task does not matter.
AllDoneOrMore(run) == run.done + run.failed >= run.total
AllDoneOrRunning(run) == run.done + run.failed + run.running = run.total
VerdictIgnoresFailures(run) == "SUCCEEDED"

\* GetRunProgress: the run is closed by whoever sees all its tasks counted.
AllDone(run) == run.done + run.failed = run.total
Verdict(run) == IF run.failed > 0 THEN "FAILED" ELSE "SUCCEEDED"

Assess(w) ==
    LET run == runs[RunOf(Held(w))] IN
    /\ At(w, "assess")
    /\ IF AllDone(run)
       THEN /\ work' = [work EXCEPT ![w].total = run.total, ![w].verdict = Verdict(run)]
            /\ Goto(w, "closeRun")
       ELSE Return(w)
    /\ UNCHANGED <<dbVars, schedVars, cancel, storeVars, envVars>>

CloseRun(w) ==
    /\ At(w, "closeRun")
    /\ WriteRun(RunOf(Held(w)), CompleteRun(runs[RunOf(Held(w))], work[w].verdict))
    /\ Goto(w, "closeJob")
    /\ UNCHANGED <<jobs, tasks, created, schedVars, cancel, work, storeVars, envVars>>

\* GetJobByRunID and CompleteJob.
CloseJob(w) ==
    /\ At(w, "closeJob")
    /\ jobs' = [jobs EXCEPT ![runs[RunOf(Held(w))].job] = work[w].verdict]
    /\ Goto(w, "announce")
    /\ UNCHANGED <<runs, tasks, created, schedVars, cancel, work, storeVars, envVars>>

Announce(w) ==
    /\ At(w, "announce")
    /\ completed' = [completed EXCEPT ![runs[RunOf(Held(w))].job] = @ + 1]
    /\ Return(w)
    /\ UNCHANGED <<dbVars, schedVars, cancel, outputs, artifacts, envVars>>

\* Variant: max_retries counts one more.
CanRetryOnceMore(w) == work[w].retries <= MaxRetries

\* GetJobByRunID again, for max_retries; every error of process is transient.
CanRetry(w) == work[w].retries < MaxRetries

Decide(w) ==
    /\ At(w, "failed")
    /\ Goto(w, IF CanRetry(w) THEN "retry" ELSE "fail")
    /\ UNCHANGED <<dbVars, schedVars, cancel, work, storeVars, envVars>>

\* Variant: a failed attempt is counted like a failed task.
RetryCounted(w) ==
    /\ At(w, "retry")
    /\ WriteTask(Held(w), RetryTask(tasks[Held(w)]))
    /\ WriteRun(RunOf(Held(w)), TaskFailed(runs[RunOf(Held(w))]))
    /\ Return(w)
    /\ UNCHANGED <<jobs, created, schedVars, cancel, storeVars, envVars>>

Retry(w) ==
    /\ At(w, "retry")
    /\ WriteTask(Held(w), RetryTask(tasks[Held(w)]))
    /\ Return(w)
    /\ UNCHANGED <<jobs, runs, created, schedVars, cancel, storeVars, envVars>>

Fail(w) ==
    /\ At(w, "fail")
    /\ WriteTask(Held(w), FailTaskWithError(tasks[Held(w)]))
    /\ Goto(w, "countFail")
    /\ UNCHANGED <<jobs, runs, created, schedVars, cancel, work, storeVars, envVars>>

\* The handler of a permanent failure ends here: it never looks whether this
\* was the last task of the run.
CountFail(w) ==
    /\ At(w, "countFail")
    /\ WriteRun(RunOf(Held(w)), TaskFailed(runs[RunOf(Held(w))]))
    /\ Return(w)
    /\ UNCHANGED <<jobs, tasks, created, schedVars, cancel, storeVars, envVars>>

WorkerStep(w) ==
    \/ Claim(w) \/ CheckCancelled(w) \/ Kill(w) \/ Start(w) \/ Load(w) \/ Exec(w)
    \/ Register(w) \/ Succeed(w) \/ Credit(w) \/ Assess(w) \/ CloseRun(w)
    \/ CloseJob(w) \/ Announce(w) \/ Decide(w) \/ Retry(w) \/ Fail(w) \/ CountFail(w)

(***************************************************************************)
(* What a worker does when a statement fails: it logs the error and goes   *)
(* on, or it returns and leaves the row as it is.                          *)
(***************************************************************************)
GoesOn == {<<"start", "load">>, <<"load", "failed">>, <<"register", "recheck">>,
           <<"credit", "assess">>, <<"failed", "fail">>, <<"fail", "countFail">>}
GivesUp == {"leased", "kill", "recheck", "succeed", "assess", "closeRun",
            "closeJob", "announce", "retry", "countFail"}

WorkerError(w) ==
    /\ Fault
    /\ \/ /\ \E e \in GoesOn : At(w, e[1]) /\ Goto(w, e[2])
          /\ UNCHANGED <<tasks, work>>
       \/ /\ pc[w] \in GivesUp
          /\ Return(w)
          /\ UNCHANGED tasks
       \/ /\ At(w, "succeed")   \* written, but the answer is lost
          /\ WriteTask(Held(w), UpdateTaskState(tasks[Held(w)], "SUCCEEDED"))
          /\ Return(w)
    /\ UNCHANGED <<jobs, runs, created, schedVars, cancel, storeVars>>

WorkerCrash(w) ==
    /\ pc[w] # "down"
    /\ Stop
    /\ Goto(w, "down")
    /\ work' = [work EXCEPT ![w] = NoWork]
    /\ UNCHANGED <<dbVars, schedVars, cancel, storeVars>>

(***************************************************************************)
(* Leases: 30 seconds pass, or the worker's ticker renews the lease.  The  *)
(* ticker runs from TaskStarted until pollAndProcess returns; nothing      *)
(* forces it to be in time.                                                *)
(***************************************************************************)
Expire(t) ==
    /\ tasks[t].lease = "live"
    /\ expiries < MaxExpiries
    /\ expiries' = expiries + 1
    /\ tasks' = [tasks EXCEPT ![t].lease = "expired"]
    /\ UNCHANGED <<jobs, runs, created, schedVars, cancel, workVars, storeVars,
                   faults, crashes, purged>>

Beating == (Holding \cup Leaving) \ {"leased", "kill", "start"}

Heartbeat(w) ==
    /\ pc[w] \in Beating \/ (At(w, "kill") /\ work[w].parts > 0)
    /\ tasks[Held(w)].lease = "expired"
    /\ WriteTask(Held(w), HeartbeatTask(tasks[Held(w)], w))
    /\ UNCHANGED <<jobs, runs, created, schedVars, cancel, workVars, storeVars, envVars>>

(***************************************************************************)
(* The cleanup service deletes the tasks that are DEAD or FAILED and were  *)
(* created more than seven days ago, also those of a run that goes on.     *)
(***************************************************************************)
CleanupDeadTasks ==
    /\ \E newest \in Tasks :
         LET old == {t \in Tasks \ purged : /\ tasks[t].state \in {"DEAD", "FAILED"}
                                           /\ ~Older(newest, t)}
         IN  old # {} /\ purged' = purged \cup old
    /\ UNCHANGED <<dbVars, schedVars, cancel, workVars, storeVars, faults, crashes, expiries>>

Next ==
    \/ SchedulerStep \/ HandlerError \/ SchedulerCrash
    \/ \E j \in Jobs : CancelMark(j) \/ CancelStep(j) \/ CancelError(j)
    \/ \E w \in Workers : WorkerStep(w) \/ WorkerError(w) \/ WorkerCrash(w) \/ Heartbeat(w)
    \/ \E t \in Tasks : Expire(t)
    \/ CleanupDeadTasks

Spec == Init /\ [][Next]_vars

(***************************************************************************)
(* Fairness: every process that can execute a statement does so in the     *)
(* end (workers poll every two seconds, the subprocess has a timeout, the  *)
(* consumer blocks in ReadMessage).  Nothing obliges a client to cancel, a *)
(* statement to fail, a process to crash or a heartbeat to be sent.        *)
(***************************************************************************)
Fairness == /\ WF_vars(SchedulerStep)
            /\ \A j \in Jobs : WF_vars(CancelStep(j))
            /\ \A w \in Workers : WF_vars(WorkerStep(w))

FairSpec == Spec /\ Fairness

(***************************************************************************)
(* Safety.                                                                 *)
(***************************************************************************)

\* Concurrent task claims: a worker that is between LeaseTask and the
\* statement that settles its task still owns the row, so no two workers ever
\* process the same task (LeaseTask with FOR UPDATE SKIP LOCKED, and the
\* unconditional UPDATEs of worker.go that rely on it).
LeaseExclusive ==
    \A w \in Workers : pc[w] \in Holding =>
        /\ tasks[Held(w)].state = "LEASED"
        /\ tasks[Held(w)].owner = w

\* A row that waits for a worker is free: LeaseTask's lease_expires_at
\* condition never hides it, whatever was retried before.
PendingIsFree ==
    \A t \in Tasks : tasks[t].state = "PENDING" =>
        tasks[t].owner = NoOne /\ Leasable(tasks[t])

\* TOTAL_PARTITIONS is read while the scheduler may still be inserting tasks
\* and the cleanup may be deleting some; the partition a subprocess is asked
\* for exists unless rows of its run were deleted, and is beyond the last one
\* by no more than there were.  There is always one to cut (download_partition
\* divides by their number).
PartitionInRange ==
    \A w \in Workers : pc[w] = "exec" =>
        /\ Held(w)[2] < work[w].parts + Cardinality(PurgedOf(RunOf(Held(w))))
        /\ work[w].parts \in 1..NumPartitions

\* tasks_total is 0 until all tasks of the run have been inserted: the number
\* the workers compare their counts with is never smaller than what there was
\* to do, whichever attempt of the handler created the run.
TotalIsWhole ==
    \A r \in Runs : runs[r].total > 0 =>
        /\ runs[r].total = NumPartitions
        /\ \A i \in Partitions : tasks[<<r, i>>].state # "NONE"

\* The counters of a run never claim more than happened: no outcome of a task
\* is counted twice, across retries, crashes and lost statements.
CountersSound ==
    \A r \in Runs :
        /\ runs[r].done <= Cardinality({t \in TasksOf(r) : tasks[t].state = "SUCCEEDED"})
        /\ runs[r].done + runs[r].failed <= Cardinality(TasksOf(r))

\* Whoever closes a run on a known total has seen all its tasks through:
\* nothing waits, nobody works on any of them, and SUCCEEDED means that every
\* partition succeeded (checkAndCompleteRun under concurrent progress
\* updates, cancellations and failures).
VerdictSound ==
    \A w \in Workers : pc[w] \in {"closeRun", "closeJob"} /\ work[w].total > 0 =>
        /\ \A t \in TasksOf(RunOf(Held(w))) :
              /\ tasks[t].state # "PENDING"
              /\ \A v \in Workers : pc[v] \in Holding => Held(v) # t
        /\ work[w].verdict = "SUCCEEDED" =>
              \A i \in Partitions : tasks[<<RunOf(Held(w)), i>>].state = "SUCCEEDED"

\* As long as no statement has failed, crashes or not, a run row that says
\* SUCCEEDED has every partition done, output stored and artifact registered
\* exactly once.
SucceededRunComplete ==
    faults = 0 =>
        \A r \in Runs : runs[r].state = "SUCCEEDED" =>
            \A i \in Partitions :
                /\ tasks[<<r, i>>].state = "SUCCEEDED"
                /\ outputs[<<r, i>>] > 0
                /\ artifacts[<<r, i>>] = 1

\* As long as no statement has failed, the outputs of a SUCCEEDED run hold each
\* row of the dataset once, retries, crashes and repeated uploads or not, if the
\* subprocesses agreed on the number of slices (PartitionsAgree: they may not).
\* The sizes cover datasets with fewer rows than slices and every remainder.
RowsProcessedOnce ==
    \A r \in Runs :
        LET done == {i \in Partitions : outputs[<<r, i>>] > 0}
        IN  faults = 0 /\ runs[r].state = "SUCCEEDED"
              /\ (\A i \in done : outputs[<<r, i>>] = NumPartitions)
            => \A rows \in 0..(2 * NumPartitions) : \A row \in 0..(rows - 1) :
                  Cardinality({i \in done : row \in Slice(i, outputs[<<r, i>>], rows)}) = 1

\* max_retries bounds how often a task is put back.
RetriesBounded == \A t \in Tasks : tasks[t].retries <= MaxRetries

(***************************************************************************)
(* What a step may never do.                                               *)
(***************************************************************************)

\* A task that was settled stays settled, although no UPDATE of tasks looks at
\* the state it overwrites.
TerminalTaskStable ==
    [][\A t \in Tasks : tasks[t].state \in TerminalTask =>
          tasks'[t].state = tasks[t].state]_vars

(***************************************************************************)
(* RunExecution implements TaskLease: a task is held from LeaseTask to the *)
(* statement that settles it, and abandoned when its row stays LEASED with *)
(* nobody working on it.                                                   *)
(***************************************************************************)
BeingHeld(t) == \E w \in Workers : pc[w] \in Holding /\ Held(w) = t

StatusOf(task, held) ==
    CASE task.state = "NONE"          -> "absent"
      [] task.state = "PENDING"       -> "waiting"
      [] task.state = "LEASED"        -> IF held THEN "held" ELSE "abandoned"
      [] task.state \in TerminalTask  -> "settled"

TaskStatus == [t \in Tasks |-> StatusOf(tasks[t], BeingHeld(t))]

Holds == [w \in Workers |-> IF pc[w] \in Holding THEN Held(w) ELSE NoOne]

Lease == INSTANCE TaskLease WITH status <- TaskStatus, holds <- Holds

ImplementsTaskLease == Lease!LeaseSpec

(***************************************************************************)
(* Liveness.                                                               *)
(***************************************************************************)
Orphaned(t) == tasks[t].state = "LEASED" /\ pc[tasks[t].owner] = "down"

\* While one worker survives, every task is settled in the end, except those
\* a crashed worker held.
TasksSettle ==
    \A t \in Tasks : tasks[t].state = "PENDING" ~>
        (tasks[t].state \in TerminalTask \/ Orphaned(t))

\* A task that waits in a cancelled run is never executed again: the next
\* worker to lease it marks it DEAD.
CancelDrains ==
    \A t \in Tasks : (tasks[t].state = "PENDING" /\ runs[RunOf(t)].state = "CANCELLED") ~>
        (tasks[t].state = "DEAD" \/ Orphaned(t))

\* A run whose total is set while one of its tasks is still open is closed in
\* the end, unless one of its tasks fails or is killed, or a process crashes.
TotalInTime(r) ==
    /\ runs[r].total > 0
    /\ \E t \in TasksOf(r) : tasks[t].state \in {"PENDING", "LEASED"}
SuccessfulRunCloses ==
    \A r \in Runs : TotalInTime(r) ~>
        \/ runs[r].state \in {"SUCCEEDED", "FAILED", "CANCELLED"}
        \/ \E t \in TasksOf(r) : tasks[t].state \in {"FAILED", "DEAD"}
        \/ crashes > 0

(***************************************************************************)
(* What the documentation promises and the code does not keep.             *)
(***************************************************************************)

\* A lease that ran out makes its task available again (the condition on
\* lease_expires_at in LeaseTask, "Failure handling" in Readme.md).
LeaseReclaimed ==
    \A t \in Tasks : (Orphaned(t) /\ tasks[t].lease = "expired") ~>
        tasks[t].state # "LEASED"

\* A run whose total is set while a task is still open ends in a terminal
\* state, also when the last task to finish fails (docs/api.md: poll "until
\* the state becomes terminal").
RunEndsTerminal ==
    \A r \in Runs : TotalInTime(r) ~>
        runs[r].state \in {"SUCCEEDED", "FAILED", "CANCELLED"}

\* A run whose tasks all succeeded is closed (the same sentence, for the run
\* whose workers are faster than the scheduler).
AllSucceededCloses ==
    \A r \in Runs :
        (runs[r].state # "NONE" /\ \A i \in Partitions : tasks[<<r, i>>].state = "SUCCEEDED")
            ~> runs[r].state \in {"SUCCEEDED", "CANCELLED"}

\* When CancelJob has returned, every run of the job is cancelled ("cancel all
\* runs for this job so workers stop processing").
CancelHolds ==
    \A j \in Jobs : cancel[j].pc = "loop" /\ cancel[j].todo = {} =>
        \A r \in Runs : runs[r].state # "NONE" /\ runs[r].job = j =>
            runs[r].state = "CANCELLED"

\* Every subprocess of a run cuts the dataset into the same number of slices
\* ("The scheduler creates a run, shards the workload into tasks").
PartitionsAgree ==
    \A w \in Workers : pc[w] = "exec" => work[w].parts = NumPartitions
=============================================================================
