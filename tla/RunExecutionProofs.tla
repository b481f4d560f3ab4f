------------------------- MODULE RunExecutionProofs -------------------------
(***************************************************************************)
(* Theorems about RunExecution, for every number of jobs, workers,         *)
(* partitions, retries, faults and crashes.                                *)
(***************************************************************************)
EXTENDS RunExecution, FiniteSetTheorems, TLAPS

USE DEF dbVars, schedVars, workVars, storeVars, envVars, At, Goto, Held, Return,
        WriteTask, WriteRun, RunOf, SchedAt, SchedGoto, CancelAt

(***************************************************************************)
(* Type correctness.                                                       *)
(***************************************************************************)

\* What the scheduler's program counter says about its variables.
SchedInv ==
    /\ sched.pc # "consuming" => sched.job \in Jobs /\ sched.attempt \in 1..MaxAttempts
    /\ sched.pc \in {"tasks", "total", "progress"} => sched.run = created /\ sched.run \in Runs
    /\ sched.pc = "tasks" => sched.next \in Partitions
    /\ sched.pc \in {"total", "progress"} => sched.next = NumPartitions

TypeInv == TypeOK /\ SchedInv

\* Every statement turns a row into a row.
LEMMA TaskRows ==
  ASSUME NEW row \in TaskRow
  PROVE  /\ \A w \in Workers : LeaseTask(row, w) \in TaskRow /\ HeartbeatTask(row, w) \in TaskRow
         /\ \A s \in TaskStates : UpdateTaskState(row, s) \in TaskRow
         /\ RetryTask(row) \in TaskRow
         /\ FailTaskWithError(row) \in TaskRow
         /\ [row EXCEPT !.lease = "expired"] \in TaskRow
<1>. USE DEF TaskRow, TaskStates, Leases
<1>1. \A w \in Workers : LeaseTask(row, w) \in TaskRow /\ HeartbeatTask(row, w) \in TaskRow
  BY DEF LeaseTask, HeartbeatTask
<1>2. \A s \in TaskStates : UpdateTaskState(row, s) \in TaskRow
  BY DEF UpdateTaskState
<1>3. RetryTask(row) \in TaskRow  BY DEF RetryTask
<1>4. FailTaskWithError(row) \in TaskRow  BY DEF FailTaskWithError
<1>5. [row EXCEPT !.lease = "expired"] \in TaskRow  OBVIOUS
<1> QED  BY <1>1, <1>2, <1>3, <1>4, <1>5

\* Inserted rows are rows.
LEMMA NewRows ==
  /\ NoTask \in TaskRow
  /\ CreateTask \in TaskRow
  /\ \A J : \A j \in J : NoRun(j) \in RunRow(J) /\ CreateRun(j) \in RunRow(J)
<1>1. NoTask \in TaskRow /\ CreateTask \in TaskRow
  BY DEF TaskRow, TaskStates, Leases, NoTask, CreateTask
<1>2. ASSUME NEW J, NEW j \in J  PROVE NoRun(j) \in RunRow(J) /\ CreateRun(j) \in RunRow(J)
  BY DEF RunRow, RunStates, NoRun, CreateRun
<1> QED  BY <1>1, <1>2

\* The statements on runs keep every column in its type.
LEMMA RunRows ==
  ASSUME NEW J, NEW row \in RunRow(J)
  PROVE  /\ \A n \in Nat : UpdateRunTasksTotal(row, n) \in RunRow(J)
         /\ InitRunProgress(row) \in RunRow(J)
         /\ TaskStarted(row) \in RunRow(J)
         /\ TaskSucceeded(row) \in RunRow(J)
         /\ TaskFailed(row) \in RunRow(J)
         /\ \A s \in RunStates : /\ UpdateRunState(row, s) \in RunRow(J)
                                 /\ CompleteRun(row, s) \in RunRow(J)
<1>. USE DEF RunRow
<1>1. \A n \in Nat : UpdateRunTasksTotal(row, n) \in RunRow(J)
  BY DEF UpdateRunTasksTotal
<1>2. InitRunProgress(row) \in RunRow(J)  BY DEF InitRunProgress
<1>i. /\ row.pending - 1 \in Int /\ row.running + 1 \in Int /\ row.running - 1 \in Int
      /\ row.done + 1 \in Nat /\ row.failed + 1 \in Nat
  OBVIOUS
<1>3. TaskStarted(row) \in RunRow(J)  BY <1>i DEF TaskStarted
<1>4. TaskSucceeded(row) \in RunRow(J)  BY <1>i DEF TaskSucceeded
<1>5. TaskFailed(row) \in RunRow(J)  BY <1>i DEF TaskFailed
<1>6. \A s \in RunStates : UpdateRunState(row, s) \in RunRow(J)  BY DEF UpdateRunState
<1>7. \A s \in RunStates : CompleteRun(row, s) \in RunRow(J)  BY DEF CompleteRun
<1> QED  BY <1>1, <1>2, <1>3, <1>4, <1>5, <1>6, <1>7

\* Counting the rows of a run is counting a finite set.
LEMMA TasksFinite ==
  IsFiniteSet(Tasks) /\ \A r : IsFiniteSet(TasksOf(r)) /\ Cardinality(TasksOf(r)) \in Nat
<1>1. IsFiniteSet(Runs) /\ IsFiniteSet(Partitions)
  <2>1. 1 \in Int /\ MaxRuns \in Int /\ 0 \in Int /\ NumPartitions - 1 \in Int
    BY ConstantsAssumption
  <2> QED  BY <2>1, FS_Interval DEF Runs, Partitions
<1>2. IsFiniteSet(Tasks)  BY <1>1, FS_Product DEF Tasks
<1>3. ASSUME NEW r  PROVE IsFiniteSet(TasksOf(r)) /\ Cardinality(TasksOf(r)) \in Nat
  <2>1. TasksOf(r) \in SUBSET Tasks  BY DEF TasksOf
  <2> QED  BY <1>2, <2>1, FS_Subset, FS_CardinalityType
<1> QED  BY <1>2, <1>3

\* The tables, when the services start.
LEMMA TypeInit == Init => TypeInv
<1> SUFFICES ASSUME Init  PROVE TypeInv  OBVIOUS
<1>1. TablesOK
  BY ConstantsAssumption, NewRows DEF Init, TablesOK, JobStates
<1>2. SchedulerOK /\ SchedInv
  BY ConstantsAssumption DEF Init, SchedulerOK, SchedInv, Consuming
<1>3. CancelOK /\ StorageOK /\ EnvironmentOK
  BY ConstantsAssumption DEF Init, CancelOK, StorageOK, EnvironmentOK
<1>4. WorkersOK
  BY DEF Init, WorkersOK, NoWork, Work, Holding, Leaving
<1> QED  BY <1>1, <1>2, <1>3, <1>4 DEF TypeInv, TypeOK

\* A step that leaves the variables of a part alone keeps its types.
LEMMA Frames ==
  /\ TablesOK /\ UNCHANGED dbVars => TablesOK'
  /\ SchedulerOK /\ UNCHANGED schedVars => SchedulerOK'
  /\ CancelOK /\ UNCHANGED cancel => CancelOK'
  /\ WorkersOK /\ UNCHANGED workVars => WorkersOK'
  /\ StorageOK /\ UNCHANGED storeVars => StorageOK'
  /\ EnvironmentOK /\ UNCHANGED envVars => EnvironmentOK'
  /\ SchedInv /\ UNCHANGED sched /\ UNCHANGED created => SchedInv'
<1>1. TablesOK /\ UNCHANGED dbVars => TablesOK'  BY DEF TablesOK
<1>2. SchedulerOK /\ UNCHANGED schedVars => SchedulerOK'  BY DEF SchedulerOK
<1>3. CancelOK /\ UNCHANGED cancel => CancelOK'  BY DEF CancelOK
<1>4. WorkersOK /\ UNCHANGED workVars => WorkersOK'  BY DEF WorkersOK
<1>5. StorageOK /\ UNCHANGED storeVars => StorageOK'  BY DEF StorageOK
<1>6. EnvironmentOK /\ UNCHANGED envVars => EnvironmentOK'  BY DEF EnvironmentOK
<1>7. SchedInv /\ UNCHANGED sched /\ UNCHANGED created => SchedInv'  BY DEF SchedInv
<1> QED  BY <1>1, <1>2, <1>3, <1>4, <1>5, <1>6, <1>7

\* The scheduler between two events.
LEMMA IdleScheduler ==
  SchedulerOK /\ UNCHANGED inbox /\ sched' = Consuming => SchedulerOK' /\ SchedInv'
<1>1. SchedulerOK /\ UNCHANGED inbox /\ sched' = Consuming => SchedulerOK'
  BY ConstantsAssumption DEF SchedulerOK, Consuming
<1>2. sched' = Consuming => SchedInv'  BY DEF SchedInv, Consuming
<1> QED  BY <1>1, <1>2

\* The statements of HandleJobSubmitted, its errors and its crash.
LEMMA TypeScheduler ==
  ASSUME TypeInv, SchedulerStep \/ HandlerError \/ SchedulerCrash
  PROVE  TypeInv'
<1>. TablesOK /\ SchedulerOK /\ SchedInv /\ CancelOK /\ WorkersOK /\ StorageOK /\ EnvironmentOK
  BY DEF TypeInv, TypeOK
<1>. USE ConstantsAssumption
<1>1. UNCHANGED <<cancel, workVars, storeVars>>
  BY DEF SchedulerStep, Receive, MarkQueued, InsertRun, InsertTask, SetTotal, SetPending,
         HandlerError, SchedulerCrash
<1>2. CancelOK' /\ WorkersOK' /\ StorageOK'
  BY <1>1 DEF CancelOK, WorkersOK, StorageOK
<1>3. (TablesOK /\ SchedulerOK /\ SchedInv /\ EnvironmentOK)'
  <2>1. ASSUME NEW j \in Jobs, Receive(j)
        PROVE  (TablesOK /\ SchedulerOK /\ SchedInv /\ EnvironmentOK)'
    <3>1. TablesOK' /\ EnvironmentOK'  BY <2>1, Frames DEF Receive
    <3>a. inbox[j] - 1 \in 0..MaxDeliveries  BY <2>1 DEF Receive, SchedulerOK
    <3>b. sched' = [pc |-> "queue", job |-> j, run |-> 0, next |-> 0, attempt |-> 1]
      BY <2>1 DEF Receive, Consuming
    <3>2. SchedulerOK'  BY <2>1, <3>a, <3>b DEF Receive, SchedulerOK
    <3>3. SchedInv'  BY <2>1 DEF Receive, SchedInv, Consuming
    <3> QED  BY <3>1, <3>2, <3>3
  <2>2. CASE MarkQueued
    <3>1. TablesOK' /\ EnvironmentOK'  BY <2>2, Frames DEF MarkQueued, TablesOK, JobStates
    <3>2. SchedulerOK'  BY <2>2 DEF MarkQueued, SchedulerOK
    <3>3. SchedInv'  BY <2>2 DEF MarkQueued, SchedulerOK, SchedInv
    <3> QED  BY <3>1, <3>2, <3>3
  <2>3. CASE InsertRun
    <3>1. CreateRun(sched.job) \in RunRow(Jobs \cup {NoOne})
      BY <2>3, NewRows DEF InsertRun, SchedInv
    <3>2. created \in Nat /\ created + 1 \in Runs /\ created + 1 \in 0..MaxRuns
      BY <2>3 DEF InsertRun, TablesOK, Runs
    <3>3. TablesOK'  BY <2>3, <3>1, <3>2 DEF InsertRun, TablesOK
    <3>4. EnvironmentOK'  BY <2>3, Frames DEF InsertRun
    <3>a. 0 \in 0..NumPartitions  OBVIOUS
    <3>5. SchedulerOK'  BY <2>3, <3>2, <3>a DEF InsertRun, SchedulerOK
    <3>6. SchedInv'  BY <2>3, <3>2 DEF InsertRun, SchedulerOK, SchedInv, Partitions
    <3> QED  BY <3>3, <3>4, <3>5, <3>6
  <2>4. CASE InsertTask
    <3>1. TablesOK'  BY <2>4, NewRows DEF InsertTask, TablesOK
    <3>2. EnvironmentOK'  BY <2>4, Frames DEF InsertTask
    <3>3. sched.next \in Nat /\ sched.next < NumPartitions
      BY <2>4 DEF InsertTask, SchedInv, Partitions
    <3>a. sched.next + 1 \in 0..NumPartitions  BY <3>3
    <3>4. SchedulerOK'  BY <2>4, <3>a DEF InsertTask, SchedulerOK
    <3>5. SchedInv'  BY <2>4, <3>3 DEF InsertTask, SchedulerOK, SchedInv, Partitions
    <3> QED  BY <3>1, <3>2, <3>4, <3>5
  <2>5. CASE SetTotal
    <3>a. UpdateRunTasksTotal(runs[sched.run], NumPartitions) \in RunRow(Jobs \cup {NoOne})
      BY <2>5, RunRows DEF SetTotal, TablesOK, SchedInv
    <3>1. TablesOK'  BY <2>5, <3>a DEF SetTotal, TablesOK
    <3>2. EnvironmentOK'  BY <2>5, Frames DEF SetTotal
    <3>3. SchedulerOK'  BY <2>5 DEF SetTotal, SchedulerOK
    <3>4. SchedInv'  BY <2>5 DEF SetTotal, SchedulerOK, SchedInv
    <3> QED  BY <3>1, <3>2, <3>3, <3>4
  <2>6. CASE SetPending
    <3>a. InitRunProgress(runs[sched.run]) \in RunRow(Jobs \cup {NoOne})
      BY <2>6, RunRows DEF SetPending, TablesOK, SchedInv
    <3>1. TablesOK'  BY <2>6, <3>a DEF SetPending, TablesOK
    <3>2. EnvironmentOK'  BY <2>6, Frames DEF SetPending
    <3>3. SchedulerOK' /\ SchedInv'  BY <2>6, IdleScheduler DEF SetPending
    <3> QED  BY <3>1, <3>2, <3>3
  <2>7. CASE HandlerError
    <3>1. TablesOK'  BY <2>7, Frames DEF HandlerError
    <3>2. EnvironmentOK'  BY <2>7 DEF HandlerError, Fault, EnvironmentOK
    <3>3. CASE sched.attempt < MaxAttempts
      <4>1. sched.attempt \in Nat /\ sched.attempt + 1 \in 1..MaxAttempts
        BY <2>7, <3>3 DEF HandlerError, SchedInv
      <4>2. sched' = [pc |-> "queue", job |-> sched.job, run |-> 0, next |-> 0,
                      attempt |-> sched.attempt + 1]
        BY <2>7, <3>3 DEF HandlerError, Consuming
      <4>4. /\ sched.attempt + 1 \in 0..MaxAttempts /\ 0 \in 0..MaxRuns /\ 0 \in 0..NumPartitions
            /\ sched.job \in Jobs
        BY <2>7, <4>1 DEF HandlerError, SchedInv
      <4>6. UNCHANGED inbox  BY <2>7 DEF HandlerError
      <4>5. SchedulerOK'  BY <4>2, <4>4, <4>6 DEF SchedulerOK
      <4>3. SchedInv'  BY <2>7, <3>3, <4>1 DEF HandlerError, SchedInv, Consuming
      <4> QED  BY <3>1, <3>2, <4>3, <4>5
    <3>4. CASE ~(sched.attempt < MaxAttempts)
      BY <2>7, <3>1, <3>2, <3>4, IdleScheduler DEF HandlerError
    <3> QED  BY <3>3, <3>4
  <2>8. CASE SchedulerCrash
    <3>1. TablesOK'  BY <2>8, Frames DEF SchedulerCrash
    <3>2. EnvironmentOK'  BY <2>8 DEF SchedulerCrash, Stop, EnvironmentOK
    <3>3. SchedulerOK' /\ SchedInv'  BY <2>8, IdleScheduler DEF SchedulerCrash
    <3> QED  BY <3>1, <3>2, <3>3
  <2> QED  BY <2>1, <2>2, <2>3, <2>4, <2>5, <2>6, <2>7, <2>8 DEF SchedulerStep
<1> QED  BY <1>2, <1>3 DEF TypeInv, TypeOK

\* The statements of CancelJob.
LEMMA TypeCancel ==
  ASSUME TypeInv, NEW j \in Jobs, CancelMark(j) \/ CancelStep(j) \/ CancelError(j)
  PROVE  TypeInv'
<1>. TablesOK /\ SchedulerOK /\ SchedInv /\ CancelOK /\ WorkersOK /\ StorageOK /\ EnvironmentOK
  BY DEF TypeInv, TypeOK
<1>. USE ConstantsAssumption
<1>1. UNCHANGED <<schedVars, created, workVars, storeVars>>
  BY DEF CancelMark, CancelStep, CancelList, CancelRun, CancelError
<1>2. SchedulerOK' /\ SchedInv' /\ WorkersOK' /\ StorageOK'
  BY <1>1 DEF SchedulerOK, SchedInv, WorkersOK, StorageOK
<1>3. CASE CancelMark(j)
  BY <1>2, <1>3 DEF CancelMark, TablesOK, CancelOK, EnvironmentOK, JobStates, TypeInv, TypeOK
<1>4. CASE CancelList(j)
  BY <1>2, <1>4 DEF CancelList, TablesOK, CancelOK, EnvironmentOK, TypeInv, TypeOK
<1>5. CASE CancelRun(j)
  <2>1. PICK r \in cancel[j].todo : CancelRun(j)!2!(r)
    BY <1>5 DEF CancelRun
  <2>2. r \in Runs  BY DEF CancelOK
  <2>3. CancelOK'  BY <1>5, <2>1 DEF CancelOK
  <2>4. UpdateRunState(runs[r], "CANCELLED") \in RunRow(Jobs \cup {NoOne})
    BY <2>2, RunRows DEF TablesOK, RunStates
  <2>5. UNCHANGED <<jobs, tasks, created>>  BY <1>5 DEF CancelRun
  <2>6. TablesOK'  BY <2>1, <2>4, <2>5 DEF TablesOK
  <2>7. EnvironmentOK'  BY <2>1 DEF Fault, EnvironmentOK
  <2> QED  BY <1>2, <2>3, <2>6, <2>7 DEF TypeInv, TypeOK
<1>6. CASE CancelError(j)
  <2>1. TablesOK'  BY <1>6, Frames DEF CancelError
  <2>2. CancelOK'  BY <1>6 DEF CancelError, CancelOK
  <2>3. EnvironmentOK'  BY <1>6 DEF CancelError, Fault, Stop, EnvironmentOK
  <2> QED  BY <1>2, <2>1, <2>2, <2>3 DEF TypeInv, TypeOK
<1> QED  BY <1>3, <1>4, <1>5, <1>6 DEF CancelStep

\* The two ways a worker moves: on to the next statement, or back to polling.
LEMMA WorkerGoesOn ==
  ASSUME WorkersOK, NEW w \in Workers, pc[w] \in Holding \cup Leaving,
         NEW p \in Holding \cup Leaving, pc' = [pc EXCEPT ![w] = p], UNCHANGED work,
         p \in {"closeRun", "closeJob"} => pc[w] \in {"closeRun", "closeJob"}
  PROVE  WorkersOK'
BY DEF WorkersOK

\* A worker that returns from pollAndProcess forgets its task.
LEMMA WorkerReturns ==
  ASSUME WorkersOK, NEW w \in Workers,
         NEW p \in {"polling", "down"}, pc' = [pc EXCEPT ![w] = p],
         work' = [work EXCEPT ![w] = NoWork]
  PROVE  WorkersOK'
<1>1. NoWork \in Work  BY DEF NoWork, Work
<1> QED  BY <1>1 DEF WorkersOK, Holding, Leaving

\* What a worker holds is a task of a run, and their rows are rows.
LEMMA HeldRows ==
  ASSUME TablesOK, WorkersOK, NEW w \in Workers, pc[w] \in Holding \cup Leaving
  PROVE  /\ Held(w) \in Tasks /\ RunOf(Held(w)) \in Runs
         /\ tasks[Held(w)] \in TaskRow
         /\ runs[RunOf(Held(w))] \in RunRow(Jobs \cup {NoOne})
  BY DEF TablesOK, WorkersOK, Tasks

\* The statements of pollAndProcess, process and checkAndCompleteRun.
LEMMA TypeWorkerStep ==
  ASSUME TypeInv, NEW w \in Workers, WorkerStep(w)
  PROVE  TypeInv'
<1>. TablesOK /\ SchedulerOK /\ SchedInv /\ CancelOK /\ WorkersOK /\ StorageOK /\ EnvironmentOK
  BY DEF TypeInv, TypeOK
<1>1. UNCHANGED <<schedVars, created, cancel, envVars>>
  BY DEF WorkerStep, Claim, CheckCancelled, Kill, Start, Load, Exec, Register, Succeed, Credit,
         Assess, CloseRun, CloseJob, Announce, Decide, Retry, Fail, CountFail
<1>2. (SchedulerOK /\ SchedInv /\ CancelOK /\ EnvironmentOK)'  BY <1>1, Frames
<1>. USE DEF Holding, Leaving
<1>3. CASE Claim(w)
  <2>1. PICK t \in Tasks : Claim(w)!2!(t)  BY <1>3 DEF Claim
  <2>2. tasks[t] \in TaskRow /\ LeaseTask(tasks[t], w) \in TaskRow
    BY TaskRows DEF TablesOK
  <2>3. TablesOK'  BY <1>3, <2>1, <2>2 DEF Claim, TablesOK
  <2>4. [NoWork EXCEPT !.task = t, !.retries = tasks[t].retries] \in Work
    BY <2>2 DEF NoWork, Work, TaskRow
  <2>5. WorkersOK'  BY <1>3, <2>1, <2>4 DEF Claim, WorkersOK
  <2>6. StorageOK'  BY <1>3, Frames DEF Claim
  <2> QED  BY <1>2, <2>3, <2>5, <2>6 DEF TypeInv, TypeOK
<1>4. CASE CheckCancelled(w) \/ Decide(w)
  <2>1. TablesOK' /\ StorageOK'  BY <1>4, Frames DEF CheckCancelled, Decide
  <2>2. WorkersOK'  BY <1>4, WorkerGoesOn, WorkerReturns DEF CheckCancelled, Decide
  <2> QED  BY <1>2, <2>1, <2>2 DEF TypeInv, TypeOK
<1>5. CASE Kill(w) \/ Retry(w)
  <2>1. pc[w] \in Holding  BY <1>5 DEF Kill, Retry
  <2>a. /\ UpdateTaskState(tasks[Held(w)], "DEAD") \in TaskRow
        /\ RetryTask(tasks[Held(w)]) \in TaskRow
    BY <2>1, HeldRows, TaskRows DEF TaskStates
  <2>2. TablesOK'  BY <1>5, <2>a DEF Kill, Retry, TablesOK
  <2>3. StorageOK'  BY <1>5, Frames DEF Kill, Retry
  <2>4. WorkersOK'  BY <1>5, WorkerGoesOn, WorkerReturns DEF Kill, Retry
  <2> QED  BY <1>2, <2>2, <2>3, <2>4 DEF TypeInv, TypeOK
<1>6. CASE Succeed(w) \/ Fail(w)
  <2>1. pc[w] \in Holding  BY <1>6 DEF Succeed, Fail
  <2>a. /\ UpdateTaskState(tasks[Held(w)], "SUCCEEDED") \in TaskRow
        /\ FailTaskWithError(tasks[Held(w)]) \in TaskRow
    BY <2>1, HeldRows, TaskRows DEF TaskStates
  <2>2. TablesOK'  BY <1>6, <2>a DEF Succeed, Fail, TablesOK
  <2>3. StorageOK'  BY <1>6, Frames DEF Succeed, Fail
  <2>4. WorkersOK'  BY <1>6, WorkerGoesOn, WorkerReturns DEF Succeed, Fail
  <2> QED  BY <1>2, <2>2, <2>3, <2>4 DEF TypeInv, TypeOK
<1>7. CASE Start(w) \/ Credit(w)
  <2>1. pc[w] \in Holding \cup Leaving  BY <1>7 DEF Start, Credit
  <2>2. TablesOK'
    <3>1. /\ TaskStarted(runs[RunOf(Held(w))]) \in RunRow(Jobs \cup {NoOne})
          /\ TaskSucceeded(runs[RunOf(Held(w))]) \in RunRow(Jobs \cup {NoOne})
      BY <2>1, HeldRows, RunRows
    <3> QED  BY <1>7, <3>1 DEF Start, Credit, TablesOK
  <2>3. StorageOK'  BY <1>7, Frames DEF Start, Credit
  <2>4. WorkersOK'  BY <1>7, WorkerGoesOn, WorkerReturns DEF Start, Credit
  <2> QED  BY <1>2, <2>2, <2>3, <2>4 DEF TypeInv, TypeOK
<1>8. CASE CountFail(w)
  <2>1. pc[w] \in Leaving  BY <1>8 DEF CountFail
  <2>a. TaskFailed(runs[RunOf(Held(w))]) \in RunRow(Jobs \cup {NoOne})
    BY <2>1, HeldRows, RunRows
  <2>2. TablesOK'  BY <1>8, <2>a DEF CountFail, TablesOK
  <2>3. StorageOK'  BY <1>8, Frames DEF CountFail
  <2>4. WorkersOK'  BY <1>8, WorkerGoesOn, WorkerReturns DEF CountFail
  <2> QED  BY <1>2, <2>2, <2>3, <2>4 DEF TypeInv, TypeOK
<1>9. CASE Load(w)
  <2>1. TablesOK' /\ StorageOK'  BY <1>9, Frames DEF Load
  <2>2. Cardinality(TasksOf(RunOf(Held(w))) \ purged) \in Nat
    BY TasksFinite, FS_Subset, FS_CardinalityType
  <2>3. WorkersOK'  BY <1>9, <2>2 DEF Load, WorkersOK, Work
  <2> QED  BY <1>2, <2>1, <2>3 DEF TypeInv, TypeOK
<1>10. CASE Exec(w)
  <2>1. TablesOK'  BY <1>10, Frames DEF Exec
  <2>2. work[w].parts \in Nat  BY DEF WorkersOK, Work
  <2>3. StorageOK'  BY <1>10, <2>2 DEF Exec, StorageOK
  <2>4. WorkersOK'  BY <1>10, WorkerGoesOn, WorkerReturns DEF Exec
  <2> QED  BY <1>2, <2>1, <2>3, <2>4 DEF TypeInv, TypeOK
<1>11. CASE Register(w)
  <2>1. TablesOK'  BY <1>11, Frames DEF Register
  <2>a. Held(w) \in Tasks  BY <1>11, HeldRows DEF Register
  <2>2. StorageOK'  BY <1>11, <2>a DEF Register, StorageOK
  <2>3. WorkersOK'  BY <1>11, WorkerGoesOn, WorkerReturns DEF Register
  <2> QED  BY <1>2, <2>1, <2>2, <2>3 DEF TypeInv, TypeOK
<1>12. CASE Assess(w)
  <2>1. TablesOK' /\ StorageOK'  BY <1>12, Frames DEF Assess
  <2>2. pc[w] \in Leaving  BY <1>12 DEF Assess
  <2>3. CASE AllDone(runs[RunOf(Held(w))])
    <3>1. /\ runs[RunOf(Held(w))].total \in Nat
          /\ Verdict(runs[RunOf(Held(w))]) \in {"SUCCEEDED", "FAILED"}
      BY <2>2, HeldRows DEF RunRow, Verdict
    <3>2. WorkersOK'  BY <1>12, <2>3, <3>1 DEF Assess, WorkersOK, Work
    <3> QED  BY <1>2, <2>1, <3>2 DEF TypeInv, TypeOK
  <2>4. CASE ~AllDone(runs[RunOf(Held(w))])
    <3>1. WorkersOK'  BY <1>12, <2>4, WorkerGoesOn, WorkerReturns DEF Assess
    <3> QED  BY <1>2, <2>1, <3>1 DEF TypeInv, TypeOK
  <2> QED  BY <2>3, <2>4
<1>13. CASE CloseRun(w)
  <2>1. pc[w] \in Leaving  BY <1>13 DEF CloseRun
  <2>2. work[w].verdict \in RunStates /\ work[w].verdict \in JobStates
    BY <1>13 DEF CloseRun, WorkersOK, RunStates, JobStates
  <2>3. CompleteRun(runs[RunOf(Held(w))], work[w].verdict) \in RunRow(Jobs \cup {NoOne})
    BY <2>1, <2>2, HeldRows, RunRows
  <2>4. TablesOK'  BY <1>13, <2>3 DEF CloseRun, TablesOK
  <2>5. StorageOK'  BY <1>13, Frames DEF CloseRun
  <2>6. WorkersOK'  BY <1>13, WorkerGoesOn DEF CloseRun
  <2> QED  BY <1>2, <2>4, <2>5, <2>6 DEF TypeInv, TypeOK
<1>14. CASE CloseJob(w)
  <2>1. work[w].verdict \in JobStates
    BY <1>14 DEF CloseJob, WorkersOK, JobStates
  <2>2. TablesOK'  BY <1>14, <2>1 DEF CloseJob, TablesOK
  <2>3. StorageOK'  BY <1>14, Frames DEF CloseJob
  <2>4. WorkersOK'  BY <1>14, WorkerGoesOn DEF CloseJob
  <2> QED  BY <1>2, <2>2, <2>3, <2>4 DEF TypeInv, TypeOK
<1>15. CASE Announce(w)
  <2>1. TablesOK'  BY <1>15, Frames DEF Announce
  <2>2. StorageOK'
    <3>. DEFINE j == runs[RunOf(Held(w))].job
    <3>1. CASE j \in Jobs
      <4>1. completed[j] + 1 \in Nat  BY <3>1 DEF StorageOK
      <4> QED  BY <1>15, <4>1 DEF Announce, StorageOK
    <3>2. CASE j \notin Jobs
      <4>1. UNCHANGED storeVars  BY <1>15, <3>2 DEF Announce, StorageOK
      <4> QED  BY <4>1, Frames
    <3> QED  BY <3>1, <3>2
  <2>3. WorkersOK'  BY <1>15, WorkerReturns DEF Announce
  <2> QED  BY <1>2, <2>1, <2>2, <2>3 DEF TypeInv, TypeOK
<1> QED
  BY <1>3, <1>4, <1>5, <1>6, <1>7, <1>8, <1>9, <1>10, <1>11, <1>12, <1>13, <1>14, <1>15
  DEF WorkerStep

\* A failed statement or a crash of a worker.
LEMMA TypeWorkerError ==
  ASSUME TypeInv, NEW w \in Workers, WorkerError(w) \/ WorkerCrash(w)
  PROVE  TypeInv'
<1>. TablesOK /\ SchedulerOK /\ SchedInv /\ CancelOK /\ WorkersOK /\ StorageOK /\ EnvironmentOK
  BY DEF TypeInv, TypeOK
<1>1. UNCHANGED <<schedVars, created, cancel, storeVars>>
  BY DEF WorkerError, WorkerCrash
<1>2. (SchedulerOK /\ SchedInv /\ CancelOK /\ StorageOK)'  BY <1>1, Frames
<1>3. EnvironmentOK'
  BY ConstantsAssumption DEF WorkerError, WorkerCrash, Fault, Stop, EnvironmentOK
<1>4. CASE WorkerCrash(w)
  <2>1. TablesOK'  BY <1>4, Frames DEF WorkerCrash
  <2>2. WorkersOK'  BY <1>4, WorkerReturns DEF WorkerCrash
  <2> QED  BY <1>2, <1>3, <2>1, <2>2 DEF TypeInv, TypeOK
<1>5. CASE WorkerError(w)
  <2>1. CASE At(w, "succeed") /\ tasks' # tasks
    <3>1. UpdateTaskState(tasks[Held(w)], "SUCCEEDED") \in TaskRow
      BY <2>1, HeldRows, TaskRows DEF TaskStates, Holding
    <3>2. TablesOK'  BY <1>5, <2>1, <3>1 DEF WorkerError, TablesOK
    <3>3. WorkersOK'  BY <1>5, <2>1, WorkerReturns DEF WorkerError
    <3> QED  BY <1>2, <1>3, <3>2, <3>3 DEF TypeInv, TypeOK
  <2>2. CASE UNCHANGED tasks
    <3>1. TablesOK'  BY <1>5, <2>2, Frames DEF WorkerError
    <3>2. WorkersOK'
      BY <1>5, <2>2, WorkerGoesOn, WorkerReturns
      DEF WorkerError, GoesOn, Holding, Leaving
    <3> QED  BY <1>2, <1>3, <3>1, <3>2 DEF TypeInv, TypeOK
  <2> QED  BY <1>5, <2>1, <2>2 DEF WorkerError
<1> QED  BY <1>4, <1>5

\* Leases that run out, heartbeats and the cleanup.
LEMMA TypeLease ==
  ASSUME TypeInv,
         (\E t \in Tasks : Expire(t)) \/ (\E w \in Workers : Heartbeat(w)) \/ CleanupDeadTasks
  PROVE  TypeInv'
<1>. TablesOK /\ SchedulerOK /\ SchedInv /\ CancelOK /\ WorkersOK /\ StorageOK /\ EnvironmentOK
  BY DEF TypeInv, TypeOK
<1>1. UNCHANGED <<jobs, runs, schedVars, created, cancel, workVars, storeVars>>
  BY DEF Expire, Heartbeat, CleanupDeadTasks
<1>2. (SchedulerOK /\ SchedInv /\ CancelOK /\ WorkersOK /\ StorageOK)'  BY <1>1, Frames
<1>3. ASSUME NEW t \in Tasks, Expire(t)  PROVE TypeInv'
  <2>1. [tasks[t] EXCEPT !.lease = "expired"] \in TaskRow  BY TaskRows DEF TablesOK
  <2>2. TablesOK'  BY <1>1, <1>3, <2>1 DEF Expire, TablesOK
  <2>3. EnvironmentOK'  BY <1>3, ConstantsAssumption DEF Expire, EnvironmentOK
  <2> QED  BY <1>2, <2>2, <2>3 DEF TypeInv, TypeOK
<1>4. ASSUME NEW w \in Workers, Heartbeat(w)  PROVE TypeInv'
  <2>1. pc[w] \in Holding \cup Leaving  BY <1>4 DEF Heartbeat, Beating, Holding
  <2>2. HeartbeatTask(tasks[Held(w)], w) \in TaskRow  BY <2>1, HeldRows, TaskRows
  <2>3. TablesOK'  BY <1>1, <1>4, <2>2 DEF Heartbeat, TablesOK
  <2>4. EnvironmentOK'  BY <1>4, Frames DEF Heartbeat
  <2> QED  BY <1>2, <2>3, <2>4 DEF TypeInv, TypeOK
<1>5. CASE CleanupDeadTasks
  <2>1. TablesOK'  BY <1>5, Frames DEF CleanupDeadTasks
  <2>2. EnvironmentOK'  BY <1>5 DEF CleanupDeadTasks, EnvironmentOK
  <2> QED  BY <1>2, <2>1, <2>2 DEF TypeInv, TypeOK
<1> QED  BY <1>3, <1>4, <1>5

\* One step of the system.
LEMMA TypeStep == TypeInv /\ [Next]_vars => TypeInv'
<1> SUFFICES ASSUME TypeInv, [Next]_vars  PROVE TypeInv'  OBVIOUS
<1>1. CASE Next
  BY <1>1, TypeScheduler, TypeCancel, TypeWorkerStep, TypeWorkerError, TypeLease DEF Next
<1>2. CASE UNCHANGED vars
  BY <1>2, Frames DEF vars, TypeInv, TypeOK
<1> QED  BY <1>1, <1>2

\* TypeOK holds: no handler ever stores a value outside the enums and columns
\* of the schema, or indexes a task the scheduler's loop does not create.
THEOREM TypeCorrect == Spec => []TypeOK
<1>1. Spec => []TypeInv  BY TypeInit, TypeStep, PTL DEF Spec
<1>2. TypeInv => TypeOK  BY DEF TypeInv
<1> QED  BY <1>1, <1>2, PTL

(***************************************************************************)
(* Leases.  LeaseExclusive is not inductive: it says nothing of the row of *)
(* a worker that is done with its task, and two workers on the same row    *)
(* would be excluded by nothing.  What is: a worker owns the row of the    *)
(* task it took until pollAndProcess returns, and where it is tells the    *)
(* state of the row.                                                       *)
(***************************************************************************)
OwnerInv ==
    \A w \in Workers :
        /\ pc[w] \in Holding \cup Leaving => tasks[Held(w)].owner = w
        /\ pc[w] \in Holding => tasks[Held(w)].state = "LEASED"
        /\ pc[w] \in Leaving \ {"countFail"} => tasks[Held(w)].state = "SUCCEEDED"
        /\ pc[w] = "countFail" => tasks[Held(w)].state \in {"LEASED", "FAILED"}

\* The tables are filled in order: nothing exists of the runs that were not
\* inserted, and of the run under construction exactly the first tasks do.
FreshInv ==
    /\ \A r \in Runs : r > created =>
          runs[r].total = 0 /\ \A i \in Partitions : tasks[<<r, i>>].state = "NONE"
    /\ sched.pc \in {"tasks", "total", "progress"} =>
          \A i \in Partitions : tasks[<<sched.run, i>>].state = "NONE" <=> i >= sched.next

LeaseInv == TypeInv /\ OwnerInv /\ FreshInv /\ TotalIsWhole /\ PendingIsFree

\* The rows of tasks a worker writes: one it claims while nobody has it, the
\* one it holds, or, by its heartbeat, the lease of the one it owns.
LEMMA WorkerWrites ==
  ASSUME TypeInv, OwnerInv, NEW w \in Workers, NEW t \in Tasks,
         WorkerStep(w) \/ WorkerError(w) \/ WorkerCrash(w) \/ Heartbeat(w)
  PROVE  \/ tasks'[t] = tasks[t]
         \/ Claim(w) /\ Leasable(tasks[t]) /\ tasks'[t] = LeaseTask(tasks[t], w)
         \/ /\ pc[w] \in Holding /\ pc'[w] \notin Holding /\ t = Held(w)
            /\ tasks'[t] \in {UpdateTaskState(tasks[t], "DEAD"), RetryTask(tasks[t]),
                              UpdateTaskState(tasks[t], "SUCCEEDED"),
                              FailTaskWithError(tasks[t])}
         \/ Heartbeat(w) /\ tasks[t].owner = w /\ tasks'[t] = [tasks[t] EXCEPT !.lease = "live"]
<1>. tasks \in [Tasks -> TaskRow] /\ WorkersOK  BY DEF TypeInv, TypeOK, TablesOK
<1>. USE DEF Holding, Leaving
<1>1. CASE Claim(w)
  BY <1>1 DEF Claim
<1>2. CASE Kill(w) \/ Retry(w) \/ Succeed(w) \/ Fail(w)
  <2>1. Held(w) \in Tasks /\ pc[w] \in Holding  BY <1>2 DEF Kill, Retry, Succeed, Fail, WorkersOK
  <2>2. pc'[w] \notin Holding  BY <1>2 DEF Kill, Retry, Succeed, Fail, WorkersOK
  <2> QED  BY <1>2, <2>1, <2>2 DEF Kill, Retry, Succeed, Fail
<1>3. CASE \/ CheckCancelled(w) \/ Start(w) \/ Load(w) \/ Exec(w) \/ Register(w) \/ Credit(w)
           \/ Assess(w) \/ CloseRun(w) \/ CloseJob(w) \/ Announce(w) \/ Decide(w) \/ CountFail(w)
           \/ WorkerCrash(w)
  BY <1>3 DEF CheckCancelled, Start, Load, Exec, Register, Credit, Assess, CloseRun, CloseJob,
              Announce, Decide, CountFail, WorkerCrash
<1>4. CASE WorkerError(w)
  <2>1. CASE UNCHANGED tasks  BY <2>1
  <2>2. CASE ~UNCHANGED tasks
    <3>1. /\ At(w, "succeed") /\ Return(w)
          /\ WriteTask(Held(w), UpdateTaskState(tasks[Held(w)], "SUCCEEDED"))
      BY <1>4, <2>2 DEF WorkerError
    <3>2. Held(w) \in Tasks /\ pc'[w] \notin Holding  BY <3>1 DEF WorkersOK
    <3> QED  BY <3>1, <3>2
  <2> QED  BY <2>1, <2>2
<1>5. CASE Heartbeat(w)
  <2>1. Held(w) \in Tasks /\ tasks[Held(w)].owner = w
    BY <1>5 DEF Heartbeat, Beating, WorkersOK, OwnerInv
  <2> QED  BY <1>5, <2>1 DEF Heartbeat, HeartbeatTask
<1> QED  BY <1>1, <1>2, <1>3, <1>4, <1>5 DEF WorkerStep

\* Steps of the scheduler, of CancelJob and of the clock: the only task they
\* insert is one that was not there, and they write no state or owner.
LEMMA OtherWrites ==
  ASSUME TypeInv, FreshInv, NEW t \in Tasks,
         \/ SchedulerStep \/ HandlerError \/ SchedulerCrash
         \/ \E j \in Jobs : CancelMark(j) \/ CancelStep(j) \/ CancelError(j)
         \/ CleanupDeadTasks \/ \E u \in Tasks : Expire(u)
  PROVE  /\ UNCHANGED workVars
         /\ \/ tasks'[t] = tasks[t]
            \/ /\ InsertTask /\ t = <<sched.run, sched.next>>
               /\ tasks[t].state = "NONE" /\ tasks'[t] = CreateTask
            \/ tasks[t].lease = "live" /\ tasks'[t] = [tasks[t] EXCEPT !.lease = "expired"]
<1>. tasks \in [Tasks -> TaskRow] /\ SchedInv  BY DEF TypeInv, TypeOK, TablesOK
<1>1. CASE InsertTask
  <2>1. sched.next \in Partitions /\ tasks[<<sched.run, sched.next>>].state = "NONE"
    BY <1>1, ConstantsAssumption DEF InsertTask, SchedInv, FreshInv, Partitions
  <2> QED  BY <1>1, <2>1 DEF InsertTask
<1>2. ASSUME NEW u \in Tasks, Expire(u)
      PROVE  UNCHANGED workVars /\ (tasks'[t] = tasks[t] \/
                (tasks[t].lease = "live" /\ tasks'[t] = [tasks[t] EXCEPT !.lease = "expired"]))
  BY <1>2 DEF Expire
<1>3. CASE \/ HandlerError \/ SchedulerCrash \/ (SchedulerStep /\ ~InsertTask)
           \/ \E j \in Jobs : CancelMark(j) \/ CancelStep(j) \/ CancelError(j)
           \/ CleanupDeadTasks
  BY <1>3 DEF HandlerError, SchedulerCrash, SchedulerStep, Receive, MarkQueued, InsertRun,
              SetTotal, SetPending, CancelMark, CancelStep, CancelList, CancelRun, CancelError,
              CleanupDeadTasks
<1> QED  BY <1>1, <1>2, <1>3 DEF SchedulerStep, InsertTask

\* Workers keep owning the rows they work on, whatever the others do.
LEMMA OwnerStep ==
  ASSUME LeaseInv, [Next]_vars
  PROVE  OwnerInv'
<1>. TypeInv /\ OwnerInv /\ FreshInv /\ tasks \in [Tasks -> TaskRow] /\ WorkersOK
  BY DEF LeaseInv, TypeInv, TypeOK, TablesOK
<1>1. CASE \/ SchedulerStep \/ HandlerError \/ SchedulerCrash
           \/ \E j \in Jobs : CancelMark(j) \/ CancelStep(j) \/ CancelError(j)
           \/ CleanupDeadTasks \/ \E u \in Tasks : Expire(u)
  <2>1. UNCHANGED workVars
    BY <1>1 DEF SchedulerStep, Receive, MarkQueued, InsertRun, InsertTask, SetTotal, SetPending,
      HandlerError, SchedulerCrash, CancelMark, CancelStep, CancelList, CancelRun, CancelError,
      Expire, CleanupDeadTasks
  <2>2. \A t \in Tasks : tasks[t].state # "NONE" =>
            tasks'[t].state = tasks[t].state /\ tasks'[t].owner = tasks[t].owner
    <3>1. TAKE t \in Tasks
    <3>2. HAVE tasks[t].state # "NONE"
    <3>3. tasks'[t] = tasks[t] \/ tasks'[t] = [tasks[t] EXCEPT !.lease = "expired"]
      BY <1>1, <3>2, OtherWrites
    <3>4. tasks[t] \in TaskRow  OBVIOUS
    <3> QED  BY <3>3, <3>4 DEF TaskRow
  <2> QED  BY <2>1, <2>2 DEF OwnerInv, WorkersOK
<1>2. ASSUME NEW w \in Workers,
             WorkerStep(w) \/ WorkerError(w) \/ WorkerCrash(w) \/ Heartbeat(w)
      PROVE  OwnerInv'
  <2>1. \A v \in Workers \ {w} : pc'[v] = pc[v] /\ work'[v] = work[v]
    BY <1>2 DEF WorkerStep, Claim, CheckCancelled, Kill, Start, Load, Exec, Register, Succeed,
      Credit, Assess, CloseRun, CloseJob, Announce, Decide, Retry, Fail, CountFail,
      WorkerError, WorkerCrash, Heartbeat, WorkersOK
  <2>2. ASSUME NEW v \in Workers \ {w}, pc[v] \in Holding \cup Leaving
        PROVE  /\ tasks'[Held(v)].state = tasks[Held(v)].state
               /\ tasks'[Held(v)].owner = tasks[Held(v)].owner
    <3>1. /\ Held(v) \in Tasks /\ tasks[Held(v)].owner = v
          /\ tasks[Held(v)].state \in {"LEASED", "SUCCEEDED", "FAILED"}
      BY <2>2 DEF WorkersOK, OwnerInv, Leaving
    <3>2. pc[w] \in Holding \cup Leaving => Held(w) # Held(v)
      BY <2>2, <3>1 DEF OwnerInv
    <3> QED  BY <1>2, <3>1, <3>2, WorkerWrites DEF Leasable, TaskRow
  <2>3. /\ pc'[w] \in Holding \cup Leaving => tasks'[work'[w].task].owner = w
        /\ pc'[w] \in Holding => tasks'[work'[w].task].state = "LEASED"
        /\ pc'[w] \in Leaving \ {"countFail"} => tasks'[work'[w].task].state = "SUCCEEDED"
        /\ pc'[w] = "countFail" => tasks'[work'[w].task].state \in {"LEASED", "FAILED"}
    <3>. USE DEF Holding, Leaving
    <3>1. CASE Claim(w)
      BY <3>1 DEF Claim, LeaseTask, WorkersOK, NoWork
    <3>2. CASE Kill(w) \/ Retry(w) \/ CountFail(w) \/ Announce(w) \/ WorkerCrash(w)
      BY <3>2 DEF Kill, Retry, CountFail, Announce, WorkerCrash, WorkersOK
    <3>3. CASE Succeed(w) \/ Fail(w)
      BY <3>3 DEF Succeed, Fail, UpdateTaskState, FailTaskWithError, WorkersOK, OwnerInv, TaskRow
    <3>4. CASE CheckCancelled(w) \/ Start(w) \/ Exec(w) \/ Register(w) \/ Decide(w)
      <4>1. pc[w] \in Holding /\ pc'[w] \in Holding /\ UNCHANGED <<tasks, work>>
        BY <3>4 DEF CheckCancelled, Start, Exec, Register, Decide, WorkersOK
      <4> QED  BY <4>1 DEF OwnerInv
    <3>7. CASE Load(w)
      BY <3>7 DEF Load, WorkersOK, OwnerInv, Work
    <3>8. CASE Credit(w) \/ CloseRun(w) \/ CloseJob(w)
      <4>1. /\ pc[w] \in Leaving \ {"countFail"} /\ pc'[w] \in Leaving \ {"countFail"}
            /\ UNCHANGED <<tasks, work>>
        BY <3>8 DEF Credit, CloseRun, CloseJob, WorkersOK
      <4> QED  BY <4>1 DEF OwnerInv
    <3>9. CASE Assess(w)
      BY <3>9 DEF Assess, WorkersOK, OwnerInv, Work
    <3>5. CASE WorkerError(w)
      BY <3>5 DEF WorkerError, GoesOn, WorkersOK, OwnerInv
    <3>6. CASE Heartbeat(w)
      BY <3>6 DEF Heartbeat, HeartbeatTask, WorkersOK, OwnerInv, TaskRow, Beating
    <3> QED
      BY <1>2, <3>1, <3>2, <3>3, <3>4, <3>5, <3>6, <3>7, <3>8, <3>9 DEF WorkerStep
  <2>4. ASSUME NEW v \in Workers \ {w}
        PROVE  /\ pc'[v] \in Holding \cup Leaving => tasks'[work'[v].task].owner = v
               /\ pc'[v] \in Holding => tasks'[work'[v].task].state = "LEASED"
               /\ pc'[v] \in Leaving \ {"countFail"} => tasks'[work'[v].task].state = "SUCCEEDED"
               /\ pc'[v] = "countFail" => tasks'[work'[v].task].state \in {"LEASED", "FAILED"}
    BY <2>1, <2>2 DEF OwnerInv, Leaving
  <2> QED  BY <2>3, <2>4 DEF OwnerInv
<1>3. CASE UNCHANGED vars
  BY <1>3 DEF vars, OwnerInv
<1> QED  BY <1>1, <1>2, <1>3 DEF Next

\* Rows appear by InsertTask only and never disappear.
LEMMA RowsStay ==
  ASSUME LeaseInv, Next, NEW t \in Tasks
  PROVE  /\ tasks[t].state # "NONE" => tasks'[t].state # "NONE"
         /\ ~InsertTask => (tasks[t].state = "NONE" => tasks'[t].state = "NONE")
<1>. TypeInv /\ OwnerInv /\ FreshInv /\ tasks[t] \in TaskRow
  BY DEF LeaseInv, TypeInv, TypeOK, TablesOK
<1>1. CASE \/ SchedulerStep \/ HandlerError \/ SchedulerCrash
           \/ \E j \in Jobs : CancelMark(j) \/ CancelStep(j) \/ CancelError(j)
           \/ CleanupDeadTasks \/ \E u \in Tasks : Expire(u)
  BY <1>1, OtherWrites DEF TaskRow, CreateTask, NoTask
<1>2. ASSUME NEW w \in Workers,
             WorkerStep(w) \/ WorkerError(w) \/ WorkerCrash(w) \/ Heartbeat(w)
      PROVE  tasks'[t].state = "NONE" <=> tasks[t].state = "NONE"
  <2>. USE DEF TaskRow
  <2>1. CASE tasks'[t] = tasks[t]  BY <2>1
  <2>2. CASE Leasable(tasks[t]) /\ tasks'[t] = LeaseTask(tasks[t], w)
    BY <2>2 DEF Leasable, LeaseTask
  <2>3. CASE /\ pc[w] \in Holding /\ t = Held(w)
             /\ tasks'[t] \in {UpdateTaskState(tasks[t], "DEAD"), RetryTask(tasks[t]),
                               UpdateTaskState(tasks[t], "SUCCEEDED"),
                               FailTaskWithError(tasks[t])}
    <3>1. tasks[t].state = "LEASED"  BY <2>3 DEF OwnerInv
    <3>2. tasks'[t].state # "NONE"
      BY <2>3 DEF UpdateTaskState, RetryTask, FailTaskWithError
    <3> QED  BY <3>1, <3>2
  <2>4. CASE tasks'[t] = [tasks[t] EXCEPT !.lease = "live"]  BY <2>4
  <2>5. WorkerStep(w) \/ WorkerError(w) \/ WorkerCrash(w) \/ Heartbeat(w)  BY <1>2
  <2> QED  BY <2>1, <2>2, <2>3, <2>4, <2>5, WorkerWrites
<1> QED  BY <1>1, <1>2 DEF Next

\* tasks_total is written by InsertRun and SetTotal only.
LEMMA TotalsStay ==
  ASSUME LeaseInv, Next, ~InsertRun, ~SetTotal, NEW r \in Runs
  PROVE  created' = created /\ runs'[r].total = runs[r].total
<1>. runs \in [Runs -> RunRow(Jobs \cup {NoOne})]  BY DEF LeaseInv, TypeInv, TypeOK, TablesOK
<1>1. runs[r] \in RunRow(Jobs \cup {NoOne})  OBVIOUS
<1>. USE DEF RunRow
<1>2. CASE SetPending
  BY <1>1, <1>2 DEF SetPending, InitRunProgress
<1>3. ASSUME NEW j \in Jobs, CancelRun(j)
      PROVE  created' = created /\ runs'[r].total = runs[r].total
  BY <1>1, <1>3 DEF CancelRun, UpdateRunState
<1>4. ASSUME NEW w \in Workers, Start(w) \/ Credit(w) \/ CloseRun(w) \/ CountFail(w)
      PROVE  created' = created /\ runs'[r].total = runs[r].total
  <2>. DEFINE q == RunOf(Held(w))
  <2>1. /\ UNCHANGED created
        /\ \/ runs' = [runs EXCEPT ![q] = TaskStarted(runs[q])]
           \/ runs' = [runs EXCEPT ![q] = TaskSucceeded(runs[q])]
           \/ runs' = [runs EXCEPT ![q] = CompleteRun(runs[q], work[w].verdict)]
           \/ runs' = [runs EXCEPT ![q] = TaskFailed(runs[q])]
    BY <1>4 DEF Start, Credit, CloseRun, CountFail
  <2>. HIDE DEF q
  <2>2. CASE q # r  BY <2>1, <2>2
  <2>3. CASE q = r
    <3>1. runs'[r] \in {TaskStarted(runs[r]), TaskSucceeded(runs[r]), TaskFailed(runs[r]),
                        CompleteRun(runs[r], work[w].verdict)}
      BY <2>1, <2>3
    <3>2. /\ TaskStarted(runs[r]).total = runs[r].total
          /\ TaskSucceeded(runs[r]).total = runs[r].total
          /\ TaskFailed(runs[r]).total = runs[r].total
          /\ CompleteRun(runs[r], work[w].verdict).total = runs[r].total
      BY <1>1 DEF TaskStarted, TaskSucceeded, CompleteRun, TaskFailed
    <3> QED  BY <2>1, <3>1, <3>2
  <2> QED  BY <2>2, <2>3
<1>5. ASSUME UNCHANGED runs, UNCHANGED created
      PROVE  created' = created /\ runs'[r].total = runs[r].total
  BY <1>5
<1>6. CASE \/ (SchedulerStep /\ ~SetPending) \/ HandlerError \/ SchedulerCrash
           \/ CleanupDeadTasks \/ \E u \in Tasks : Expire(u)
           \/ \E j \in Jobs : CancelMark(j) \/ CancelList(j) \/ CancelError(j)
  BY <1>5, <1>6 DEF SchedulerStep, Receive, MarkQueued, InsertTask, HandlerError,
     SchedulerCrash, Expire, CleanupDeadTasks, CancelMark, CancelList, CancelError
<1>7. ASSUME NEW w \in Workers,
             \/ WorkerStep(w) /\ ~(Start(w) \/ Credit(w) \/ CloseRun(w) \/ CountFail(w))
             \/ WorkerError(w) \/ WorkerCrash(w) \/ Heartbeat(w)
      PROVE  UNCHANGED runs /\ UNCHANGED created
  BY <1>7 DEF WorkerStep, Claim, CheckCancelled, Kill, Load, Exec, Register, Succeed, Assess,
     CloseJob, Announce, Decide, Retry, Fail, WorkerError, WorkerCrash, Heartbeat
<1> QED  BY <1>2, <1>3, <1>4, <1>5, <1>6, <1>7 DEF Next, CancelStep

\* Workers leave the scheduler, CancelJob and the sequence of runs alone.
LEMMA WorkerFrame ==
  ASSUME NEW w \in Workers,
         WorkerStep(w) \/ WorkerError(w) \/ WorkerCrash(w) \/ Heartbeat(w)
  PROVE  UNCHANGED <<inbox, sched, created, cancel>>
BY DEF WorkerStep, Claim, CheckCancelled, Kill, Start, Load, Exec, Register, Succeed, Credit,
       Assess, CloseRun, CloseJob, Announce, Decide, Retry, Fail, CountFail, WorkerError,
       WorkerCrash, Heartbeat

\* Tables keep being filled in order, and a total waits for its tasks.
LEMMA FreshStep ==
  ASSUME LeaseInv, [Next]_vars
  PROVE  FreshInv' /\ TotalIsWhole'
<1>. /\ TypeInv /\ FreshInv /\ TotalIsWhole /\ SchedInv /\ TablesOK /\ SchedulerOK
     /\ tasks \in [Tasks -> TaskRow]
     /\ runs \in [Runs -> RunRow(Jobs \cup {NoOne})]
  BY DEF LeaseInv, TypeInv, TypeOK, TablesOK
<1>. USE ConstantsAssumption
<1>1. CASE InsertRun
  <2>1. created \in Nat /\ created + 1 \in Runs /\ UNCHANGED tasks
    BY <1>1 DEF InsertRun, TablesOK, Runs
  <2>2. runs'[created + 1].total = 0  BY <1>1, <2>1 DEF InsertRun, CreateRun, NoRun
  <2>3. \A r \in Runs : r # created + 1 => runs'[r] = runs[r]  BY <1>1 DEF InsertRun
  <2>4. FreshInv'
    <3>1. sched'.pc = "tasks" /\ sched'.run = created + 1 /\ sched'.next = 0 /\ created' = created + 1
      BY <1>1 DEF InsertRun, SchedulerOK
    <3>2. \A i \in Partitions : i >= 0  BY DEF Partitions
    <3> QED  BY <2>1, <2>2, <2>3, <3>1, <3>2 DEF FreshInv, Runs
  <2>5. TotalIsWhole'  BY <2>1, <2>2, <2>3 DEF TotalIsWhole
  <2> QED  BY <2>4, <2>5
<1>2. CASE SetTotal
  <2>1. /\ sched.run \in Runs /\ sched.run = created /\ sched.next = NumPartitions
        /\ UNCHANGED <<tasks, created>> /\ sched'.pc = "progress"
        /\ sched'.run = sched.run /\ sched'.next = sched.next
    BY <1>2 DEF SetTotal, SchedInv, SchedulerOK
  <2>2. runs'[sched.run].total = NumPartitions
    BY <1>2, <2>1 DEF SetTotal, UpdateRunTasksTotal, RunRow
  <2>3. \A r \in Runs : r # sched.run => runs'[r] = runs[r]  BY <1>2 DEF SetTotal
  <2>4. \A i \in Partitions : tasks[<<sched.run, i>>].state # "NONE"
    BY <1>2, <2>1 DEF SetTotal, FreshInv, Partitions
  <2>5. FreshInv'  BY <1>2, <2>1, <2>3 DEF FreshInv, SetTotal, Runs, TablesOK
  <2>6. TotalIsWhole'  BY <2>1, <2>2, <2>3, <2>4 DEF TotalIsWhole
  <2> QED  BY <2>5, <2>6
<1>3. CASE InsertTask
  <2>1. /\ sched.run \in Runs /\ sched.run = created /\ sched.next \in Partitions
        /\ UNCHANGED <<runs, created>>
    BY <1>3 DEF InsertTask, SchedInv
  <2>2. /\ sched'.pc \in {"tasks", "total"} /\ sched'.run = sched.run
        /\ sched'.next = sched.next + 1
    BY <1>3 DEF InsertTask, SchedulerOK
  <2>3. /\ tasks'[<<sched.run, sched.next>>].state # "NONE"
        /\ \A t \in Tasks : t # <<sched.run, sched.next>> => tasks'[t] = tasks[t]
    BY <1>3, <2>1 DEF InsertTask, CreateTask, NoTask, Tasks
  <2>4. \A i \in Partitions : <<sched.run, i>> \in Tasks /\
            (i = sched.next \/ <<sched.run, i>> # <<sched.run, sched.next>>)
    BY <2>1 DEF Tasks
  <2>5. \A i \in Partitions : tasks'[<<sched.run, i>>].state = "NONE" <=> i >= sched.next + 1
    <3>1. \A i \in Partitions : i \in Nat  BY DEF Partitions
    <3> QED  BY <1>3, <2>1, <2>3, <2>4, <3>1 DEF FreshInv, InsertTask
  <2>6. \A r \in Runs : r > created => \A i \in Partitions : tasks'[<<r, i>>] = tasks[<<r, i>>]
    BY <2>1, <2>3 DEF Tasks, Runs
  <2>7. FreshInv'  BY <2>1, <2>2, <2>5, <2>6 DEF FreshInv
  <2>8. TotalIsWhole'  BY <1>3, <2>1, <2>3 DEF TotalIsWhole, Tasks
  <2> QED  BY <2>7, <2>8
<1>4. CASE Next /\ ~InsertRun /\ ~SetTotal /\ ~InsertTask
  <2>1. \A r \in Runs : created' = created /\ runs'[r].total = runs[r].total
    BY <1>4, TotalsStay
  <2>2. \A r \in Runs, i \in Partitions :
            tasks'[<<r, i>>].state = "NONE" <=> tasks[<<r, i>>].state = "NONE"
    BY <1>4, RowsStay DEF Tasks
  <2>3. sched'.pc \in {"tasks", "total", "progress"} =>
            /\ sched.pc \in {"tasks", "total", "progress"}
            /\ sched'.run = sched.run /\ sched'.next = sched.next
    <3>1. CASE \E j \in Jobs : Receive(j)
      BY <3>1 DEF Receive, Consuming
    <3>2. CASE MarkQueued \/ SetPending \/ HandlerError \/ SchedulerCrash
      <4>1. CASE MarkQueued
        <5>1. sched'.pc = "run"  BY <4>1 DEF MarkQueued, SchedulerOK
        <5> QED  BY <5>1
      <4>2. CASE SetPending \/ SchedulerCrash
        BY <4>2 DEF SetPending, SchedulerCrash, Consuming
      <4>3. CASE HandlerError
        <5>1. CASE sched.attempt < MaxAttempts
          BY <4>3, <5>1 DEF HandlerError, Consuming
        <5>2. CASE ~(sched.attempt < MaxAttempts)
          BY <4>3, <5>2 DEF HandlerError, Consuming
        <5> QED  BY <5>1, <5>2
      <4> QED  BY <3>2, <4>1, <4>2, <4>3
    <3>3. CASE UNCHANGED sched  BY <3>3
    <3>4. CASE \E w \in Workers :
                  WorkerStep(w) \/ WorkerError(w) \/ WorkerCrash(w) \/ Heartbeat(w)
      BY <3>3, <3>4, WorkerFrame
    <3>5. CASE \/ \E j \in Jobs : CancelMark(j) \/ CancelStep(j) \/ CancelError(j)
               \/ CleanupDeadTasks \/ \E t \in Tasks : Expire(t)
      BY <3>3, <3>5 DEF CancelMark, CancelStep, CancelList, CancelRun, CancelError, Expire,
          CleanupDeadTasks
    <3> QED  BY <1>4, <3>1, <3>2, <3>4, <3>5 DEF Next, SchedulerStep
  <2>4. FreshInv'  BY <2>1, <2>2, <2>3 DEF FreshInv, SchedInv
  <2>5. TotalIsWhole'  BY <2>1, <2>2 DEF TotalIsWhole
  <2> QED  BY <2>4, <2>5
<1>5. CASE UNCHANGED vars
  BY <1>5 DEF vars, FreshInv, TotalIsWhole
<1> QED  BY <1>1, <1>2, <1>3, <1>4, <1>5

\* Rows that wait are free: they are inserted so, or put back so.
LEMMA PendingStep ==
  ASSUME LeaseInv, [Next]_vars
  PROVE  PendingIsFree'
<1>. TypeInv /\ OwnerInv /\ FreshInv /\ PendingIsFree /\ tasks \in [Tasks -> TaskRow]
  BY DEF LeaseInv, TypeInv, TypeOK, TablesOK
<1> SUFFICES ASSUME NEW t \in Tasks, tasks'[t].state = "PENDING"
             PROVE  tasks'[t].owner = NoOne /\ tasks'[t].lease \in {"null", "expired"}
  BY DEF PendingIsFree, Leasable
<1>. DEFINE Free == tasks'[t].owner = NoOne /\ tasks'[t].lease \in {"null", "expired"}
<1>. tasks[t] \in TaskRow  OBVIOUS
<1>. USE DEF TaskRow
<1>1. CASE tasks'[t] = tasks[t]  BY <1>1 DEF PendingIsFree, Leasable
<1>2. CASE \/ SchedulerStep \/ HandlerError \/ SchedulerCrash
           \/ \E j \in Jobs : CancelMark(j) \/ CancelStep(j) \/ CancelError(j)
           \/ CleanupDeadTasks \/ \E u \in Tasks : Expire(u)
  <2>1. CASE tasks'[t] = CreateTask  BY <2>1 DEF CreateTask, NoTask
  <2>2. CASE tasks[t].lease = "live" /\ tasks'[t] = [tasks[t] EXCEPT !.lease = "expired"]
    BY <2>2 DEF PendingIsFree, Leasable
  <2> QED  BY <1>1, <1>2, <2>1, <2>2, OtherWrites
<1>3. ASSUME NEW w \in Workers,
             WorkerStep(w) \/ WorkerError(w) \/ WorkerCrash(w) \/ Heartbeat(w)
      PROVE  Free
  <2>1. CASE tasks'[t] = LeaseTask(tasks[t], w)  BY <2>1 DEF LeaseTask
  <2>2. CASE tasks'[t] \in {UpdateTaskState(tasks[t], "DEAD"), RetryTask(tasks[t]),
                            UpdateTaskState(tasks[t], "SUCCEEDED"),
                            FailTaskWithError(tasks[t])}
    BY <2>2 DEF UpdateTaskState, RetryTask, FailTaskWithError
  <2>3. CASE tasks[t].owner = w /\ tasks'[t] = [tasks[t] EXCEPT !.lease = "live"]
    BY <2>3, NoOneAssumption DEF PendingIsFree
  <2>4. WorkerStep(w) \/ WorkerError(w) \/ WorkerCrash(w) \/ Heartbeat(w)  BY <1>3
  <2> QED  BY <1>1, <2>1, <2>2, <2>3, <2>4, WorkerWrites
<1>4. CASE UNCHANGED vars  BY <1>1, <1>4 DEF vars
<1> QED  BY <1>2, <1>3, <1>4 DEF Next

\* The empty tables.
LEMMA LeaseStart == Init => LeaseInv
<1> SUFFICES ASSUME Init  PROVE LeaseInv  OBVIOUS
<1>1. TypeInv  BY TypeInit
<1>2. OwnerInv  BY DEF Init, OwnerInv, Holding, Leaving
<1>3. FreshInv /\ TotalIsWhole /\ PendingIsFree
  BY DEF Init, FreshInv, TotalIsWhole, PendingIsFree, Consuming, NoRun, NoTask, Tasks
<1> QED  BY <1>1, <1>2, <1>3 DEF LeaseInv

\* The four invariants of leasing hold together.
LEMMA LeaseKeeps == LeaseInv /\ [Next]_vars => LeaseInv'
BY TypeStep, OwnerStep, FreshStep, PendingStep DEF LeaseInv

\* The invariant the theorems below draw on.
THEOREM LeaseInvariant == Spec => []LeaseInv
BY LeaseStart, LeaseKeeps, PTL DEF Spec

\* No two workers are ever between LeaseTask and the settling statement of the
\* same task, for every number of workers, crashes, expired leases and faults.
THEOREM LeaseIsExclusive == Spec => []LeaseExclusive
<1>1. LeaseInv => LeaseExclusive  BY DEF LeaseInv, OwnerInv, LeaseExclusive
<1> QED  BY <1>1, LeaseInvariant, PTL

\* A PENDING row has no owner and no live lease: LeaseTask finds it.
THEOREM PendingStaysFree == Spec => []PendingIsFree
<1>1. LeaseInv => PendingIsFree  BY DEF LeaseInv
<1> QED  BY <1>1, LeaseInvariant, PTL

\* tasks_total, once it is not 0, is the number of rows of the run, all of
\* which are in the table.
THEOREM TotalsAreWhole == Spec => []TotalIsWhole
<1>1. LeaseInv => TotalIsWhole  BY DEF LeaseInv
<1> QED  BY <1>1, LeaseInvariant, PTL

\* No statement finds a settled row: claims look for PENDING, the rest is LEASED.
LEMMA SettledStays ==
  ASSUME LeaseInv, Next, NEW t \in Tasks, tasks[t].state \in TerminalTask
  PROVE  tasks'[t].state = tasks[t].state
<1>. TypeInv /\ OwnerInv /\ FreshInv /\ tasks[t] \in TaskRow
  BY DEF LeaseInv, TypeInv, TypeOK, TablesOK
<1>. USE DEF TaskRow, TerminalTask
<1>1. CASE \/ SchedulerStep \/ HandlerError \/ SchedulerCrash
           \/ \E j \in Jobs : CancelMark(j) \/ CancelStep(j) \/ CancelError(j)
           \/ CleanupDeadTasks \/ \E u \in Tasks : Expire(u)
  BY <1>1, OtherWrites
<1>2. ASSUME NEW w \in Workers,
             WorkerStep(w) \/ WorkerError(w) \/ WorkerCrash(w) \/ Heartbeat(w)
      PROVE  tasks'[t].state = tasks[t].state
  <2>1. ~Leasable(tasks[t])  BY DEF Leasable
  <2>2. ~(pc[w] \in Holding /\ t = Held(w))  BY DEF OwnerInv
  <2>3. tasks'[t] = tasks[t] \/ tasks'[t] = [tasks[t] EXCEPT !.lease = "live"]
    BY <1>2, <2>1, <2>2, WorkerWrites
  <2> QED  BY <2>3
<1> QED  BY <1>1, <1>2 DEF Next

\* A settled task stays settled, although no UPDATE of tasks checks the state
\* it overwrites.
THEOREM TerminalTasksStable == Spec => TerminalTaskStable
<1>. DEFINE Stable == \A t \in Tasks : tasks[t].state \in TerminalTask =>
                        tasks'[t].state = tasks[t].state
<1>1. LeaseInv /\ [Next]_vars => [Stable]_vars  BY SettledStays
<1>2. Spec => [][Stable]_vars
  <2>. HIDE DEF Stable
  <2> QED  BY <1>1, LeaseInvariant, PTL DEF Spec
<1> QED  BY <1>2 DEF TerminalTaskStable

(***************************************************************************)
(* Refinement: RunExecution implements TaskLease.                          *)
(***************************************************************************)

\* The abstract status of a row depends on its state and on nothing else of it.
LEMMA StatusTable ==
  ASSUME NEW row \in TaskRow, NEW h \in BOOLEAN
  PROVE  /\ row.state = "NONE" => StatusOf(row, h) = "absent"
         /\ row.state = "PENDING" => StatusOf(row, h) = "waiting"
         /\ row.state = "LEASED" => StatusOf(row, h) = IF h THEN "held" ELSE "abandoned"
         /\ row.state \in TerminalTask => StatusOf(row, h) = "settled"
         /\ \A other \in TaskRow : other.state = row.state => StatusOf(other, h) = StatusOf(row, h)
BY DEF StatusOf, TaskRow, TaskStates, TerminalTask

\* A worker takes a task, keeps the one it has, or has none afterwards.
LEMMA WorkerMoves ==
  ASSUME TypeInv, NEW w \in Workers,
         WorkerStep(w) \/ WorkerError(w) \/ WorkerCrash(w) \/ Heartbeat(w)
  PROVE  /\ \A v \in Workers \ {w} : pc'[v] = pc[v] /\ work'[v] = work[v]
         /\ \/ Claim(w) /\ pc[w] \notin Holding
            \/ ~Claim(w) /\ pc[w] \in Holding /\ pc'[w] \in Holding /\ work'[w].task = Held(w)
            \/ ~Claim(w) /\ pc'[w] \notin Holding
<1>. WorkersOK  BY DEF TypeInv, TypeOK
<1>1. \A v \in Workers \ {w} : pc'[v] = pc[v] /\ work'[v] = work[v]
  BY DEF WorkerStep, Claim, CheckCancelled, Kill, Start, Load, Exec, Register, Succeed,
    Credit, Assess, CloseRun, CloseJob, Announce, Decide, Retry, Fail, CountFail,
    WorkerError, WorkerCrash, Heartbeat, WorkersOK
<1>. USE DEF Holding, Leaving
<1>2. CASE Claim(w)  BY <1>1, <1>2 DEF Claim
<1>3. CASE ~Claim(w) /\ (\/ CheckCancelled(w) \/ Start(w) \/ Exec(w) \/ Register(w) \/ Decide(w))
  BY <1>1, <1>3 DEF CheckCancelled, Start, Exec, Register, Decide, WorkersOK
<1>4. CASE ~Claim(w) /\ Load(w)
  BY <1>1, <1>4 DEF Load, WorkersOK, Work
<1>5. CASE ~Claim(w) /\ (Kill(w) \/ Succeed(w) \/ Retry(w) \/ Fail(w) \/ WorkerCrash(w))
  BY <1>1, <1>5 DEF Kill, Succeed, Retry, Fail, WorkerCrash, WorkersOK
<1>6. CASE ~Claim(w) /\ (\/ Credit(w) \/ Assess(w) \/ CloseRun(w) \/ CloseJob(w) \/ Announce(w)
                         \/ CountFail(w))
  BY <1>1, <1>6 DEF Credit, Assess, CloseRun, CloseJob, Announce, CountFail, WorkersOK
<1>7. CASE ~Claim(w) /\ WorkerError(w)
  BY <1>1, <1>7 DEF WorkerError, GoesOn, WorkersOK
<1>8. CASE ~Claim(w) /\ Heartbeat(w)
  BY <1>1, <1>8 DEF Heartbeat
<1> QED  BY <1>2, <1>3, <1>4, <1>5, <1>6, <1>7, <1>8 DEF WorkerStep

\* Two workers that hold the same task are one.
LEMMA OneOwner ==
  ASSUME OwnerInv, NEW v \in Workers, NEW w \in Workers,
         pc[v] \in Holding, pc[w] \in Holding, Held(v) = Held(w)
  PROVE  v = w
BY DEF OwnerInv

\* Inserting a task adds it; otherwise the scheduler, CancelJob and the clock
\* are invisible to the lease.
LEMMA OthersRefine ==
  ASSUME LeaseInv, LeaseInv',
         \/ SchedulerStep \/ HandlerError \/ SchedulerCrash
         \/ \E j \in Jobs : CancelMark(j) \/ CancelStep(j) \/ CancelError(j)
         \/ CleanupDeadTasks \/ \E u \in Tasks : Expire(u)
  PROVE  [Lease!LeaseNext]_(Lease!leaseVars)
<1>. /\ TypeInv /\ FreshInv /\ SchedInv /\ tasks \in [Tasks -> TaskRow]
     /\ tasks' \in [Tasks -> TaskRow] /\ WorkersOK
  BY DEF LeaseInv, TypeInv, TypeOK, TablesOK
<1>1. UNCHANGED workVars
  BY DEF SchedulerStep, Receive, MarkQueued, InsertRun, InsertTask, SetTotal, SetPending,
    HandlerError, SchedulerCrash, CancelMark, CancelStep, CancelList, CancelRun, CancelError,
    Expire, CleanupDeadTasks
<1>2. Holds' = Holds /\ \A t \in Tasks : BeingHeld(t)' = BeingHeld(t) /\ BeingHeld(t) \in BOOLEAN
  BY <1>1 DEF Holds, BeingHeld
<1>3. CASE InsertTask
  <2>. DEFINE t0 == <<sched.run, sched.next>>
  <2>1. t0 \in Tasks  BY <1>3 DEF InsertTask, SchedInv, Tasks
  <2>2. tasks[t0].state = "NONE" /\ tasks'[t0].state = "PENDING"
    <3>1. sched.next \in Partitions  BY <1>3 DEF InsertTask, SchedInv
    <3>2. tasks[t0].state = "NONE"
      BY <1>3, <3>1, ConstantsAssumption DEF InsertTask, FreshInv, Partitions
    <3>3. tasks'[t0] = CreateTask  BY <1>3, <2>1 DEF InsertTask
    <3> QED  BY <3>2, <3>3 DEF CreateTask, NoTask
  <2>3. \A t \in Tasks : t # t0 => tasks'[t] = tasks[t]  BY <1>3 DEF InsertTask
  <2>4. TaskStatus[t0] = "absent"  BY <1>2, <2>1, <2>2, StatusTable DEF TaskStatus
  <2>5. TaskStatus' = [TaskStatus EXCEPT ![t0] = "waiting"]
    <3>1. TaskStatus'[t0] = "waiting"  BY <1>2, <2>1, <2>2, StatusTable DEF TaskStatus
    <3>2. \A t \in Tasks : t # t0 => TaskStatus'[t] = TaskStatus[t]
      BY <1>2, <2>3 DEF TaskStatus
    <3> QED  BY <2>1, <3>1, <3>2 DEF TaskStatus
  <2>6. Lease!Add(t0)  BY <1>2, <2>4, <2>5 DEF Lease!Add, Lease!Become
  <2> QED  BY <2>1, <2>6 DEF Lease!LeaseNext
<1>4. CASE ~InsertTask
  <2>1. \A t \in Tasks : tasks'[t].state = tasks[t].state
    <3>1. TAKE t \in Tasks
    <3>2. tasks'[t] = tasks[t] \/ tasks'[t] = [tasks[t] EXCEPT !.lease = "expired"]
      BY <1>4, OtherWrites
    <3>3. tasks[t] \in TaskRow  OBVIOUS
    <3> QED  BY <3>2, <3>3 DEF TaskRow
  <2>2. \A t \in Tasks : TaskStatus'[t] = TaskStatus[t]
    BY <1>2, <2>1, StatusTable DEF TaskStatus
  <2>3. TaskStatus' = TaskStatus  BY <2>2 DEF TaskStatus
  <2> QED  BY <1>2, <2>3 DEF Lease!leaseVars
<1> QED  BY <1>3, <1>4

\* A worker takes the task it claims, lets go of the one it settles, puts back
\* or abandons, and is invisible otherwise.
LEMMA WorkersRefine ==
  ASSUME LeaseInv, LeaseInv', NEW w \in Workers,
         WorkerStep(w) \/ WorkerError(w) \/ WorkerCrash(w) \/ Heartbeat(w)
  PROVE  [Lease!LeaseNext]_(Lease!leaseVars)
<1>. /\ TypeInv /\ OwnerInv /\ OwnerInv' /\ tasks \in [Tasks -> TaskRow]
     /\ tasks' \in [Tasks -> TaskRow] /\ WorkersOK /\ WorkersOK'
  BY DEF LeaseInv, TypeInv, TypeOK, TablesOK
<1>0. \A v \in Workers \ {w} : pc'[v] = pc[v] /\ work'[v] = work[v]  BY WorkerMoves
<1>b. \A t \in Tasks : BeingHeld(t) \in BOOLEAN /\ BeingHeld(t)' \in BOOLEAN  BY DEF BeingHeld
<1>1. CASE Claim(w)
  <2>1. PICK t \in Tasks : Claim(w)!2!(t)  BY <1>1 DEF Claim
  <2>2. /\ pc[w] \notin Holding /\ pc'[w] \in Holding /\ work'[w].task = t
        /\ tasks[t].state = "PENDING" /\ tasks'[t].state = "LEASED"
        /\ \A u \in Tasks : u # t => tasks'[u] = tasks[u]
    BY <1>1, <2>1 DEF Claim, Holding, WorkersOK, NoWork, Leasable, LeaseTask, TaskRow
  <2>3. TaskStatus[t] = "waiting"  BY <1>b, <2>2, StatusTable DEF TaskStatus
  <2>4. BeingHeld(t)'  BY <2>2 DEF BeingHeld
  <2>5. \A u \in Tasks : u # t => (BeingHeld(u)' <=> BeingHeld(u))
    BY <1>0, <2>2 DEF BeingHeld
  <2>6. TaskStatus' = [TaskStatus EXCEPT ![t] = "held"]
    <3>1. TaskStatus'[t] = "held"  BY <1>b, <2>2, <2>4, StatusTable DEF TaskStatus
    <3>2. \A u \in Tasks : u # t => TaskStatus'[u] = TaskStatus[u]
      BY <1>b, <2>2, <2>5, StatusTable DEF TaskStatus
    <3> QED  BY <3>1, <3>2 DEF TaskStatus
  <2>7. Holds[w] = NoOne /\ Holds' = [Holds EXCEPT ![w] = t]
    BY <1>0, <2>2 DEF Holds
  <2>8. Lease!Take(w, t)  BY <2>3, <2>6, <2>7 DEF Lease!Take, Lease!Become
  <2> QED  BY <2>8 DEF Lease!LeaseNext
<1>2. CASE /\ ~Claim(w) /\ (pc[w] \in Holding <=> pc'[w] \in Holding)
           /\ (pc[w] \in Holding => work'[w].task = Held(w))
  <2>1. \A v \in Workers : (pc'[v] \in Holding <=> pc[v] \in Holding)
                         /\ (pc[v] \in Holding => work'[v].task = Held(v))
    BY <1>0, <1>2
  <2>2. Holds' = Holds /\ \A t \in Tasks : BeingHeld(t)' <=> BeingHeld(t)
    BY <2>1 DEF Holds, BeingHeld
  <2>3. \A t \in Tasks : tasks'[t].state = tasks[t].state
    <3>1. TAKE t \in Tasks
    <3>2. tasks'[t] = tasks[t] \/ tasks'[t] = [tasks[t] EXCEPT !.lease = "live"]
      BY <1>2, WorkerWrites
    <3>3. tasks[t] \in TaskRow  OBVIOUS
    <3> QED  BY <3>2, <3>3 DEF TaskRow
  <2>4. \A t \in Tasks : TaskStatus'[t] = TaskStatus[t]
    BY <1>b, <2>2, <2>3, StatusTable DEF TaskStatus
  <2>5. TaskStatus' = TaskStatus  BY <2>4 DEF TaskStatus
  <2> QED  BY <2>2, <2>5 DEF Lease!leaseVars
<1>3. CASE ~Claim(w) /\ pc[w] \in Holding /\ pc'[w] \notin Holding
  <2>0. PICK t \in Tasks : t = Held(w)  BY <1>3 DEF WorkersOK
  <2>1. t \in Tasks /\ tasks[t].state = "LEASED"  BY <1>3, <2>0 DEF OwnerInv
  <2>2. /\ ~BeingHeld(t)'
        /\ \A u \in Tasks : u # t => (BeingHeld(u)' <=> BeingHeld(u))
    <3>1. ASSUME NEW v \in Workers, pc'[v] \in Holding, work'[v].task = t  PROVE FALSE
      <4>1. v # w  BY <1>3, <3>1
      <4>2. pc[v] \in Holding /\ Held(v) = t  BY <1>0, <3>1, <4>1
      <4> QED  BY <1>3, <2>0, <4>1, <4>2, OneOwner
    <3>2. ~BeingHeld(t)'  BY <3>1 DEF BeingHeld
    <3>3. ASSUME NEW u \in Tasks, u # t  PROVE BeingHeld(u)' <=> BeingHeld(u)
      BY <1>0, <1>3, <2>0, <3>3 DEF BeingHeld
    <3> QED  BY <3>2, <3>3
  <2>3. \A u \in Tasks : u # t => tasks'[u].state = tasks[u].state
    <3>1. TAKE u \in Tasks
    <3>2. HAVE u # t
    <3>3. tasks'[u] = tasks[u] \/ tasks'[u] = [tasks[u] EXCEPT !.lease = "live"]
      BY <1>3, <2>0, <3>2, WorkerWrites
    <3>4. tasks[u] \in TaskRow  OBVIOUS
    <3> QED  BY <3>3, <3>4 DEF TaskRow
  <2>4. tasks'[t].state \in {"PENDING", "LEASED"} \cup TerminalTask
    <3>1. \/ tasks'[t] = tasks[t] \/ tasks'[t] = [tasks[t] EXCEPT !.lease = "live"]
          \/ tasks'[t] \in {UpdateTaskState(tasks[t], "DEAD"), RetryTask(tasks[t]),
                            UpdateTaskState(tasks[t], "SUCCEEDED"), FailTaskWithError(tasks[t])}
      BY <1>3, <2>0, <2>1, WorkerWrites
    <3>2. tasks[t] \in TaskRow  BY <2>1
    <3> QED
      BY <2>1, <3>1, <3>2
      DEF TaskRow, TerminalTask, UpdateTaskState, RetryTask, FailTaskWithError
  <2>5. PICK s \in {"waiting", "settled", "abandoned"} : TaskStatus'[t] = s
    <3>1. tasks'[t] \in TaskRow  BY <2>1
    <3>2. TaskStatus'[t] = StatusOf(tasks'[t], BeingHeld(t)')  BY <2>1 DEF TaskStatus
    <3>3. BeingHeld(t)' \in BOOLEAN /\ ~BeingHeld(t)'  BY <1>b, <2>1, <2>2
    <3>4. CASE tasks'[t].state = "PENDING"  BY <3>1, <3>2, <3>3, <3>4, StatusTable
    <3>5. CASE tasks'[t].state = "LEASED"  BY <3>1, <3>2, <3>3, <3>5, StatusTable
    <3>6. CASE tasks'[t].state \in TerminalTask  BY <3>1, <3>2, <3>3, <3>6, StatusTable
    <3> QED  BY <2>4, <3>4, <3>5, <3>6
  <2>6. TaskStatus' = [TaskStatus EXCEPT ![t] = s]
    <3>1. \A u \in Tasks : u # t => TaskStatus'[u] = TaskStatus[u]
      BY <1>b, <2>2, <2>3, StatusTable DEF TaskStatus
    <3> QED  BY <2>1, <2>5, <3>1 DEF TaskStatus
  <2>7. Holds[w] = t /\ Holds' = [Holds EXCEPT ![w] = NoOne]
    BY <1>0, <1>3, <2>0 DEF Holds
  <2>8. Lease!LetGo(w, t)  BY <2>6, <2>7 DEF Lease!LetGo, Lease!Become
  <2> QED  BY <2>1, <2>8 DEF Lease!LeaseNext
<1>4. \/ Claim(w)
      \/ ~Claim(w) /\ pc[w] \in Holding /\ pc'[w] \in Holding /\ work'[w].task = Held(w)
      \/ ~Claim(w) /\ pc'[w] \notin Holding
  BY WorkerMoves
<1> QED  BY <1>1, <1>2, <1>3, <1>4

\* The scheduler, the workers and CancelJob, with crashes, expired leases and
\* failed statements, implement the abstract lease.
THEOREM LeaseRefinement == Spec => ImplementsTaskLease
<1>1. Init => Lease!LeaseInit
  <2> SUFFICES ASSUME Init  PROVE Lease!LeaseInit  OBVIOUS
  <2>1. \A t \in Tasks : tasks[t] \in TaskRow /\ tasks[t].state = "NONE"
    BY NewRows DEF Init, NoTask
  <2>2. \A t \in Tasks : TaskStatus[t] = "absent"
    <3>1. \A t \in Tasks : BeingHeld(t) \in BOOLEAN  BY DEF BeingHeld
    <3> QED  BY <2>1, <3>1, StatusTable DEF TaskStatus
  <2>3. TaskStatus = [t \in Tasks |-> "absent"]  BY <2>2 DEF TaskStatus
  <2>4. Holds = [w \in Workers |-> NoOne]  BY DEF Init, Holds, Holding
  <2> QED  BY <2>3, <2>4 DEF Lease!LeaseInit
<1>2. LeaseInv /\ LeaseInv' /\ [Next]_vars => [Lease!LeaseNext]_(Lease!leaseVars)
  <2>1. CASE UNCHANGED vars
    BY <2>1 DEF vars, Lease!leaseVars, TaskStatus, Holds, BeingHeld
  <2> QED  BY <2>1, OthersRefine, WorkersRefine DEF Next
<1>3. Spec => Lease!LeaseInit /\ [][Lease!LeaseNext]_(Lease!leaseVars)
  BY <1>1, <1>2, LeaseInvariant, PTL DEF Spec
<1> QED  BY <1>3 DEF ImplementsTaskLease, Lease!LeaseSpec

(***************************************************************************)
(* Retries.  The bound is tested on the retry_count the worker read when   *)
(* it leased the task; it holds because nobody else changes the row in the *)
(* meantime.                                                               *)
(***************************************************************************)
RetryInv ==
    /\ RetriesBounded
    /\ \A w \in Workers : pc[w] \in Holding =>
          /\ work[w].retries = tasks[Held(w)].retries
          /\ pc[w] = "retry" => work[w].retries < MaxRetries

\* retry_count changes by RetryTask only, and a row starts with 0.
LEMMA RetryWrites ==
  ASSUME LeaseInv, NEW w \in Workers, NEW t \in Tasks,
         WorkerStep(w) \/ WorkerError(w) \/ WorkerCrash(w) \/ Heartbeat(w)
  PROVE  \/ tasks'[t].retries = tasks[t].retries
         \/ /\ At(w, "retry") /\ t = Held(w) /\ pc'[w] \notin Holding
            /\ tasks'[t].retries = tasks[t].retries + 1
<1>. TypeInv /\ OwnerInv /\ tasks[t] \in TaskRow /\ WorkersOK
     /\ tasks \in [Tasks -> TaskRow]
  BY DEF LeaseInv, TypeInv, TypeOK, TablesOK
<1>1. CASE Retry(w)
  <2>1. At(w, "retry") /\ Held(w) \in Tasks /\ pc'[w] = "polling"
    BY <1>1 DEF Retry, WorkersOK, Holding
  <2>2. CASE t = Held(w)
    <3>1. tasks'[t] = RetryTask(tasks[t])  BY <1>1, <2>1, <2>2 DEF Retry
    <3> QED  BY <2>1, <2>2, <3>1 DEF RetryTask, Holding
  <2>3. CASE t # Held(w)  BY <1>1, <2>3 DEF Retry
  <2> QED  BY <2>2, <2>3
<1>2. CASE Kill(w) \/ Succeed(w) \/ Fail(w)
  <2>1. \/ tasks'[t] = tasks[t] \/ tasks'[t] = UpdateTaskState(tasks[t], "DEAD")
        \/ tasks'[t] = UpdateTaskState(tasks[t], "SUCCEEDED")
        \/ tasks'[t] = FailTaskWithError(tasks[t])
    BY <1>2 DEF Kill, Succeed, Fail
  <2> QED  BY <2>1 DEF UpdateTaskState, FailTaskWithError, TaskRow
<1>3. CASE Claim(w)
  <2>1. tasks'[t] = tasks[t] \/ tasks'[t] = LeaseTask(tasks[t], w)  BY <1>3 DEF Claim
  <2> QED  BY <2>1 DEF LeaseTask, TaskRow
<1>4. CASE Heartbeat(w)
  <2>1. tasks'[t] = tasks[t] \/ tasks'[t] = HeartbeatTask(tasks[t], w)  BY <1>4 DEF Heartbeat
  <2> QED  BY <2>1 DEF HeartbeatTask, TaskRow
<1>5. CASE WorkerError(w)
  <2>1. tasks'[t] = tasks[t] \/ tasks'[t] = UpdateTaskState(tasks[t], "SUCCEEDED")
    BY <1>5 DEF WorkerError
  <2> QED  BY <2>1 DEF UpdateTaskState, TaskRow
<1>6. CASE \/ CheckCancelled(w) \/ Start(w) \/ Load(w) \/ Exec(w) \/ Register(w) \/ Credit(w)
           \/ Assess(w) \/ CloseRun(w) \/ CloseJob(w) \/ Announce(w) \/ Decide(w) \/ CountFail(w)
           \/ WorkerCrash(w)
  BY <1>6 DEF CheckCancelled, Start, Load, Exec, Register, Credit, Assess, CloseRun, CloseJob,
              Announce, Decide, CountFail, WorkerCrash
<1> QED  BY <1>1, <1>2, <1>3, <1>4, <1>5, <1>6 DEF WorkerStep

\* What a worker remembers of the task it keeps, and how it comes to retry it.
LEMMA RetryMemory ==
  ASSUME TypeInv, NEW w \in Workers,
         WorkerStep(w) \/ WorkerError(w) \/ WorkerCrash(w) \/ Heartbeat(w),
         ~Claim(w), pc[w] \in Holding, pc'[w] \in Holding
  PROVE  /\ work'[w].retries = work[w].retries
         /\ pc'[w] = "retry" => pc[w] = "retry" \/ CanRetry(w)
<1>. WorkersOK  BY DEF TypeInv, TypeOK
<1>. USE DEF Holding, Leaving
<1>1. CASE CheckCancelled(w) \/ Start(w) \/ Exec(w) \/ Register(w)
  BY <1>1 DEF CheckCancelled, Start, Exec, Register, WorkersOK
<1>2. CASE Decide(w)  BY <1>2 DEF Decide, WorkersOK
<1>3. CASE Load(w)  BY <1>3 DEF Load, WorkersOK, Work
<1>4. CASE Kill(w) \/ Succeed(w) \/ Retry(w) \/ Fail(w) \/ WorkerCrash(w)
  BY <1>4 DEF Kill, Succeed, Retry, Fail, WorkerCrash, WorkersOK
<1>5. CASE \/ Credit(w) \/ Assess(w) \/ CloseRun(w) \/ CloseJob(w) \/ Announce(w) \/ CountFail(w)
  BY <1>5 DEF Credit, Assess, CloseRun, CloseJob, Announce, CountFail
<1>6. CASE WorkerError(w)  BY <1>6 DEF WorkerError, GoesOn, WorkersOK
<1>7. CASE Heartbeat(w)  BY <1>7 DEF Heartbeat
<1> QED  BY <1>1, <1>2, <1>3, <1>4, <1>5, <1>6, <1>7 DEF WorkerStep

\* One step keeps the bound, and the worker's copy of the count current.
LEMMA RetryStep ==
  ASSUME LeaseInv, LeaseInv', RetryInv, [Next]_vars
  PROVE  RetryInv'
<1>. /\ TypeInv /\ OwnerInv /\ FreshInv /\ tasks \in [Tasks -> TaskRow]
     /\ WorkersOK /\ WorkersOK' /\ MaxRetries \in Nat
  BY ConstantsAssumption DEF LeaseInv, TypeInv, TypeOK, TablesOK
<1>1. CASE \/ SchedulerStep \/ HandlerError \/ SchedulerCrash
           \/ \E j \in Jobs : CancelMark(j) \/ CancelStep(j) \/ CancelError(j)
           \/ CleanupDeadTasks \/ \E u \in Tasks : Expire(u)
  <2>1. UNCHANGED workVars
    BY <1>1 DEF SchedulerStep, Receive, MarkQueued, InsertRun, InsertTask, SetTotal, SetPending,
      HandlerError, SchedulerCrash, CancelMark, CancelStep, CancelList, CancelRun, CancelError,
      Expire, CleanupDeadTasks
  <2>2. ASSUME NEW t \in Tasks
        PROVE  \/ tasks'[t].retries = tasks[t].retries
               \/ tasks[t].state = "NONE" /\ tasks'[t].retries = 0
    <3>1. tasks[t] \in TaskRow  OBVIOUS
    <3>2. \/ tasks'[t] = tasks[t]
          \/ tasks[t].state = "NONE" /\ tasks'[t] = CreateTask
          \/ tasks'[t] = [tasks[t] EXCEPT !.lease = "expired"]
      BY <1>1, OtherWrites
    <3> QED  BY <3>1, <3>2 DEF TaskRow, CreateTask, NoTask
  <2>3. RetriesBounded'  BY <2>2 DEF RetryInv, RetriesBounded
  <2>4. \A w \in Workers : pc[w] \in Holding =>
            Held(w) \in Tasks /\ tasks'[Held(w)].retries = tasks[Held(w)].retries
    BY <2>2 DEF WorkersOK, OwnerInv
  <2> QED  BY <2>1, <2>3, <2>4 DEF RetryInv
<1>2. ASSUME NEW w \in Workers,
             WorkerStep(w) \/ WorkerError(w) \/ WorkerCrash(w) \/ Heartbeat(w)
      PROVE  RetryInv'
  <2>0. \A v \in Workers \ {w} : pc'[v] = pc[v] /\ work'[v] = work[v]  BY <1>2, WorkerMoves
  <2>1. RetriesBounded'
    <3> SUFFICES ASSUME NEW t \in Tasks  PROVE tasks'[t].retries <= MaxRetries
      BY DEF RetriesBounded
    <3>1. CASE tasks'[t].retries = tasks[t].retries  BY <3>1 DEF RetryInv, RetriesBounded
    <3>2. CASE At(w, "retry") /\ t = Held(w) /\ tasks'[t].retries = tasks[t].retries + 1
      <4>1. tasks[t].retries \in Nat  BY DEF TaskRow
      <4>2. tasks[t].retries < MaxRetries  BY <3>2 DEF RetryInv, Holding
      <4> QED  BY <3>2, <4>1, <4>2
    <3> QED  BY <1>2, <3>1, <3>2, RetryWrites
  <2>2. ASSUME NEW v \in Workers \ {w}, pc'[v] \in Holding
        PROVE  /\ work'[v].retries = tasks'[work'[v].task].retries
               /\ pc'[v] = "retry" => work'[v].retries < MaxRetries
    <3>1. /\ pc[v] \in Holding /\ Held(v) \in Tasks /\ work'[v] = work[v] /\ pc'[v] = pc[v]
      BY <2>0, <2>2 DEF WorkersOK
    <3>2. ~(pc[w] \in Holding /\ Held(v) = Held(w))  BY <3>1, OneOwner
    <3>3. tasks'[Held(v)].retries = tasks[Held(v)].retries
      BY <1>2, <3>1, <3>2, RetryWrites DEF Holding
    <3> QED  BY <3>1, <3>3 DEF RetryInv
  <2>3. ASSUME pc'[w] \in Holding
        PROVE  /\ work'[w].retries = tasks'[work'[w].task].retries
               /\ pc'[w] = "retry" => work'[w].retries < MaxRetries
    <3>1. CASE Claim(w)
      <4>1. PICK t \in Tasks : Claim(w)!2!(t)  BY <3>1 DEF Claim
      <4>2. pc'[w] = "leased" /\ work'[w].task = t /\ work'[w].retries = tasks[t].retries
        BY <3>1, <4>1 DEF Claim, WorkersOK, NoWork
      <4>3. tasks'[t].retries = tasks[t].retries  BY <1>2, <2>3, RetryWrites
      <4> QED  BY <4>2, <4>3
    <3>2. CASE ~Claim(w)
      <4>1. pc[w] \in Holding /\ work'[w].task = Held(w) /\ Held(w) \in Tasks
        BY <1>2, <2>3, <3>2, WorkerMoves DEF WorkersOK
      <4>2. tasks'[Held(w)].retries = tasks[Held(w)].retries
        BY <1>2, <2>3, <4>1, RetryWrites
      <4>3. /\ work'[w].retries = work[w].retries
            /\ pc'[w] = "retry" => pc[w] = "retry" \/ CanRetry(w)
        BY <1>2, <2>3, <3>2, <4>1, RetryMemory
      <4> QED  BY <4>1, <4>2, <4>3 DEF RetryInv, CanRetry
    <3> QED  BY <3>1, <3>2
  <2> QED  BY <2>1, <2>2, <2>3 DEF RetryInv
<1>3. CASE UNCHANGED vars
  BY <1>3 DEF vars, RetryInv, RetriesBounded
<1> QED  BY <1>1, <1>2, <1>3 DEF Next

\* max_retries bounds how often any task is put back, although the bound is
\* tested on a value read long before the row is written.
THEOREM RetriesAreBounded == Spec => []RetriesBounded
<1>1. Init => RetryInv
  BY ConstantsAssumption DEF Init, RetryInv, RetriesBounded, NoTask, Holding
<1>2. LeaseInv /\ LeaseInv' /\ RetryInv /\ [Next]_vars => RetryInv'  BY RetryStep
<1>3. RetryInv => RetriesBounded  BY DEF RetryInv
<1> QED  BY <1>1, <1>2, <1>3, LeaseInvariant, PTL DEF Spec

(***************************************************************************)
(* Slicing.                                                                *)
(***************************************************************************)

\* A later slice does not begin earlier.
LEMMA MoreSlices ==
  ASSUME NEW i \in Nat, NEW j \in Nat, NEW size \in Nat, i <= j
  PROVE  i * size <= j * size
<1>1. PICK d \in Nat : j = i + d
  <2>1. j - i \in Nat /\ j = i + (j - i)
    OBVIOUS
  <2> QED BY <2>1
<1>2. j * size = i * size + d * size
  BY <1>1
<1>3. d * size \in Nat /\ i * size \in Nat
  BY <1>1
<1> QED BY <1>2, <1>3

\* Every row of a dataset, whatever its size, belongs to exactly one of the
\* slices download_partition cuts it into, provided that all are cut with the
\* same TOTAL_PARTITIONS.
THEOREM SlicesPartitionRows ==
  ASSUME NEW parts \in Nat \ {0}, NEW rows \in Nat, NEW row \in 0..(rows - 1)
  PROVE  \E i \in 0..(parts - 1) :
            /\ row \in Slice(i, parts, rows)
            /\ \A j \in 0..(parts - 1) : row \in Slice(j, parts, rows) => j = i
<1> DEFINE size == IF rows < parts THEN 1 ELSE rows \div parts
<1>1. size \in Nat \ {0}
  <2>1. CASE rows < parts
    BY <2>1
  <2>2. CASE rows >= parts
    <3>1. rows \div parts \in Nat
      OBVIOUS
    <3>2. rows \div parts >= 1
      BY <2>2, Z3
    <3> QED BY <2>2, <3>1, <3>2
  <2> QED BY <2>1, <2>2
<1>2. \A i \in 0..(parts - 1) :
        row \in Slice(i, parts, rows) <=>
          i * size <= row /\ (i < parts - 1 => row < (i + 1) * size)
  BY DEF Slice
<1> HIDE DEF size
<1>3. \A i, j \in 0..(parts - 1) :
        row \in Slice(i, parts, rows) /\ row \in Slice(j, parts, rows) => ~(i < j)
  <2> SUFFICES ASSUME NEW i \in 0..(parts - 1), NEW j \in 0..(parts - 1), i < j,
                      row \in Slice(i, parts, rows), row \in Slice(j, parts, rows)
               PROVE  FALSE
    OBVIOUS
  <2>1. row < (i + 1) * size /\ j * size <= row
    BY <1>2
  <2>2. (i + 1) * size <= j * size
    <3>1. i + 1 \in Nat /\ j \in Nat /\ i + 1 <= j
      OBVIOUS
    <3> HIDE DEF size
    <3> QED BY <1>1, <3>1, MoreSlices
  <2>3. (i + 1) * size \in Nat /\ j * size \in Nat
    BY <1>1
  <2> QED BY <2>1, <2>2, <2>3
<1>4. \E i \in 0..(parts - 1) : row \in Slice(i, parts, rows)
  <2>1. CASE (parts - 1) * size <= row
    <3>1. parts - 1 \in 0..(parts - 1)
      OBVIOUS
    <3> QED BY <1>2, <2>1, <3>1
  <2>2. CASE ~((parts - 1) * size <= row)
    <3> DEFINE k == row \div size
    <3>1. k \in Nat
      BY <1>1
    <3>2. k * size <= row /\ row < (k + 1) * size
      BY <1>1, Z3
    <3>3. k < parts - 1
      <4> SUFFICES ASSUME parts - 1 <= k PROVE FALSE
        BY <3>1
      <4>1. (parts - 1) * size <= k * size
        BY <1>1, <3>1, MoreSlices
      <4>2. k * size \in Nat /\ (parts - 1) * size \in Nat
        BY <1>1, <3>1
      <4> QED BY <2>2, <3>2, <4>1, <4>2
    <3>4. k \in 0..(parts - 1)
      BY <3>1, <3>3
    <3> QED BY <1>2, <3>2, <3>4
  <2> QED BY <2>1, <2>2
<1>5. PICK i \in 0..(parts - 1) : row \in Slice(i, parts, rows)
  BY <1>4
<1>6. \A j \in 0..(parts - 1) : row \in Slice(j, parts, rows) => j = i
  BY <1>3, <1>5
<1> QED BY <1>5, <1>6
=============================================================================
