------------------------- MODULE RunCountersProofs -------------------------
(***************************************************************************)
(* Theorems about what the counters of a run mean, and about the verdict   *)
(* and the outputs that are drawn from them, for every number of jobs,     *)
(* workers, partitions, retries, faults and crashes.                       *)
(***************************************************************************)
EXTENDS RunExecutionProofs

USE DEF dbVars, schedVars, workVars, storeVars, envVars, At, Goto, Held, Return,
        WriteTask, WriteRun, RunOf, SchedAt, SchedGoto, CancelAt

(***************************************************************************)
(* Counting.  CountersSound is not inductive: it does not tell a task that *)
(* was counted from one that is about to be.  A task is through when its   *)
(* row is settled, or LEASED for good, and no worker is still on its way   *)
(* to count it; the counters are bounded by what is through, and nothing   *)
(* that is through ever comes back.                                        *)
(***************************************************************************)
Uncounted == Holding \cup {"credit", "countFail"}

Through(t) ==
    /\ tasks[t].state \in TerminalTask \cup {"LEASED"}
    /\ \A w \in Workers : pc[w] \in Uncounted => Held(w) # t

Settled(r) == {t \in Tasks : RunOf(t) = r /\ Through(t)}
Won(r)     == {t \in Settled(r) : tasks[t].state = "SUCCEEDED"}

CountInv ==
    \A r \in Runs : /\ runs[r].done <= Cardinality(Won(r))
                    /\ runs[r].done + runs[r].failed <= Cardinality(Settled(r))

\* What a worker that closes a run on a known total can rely on.
ClosedInv ==
    \A w \in Workers : pc[w] \in {"closeRun", "closeJob"} /\ work[w].total > 0 =>
        \A i \in Partitions :
            LET t == <<RunOf(Held(w)), i>>
            IN  /\ t \in Settled(RunOf(Held(w)))
                /\ work[w].verdict = "SUCCEEDED" => t \in Won(RunOf(Held(w)))

\* The tasks of a run are inserted in order, whoever stops inserting them.
PrefixInv ==
    \A r \in Runs, i, j \in Partitions :
        i < j /\ tasks[<<r, j>>].state # "NONE" => tasks[<<r, i>>].state # "NONE"

\* Only rows that are done with are deleted.
PurgedInv == \A t \in purged : tasks[t].state \in {"DEAD", "FAILED"}

RangeInv == PrefixInv /\ PurgedInv /\ PartitionInRange

\* Registering comes once, after the output and before the success.
Unregistered == {"leased", "start", "load", "exec", "register", "failed", "retry", "fail"}

StoreInv ==
    /\ \A t \in Tasks :
          /\ tasks[t].state \in {"NONE", "PENDING"} => artifacts[t] = 0
          /\ tasks[t].state = "SUCCEEDED" => artifacts[t] = 1 /\ outputs[t] > 0
    /\ \A w \in Workers :
          /\ pc[w] \in Unregistered => artifacts[Held(w)] = 0
          /\ pc[w] \in {"recheck", "succeed"} => artifacts[Held(w)] = 1
          /\ pc[w] \in {"register", "recheck", "succeed"} => outputs[Held(w)] > 0

\* A run is never closed on a total that is still 0.
CloseInv ==
    /\ \A w \in Workers :
          /\ pc[w] = "assess" => runs[RunOf(Held(w))].done > 0
          /\ pc[w] \in {"closeRun", "closeJob"} => work[w].total > 0
    /\ \A r \in Runs : runs[r].state = "SUCCEEDED" =>
          \A i \in Partitions : <<r, i>> \in Won(r)

FaultFreeInv == faults = 0 => StoreInv /\ CloseInv

\* What the lemmas below need of the types.
LEMMA LeaseTypes ==
  ASSUME LeaseInv
  PROVE  /\ TypeInv /\ OwnerInv /\ FreshInv /\ TotalIsWhole /\ TypeOK /\ SchedInv
         /\ tasks \in [Tasks -> TaskRow] /\ runs \in [Runs -> RunRow(Jobs \cup {NoOne})]
         /\ created \in 0..MaxRuns /\ WorkersOK /\ StorageOK /\ SchedulerOK
BY DEF LeaseInv, TypeInv, TypeOK, TablesOK

\* The scheduler, CancelJob and the clock leave the workers and storage alone.
LEMMA OthersFrame ==
  ASSUME \/ SchedulerStep \/ HandlerError \/ SchedulerCrash
         \/ \E j \in Jobs : CancelMark(j) \/ CancelStep(j) \/ CancelError(j)
         \/ CleanupDeadTasks \/ \E u \in Tasks : Expire(u)
  PROVE  UNCHANGED <<workVars, storeVars>>
BY DEF SchedulerStep, Receive, MarkQueued, InsertRun, InsertTask, SetTotal, SetPending,
       HandlerError, SchedulerCrash, CancelMark, CancelStep, CancelList, CancelRun, CancelError,
       Expire, CleanupDeadTasks

\* A worker has a task it has not counted yet because it had it before, or
\* because it has just claimed it.
LEMMA UncountedMoves ==
  ASSUME TypeInv, NEW w \in Workers,
         WorkerStep(w) \/ WorkerError(w) \/ WorkerCrash(w) \/ Heartbeat(w),
         pc'[w] \in Uncounted
  PROVE  \/ Claim(w)
         \/ pc[w] \in Uncounted /\ work'[w].task = Held(w)
<1>. WorkersOK  BY DEF TypeInv, TypeOK
<1>. USE DEF Uncounted, Holding, Leaving
<1>1. CASE \/ CheckCancelled(w) \/ Start(w) \/ Exec(w) \/ Register(w) \/ Succeed(w)
           \/ Decide(w) \/ Fail(w)
  BY <1>1 DEF CheckCancelled, Start, Exec, Register, Succeed, Decide, Fail
<1>2. CASE Load(w)  BY <1>2 DEF Load, WorkersOK, Work
<1>3. CASE \/ Kill(w) \/ Retry(w) \/ CountFail(w) \/ Announce(w) \/ WorkerCrash(w)
           \/ Credit(w) \/ CloseRun(w) \/ CloseJob(w)
  BY <1>3 DEF Kill, Retry, CountFail, Announce, WorkerCrash, Credit, CloseRun, CloseJob, WorkersOK
<1>4. CASE Assess(w)  BY <1>4 DEF Assess, WorkersOK
<1>5. CASE WorkerError(w)  BY <1>5 DEF WorkerError, GoesOn, WorkersOK
<1>6. CASE Heartbeat(w)  BY <1>6 DEF Heartbeat
<1> QED  BY <1>1, <1>2, <1>3, <1>4, <1>5, <1>6 DEF WorkerStep

\* The state of a row that is LEASED or settled changes only by the statement
\* of the worker that holds it.
LEMMA StateStays ==
  ASSUME LeaseInv, Next, NEW t \in Tasks,
         tasks[t].state \in TerminalTask \cup {"LEASED"},
         \A w \in Workers : pc[w] \in Holding => Held(w) # t
  PROVE  tasks'[t].state = tasks[t].state
<1>. TypeInv /\ OwnerInv /\ FreshInv /\ tasks[t] \in TaskRow  BY LeaseTypes
<1>. USE DEF TaskRow, TerminalTask
<1>1. CASE \/ SchedulerStep \/ HandlerError \/ SchedulerCrash
           \/ \E j \in Jobs : CancelMark(j) \/ CancelStep(j) \/ CancelError(j)
           \/ CleanupDeadTasks \/ \E u \in Tasks : Expire(u)
  BY <1>1, OtherWrites
<1>2. ASSUME NEW w \in Workers,
             WorkerStep(w) \/ WorkerError(w) \/ WorkerCrash(w) \/ Heartbeat(w)
      PROVE  tasks'[t].state = tasks[t].state
  <2>1. ~Leasable(tasks[t])  BY DEF Leasable
  <2>2. tasks'[t] = tasks[t] \/ tasks'[t] = [tasks[t] EXCEPT !.lease = "live"]
    BY <1>2, <2>1, WorkerWrites
  <2> QED  BY <2>2
<1> QED  BY <1>1, <1>2 DEF Next

\* What is through stays through, in the state it is in.
LEMMA ThroughStays ==
  ASSUME LeaseInv, [Next]_vars, NEW t \in Tasks, Through(t)
  PROVE  Through(t)' /\ tasks'[t].state = tasks[t].state
<1>1. CASE UNCHANGED vars  BY <1>1 DEF vars, Through
<1>2. CASE Next
  <2>1. tasks'[t].state = tasks[t].state
    BY <1>2, StateStays DEF Through, Uncounted
  <2>2. ASSUME NEW v \in Workers, pc'[v] \in Uncounted  PROVE work'[v].task # t
    <3>1. CASE UNCHANGED workVars  BY <2>2, <3>1 DEF Through
    <3>2. ASSUME NEW w \in Workers,
                 WorkerStep(w) \/ WorkerError(w) \/ WorkerCrash(w) \/ Heartbeat(w)
          PROVE  work'[v].task # t
      <4>1. CASE v # w  BY <2>2, <3>2, <4>1, WorkerMoves, LeaseTypes DEF Through
      <4>2. CASE v = w /\ ~Claim(w)
        BY <2>2, <3>2, <4>2, UncountedMoves, LeaseTypes DEF Through
      <4>3. CASE v = w /\ Claim(w)
        <5>1. PICK u \in Tasks : Claim(w)!2!(u)  BY <4>3 DEF Claim
        <5>2. work'[w].task = u  BY <5>1, LeaseTypes DEF WorkersOK, NoWork
        <5>3. u # t  BY <5>1 DEF Leasable, Through, TerminalTask
        <5> QED  BY <4>3, <5>2, <5>3
      <4> QED  BY <4>1, <4>2, <4>3
    <3>3. CASE \/ SchedulerStep \/ HandlerError \/ SchedulerCrash
               \/ \E j \in Jobs : CancelMark(j) \/ CancelStep(j) \/ CancelError(j)
               \/ CleanupDeadTasks \/ \E u \in Tasks : Expire(u)
      BY <3>1, <3>3, OthersFrame
    <3> QED  BY <1>2, <3>2, <3>3 DEF Next
  <2> QED  BY <2>1, <2>2 DEF Through
<1> QED  BY <1>1, <1>2

\* The two sets of a run are finite and only grow.
LEMMA SettledGrows ==
  ASSUME LeaseInv, [Next]_vars, NEW r
  PROVE  /\ Settled(r) \subseteq Settled(r)' /\ Won(r) \subseteq Won(r)'
         /\ IsFiniteSet(Settled(r)) /\ IsFiniteSet(Won(r))
         /\ IsFiniteSet(Settled(r)') /\ IsFiniteSet(Won(r)')
         /\ Cardinality(Settled(r)) \in Nat /\ Cardinality(Won(r)) \in Nat
         /\ Cardinality(Settled(r)') \in Nat /\ Cardinality(Won(r)') \in Nat
         /\ Cardinality(Settled(r)) <= Cardinality(Settled(r)')
         /\ Cardinality(Won(r)) <= Cardinality(Won(r)')
<1>1. /\ Settled(r) \in SUBSET Tasks /\ Settled(r)' \in SUBSET Tasks
      /\ Won(r) \in SUBSET Tasks /\ Won(r)' \in SUBSET Tasks
  BY DEF Settled, Won
<1>2. Settled(r) \subseteq Settled(r)' /\ Won(r) \subseteq Won(r)'
  BY ThroughStays DEF Settled, Won
<1>3. /\ IsFiniteSet(Settled(r)) /\ IsFiniteSet(Won(r))
      /\ IsFiniteSet(Settled(r)') /\ IsFiniteSet(Won(r)')
  BY <1>1, TasksFinite, FS_Subset
<1> QED  BY <1>2, <1>3, FS_Subset, FS_CardinalityType

\* The statements that write a run, one by one.
LEMMA RunWrites ==
  ASSUME LeaseInv, Next, NEW r \in Runs
  PROVE  \/ runs'[r] = runs[r]
         \/ InsertRun /\ r = created + 1 /\ runs'[r] = CreateRun(sched.job)
         \/ SetTotal /\ runs'[r] = UpdateRunTasksTotal(runs[r], NumPartitions)
         \/ runs'[r] = InitRunProgress(runs[r])
         \/ runs'[r] = UpdateRunState(runs[r], "CANCELLED")
         \/ \E w \in Workers :
               /\ pc[w] \in Holding \cup Leaving /\ RunOf(Held(w)) = r
               /\ \/ runs'[r] = TaskStarted(runs[r])
                  \/ Credit(w) /\ runs'[r] = TaskSucceeded(runs[r])
                  \/ CloseRun(w) /\ runs'[r] = CompleteRun(runs[r], work[w].verdict)
                  \/ CountFail(w) /\ runs'[r] = TaskFailed(runs[r])
<1>. runs \in [Runs -> RunRow(Jobs \cup {NoOne})]  BY LeaseTypes
<1>1. CASE InsertRun  BY <1>1 DEF InsertRun
<1>2. CASE SetTotal  BY <1>2 DEF SetTotal
<1>3. CASE SetPending  BY <1>3 DEF SetPending
<1>4. ASSUME NEW j \in Jobs, CancelRun(j)
      PROVE  runs'[r] = runs[r] \/ runs'[r] = UpdateRunState(runs[r], "CANCELLED")
  BY <1>4 DEF CancelRun
<1>5. ASSUME NEW w \in Workers, Start(w) \/ Credit(w) \/ CloseRun(w) \/ CountFail(w)
      PROVE  \/ runs'[r] = runs[r]
             \/ /\ pc[w] \in Holding \cup Leaving /\ RunOf(Held(w)) = r
                /\ \/ runs'[r] = TaskStarted(runs[r])
                   \/ Credit(w) /\ runs'[r] = TaskSucceeded(runs[r])
                   \/ CloseRun(w) /\ runs'[r] = CompleteRun(runs[r], work[w].verdict)
                   \/ CountFail(w) /\ runs'[r] = TaskFailed(runs[r])
  <2>1. pc[w] \in Holding \cup Leaving
    BY <1>5 DEF Start, Credit, CloseRun, CountFail, Holding, Leaving
  <2>2. CASE Start(w)  BY <2>1, <2>2 DEF Start
  <2>3. CASE Credit(w)  BY <2>1, <2>3 DEF Credit
  <2>4. CASE CloseRun(w)  BY <2>1, <2>4 DEF CloseRun
  <2>5. CASE CountFail(w)  BY <2>1, <2>5 DEF CountFail
  <2> QED  BY <1>5, <2>2, <2>3, <2>4, <2>5
<1>6. CASE \/ (SchedulerStep /\ ~InsertRun /\ ~SetTotal /\ ~SetPending)
           \/ HandlerError \/ SchedulerCrash \/ CleanupDeadTasks \/ \E u \in Tasks : Expire(u)
           \/ \E j \in Jobs : CancelMark(j) \/ CancelList(j) \/ CancelError(j)
  BY <1>6 DEF SchedulerStep, Receive, MarkQueued, InsertTask, HandlerError,
     SchedulerCrash, Expire, CleanupDeadTasks, CancelMark, CancelList, CancelError
<1>7. ASSUME NEW w \in Workers,
             \/ WorkerStep(w) /\ ~(Start(w) \/ Credit(w) \/ CloseRun(w) \/ CountFail(w))
             \/ WorkerError(w) \/ WorkerCrash(w) \/ Heartbeat(w)
      PROVE  UNCHANGED runs
  BY <1>7 DEF WorkerStep, Claim, CheckCancelled, Kill, Load, Exec, Register, Succeed, Assess,
     CloseJob, Announce, Decide, Retry, Fail, WorkerError, WorkerCrash, Heartbeat
<1> QED  BY <1>1, <1>2, <1>3, <1>4, <1>5, <1>6, <1>7 DEF Next, CancelStep

\* A worker that counts its task makes it one that is through.
LEMMA CountedIsThrough ==
  ASSUME LeaseInv, Next, NEW w \in Workers, Credit(w) \/ CountFail(w),
         NEW t, t = Held(w), NEW r, r = RunOf(t)
  PROVE  /\ t \in Tasks /\ t \notin Settled(r) /\ t \in Settled(r)'
         /\ Credit(w) => t \in Won(r)'
<1>. TypeInv /\ OwnerInv /\ WorkersOK  BY LeaseTypes
<1>. USE DEF Holding, Leaving, Uncounted
<1>1. /\ pc[w] \in {"credit", "countFail"} /\ UNCHANGED tasks
      /\ pc'[w] \notin Uncounted
  BY DEF Credit, CountFail, WorkersOK
<1>2. t \in Tasks /\ tasks[t].owner = w  BY <1>1 DEF WorkersOK, OwnerInv
<1>3. tasks[t].state \in TerminalTask \cup {"LEASED"}
  BY <1>1 DEF OwnerInv, TerminalTask
<1>4. Credit(w) => tasks[t].state = "SUCCEEDED"  BY <1>1 DEF Credit, OwnerInv
<1>5. ASSUME NEW v \in Workers, pc'[v] \in Uncounted  PROVE work'[v].task # t
  <2>1. v # w  BY <1>1, <1>5
  <2>2. pc'[v] = pc[v] /\ work'[v] = work[v]
    BY <2>1, WorkerMoves DEF WorkerStep
  <2>3. tasks[Held(v)].owner = v  BY <1>5, <2>2 DEF OwnerInv
  <2> QED  BY <1>2, <2>1, <2>2, <2>3
<1>6. Through(t)'  BY <1>1, <1>3, <1>5 DEF Through
<1>7. ~Through(t)  BY <1>1 DEF Through
<1> QED  BY <1>1, <1>2, <1>4, <1>6, <1>7 DEF Settled, Won

\* A finite set that gains an element gains one.
LEMMA OneMore ==
  ASSUME NEW S, NEW T, IsFiniteSet(T), S \subseteq T, NEW x, x \notin S, x \in T
  PROVE  Cardinality(S) + 1 <= Cardinality(T)
<1>1. IsFiniteSet(S)  BY FS_Subset
<1>2. IsFiniteSet(S \cup {x}) /\ Cardinality(S \cup {x}) = Cardinality(S) + 1
  BY <1>1, FS_AddElement
<1>3. S \cup {x} \subseteq T  OBVIOUS
<1> QED  BY <1>2, <1>3, FS_Subset

\* One step keeps the counters below what is through.
LEMMA CountStep ==
  ASSUME LeaseInv, CountInv, [Next]_vars
  PROVE  CountInv'
<1> SUFFICES ASSUME NEW r \in Runs
             PROVE  /\ runs'[r].done <= Cardinality(Won(r)')
                    /\ runs'[r].done + runs'[r].failed <= Cardinality(Settled(r)')
  BY DEF CountInv
<1>1. /\ Cardinality(Settled(r)) \in Nat /\ Cardinality(Won(r)) \in Nat
      /\ Cardinality(Settled(r)') \in Nat /\ Cardinality(Won(r)') \in Nat
      /\ Cardinality(Settled(r)) <= Cardinality(Settled(r)')
      /\ Cardinality(Won(r)) <= Cardinality(Won(r)')
      /\ IsFiniteSet(Settled(r)') /\ IsFiniteSet(Won(r)')
      /\ Settled(r) \subseteq Settled(r)' /\ Won(r) \subseteq Won(r)'
  BY SettledGrows
<1>2. /\ runs[r] \in RunRow(Jobs \cup {NoOne})
      /\ runs[r].done \in Nat /\ runs[r].failed \in Nat
      /\ runs[r].done <= Cardinality(Won(r))
      /\ runs[r].done + runs[r].failed <= Cardinality(Settled(r))
  BY LeaseTypes DEF CountInv, RunRow
<1>3. CASE runs'[r].done = runs[r].done /\ runs'[r].failed = runs[r].failed
  BY <1>1, <1>2, <1>3
<1>4. CASE runs'[r] = CreateRun(sched.job)
  BY <1>1, <1>4 DEF CreateRun, NoRun
<1>5. ASSUME NEW w \in Workers, Credit(w), Next, RunOf(Held(w)) = r,
             runs'[r] = TaskSucceeded(runs[r])
      PROVE  /\ runs'[r].done <= Cardinality(Won(r)')
             /\ runs'[r].done + runs'[r].failed <= Cardinality(Settled(r)')
  <2>. DEFINE t == work[w].task
  <2>1. t \notin Settled(r) /\ t \in Settled(r)' /\ t \in Won(r)'
    BY <1>5, CountedIsThrough
  <2>2. t \notin Won(r)  BY <2>1 DEF Won
  <2>3. /\ Cardinality(Settled(r)) + 1 <= Cardinality(Settled(r)')
        /\ Cardinality(Won(r)) + 1 <= Cardinality(Won(r)')
    BY <1>1, <2>1, <2>2, OneMore
  <2>4. runs'[r].done = runs[r].done + 1 /\ runs'[r].failed = runs[r].failed
    BY <1>2, <1>5 DEF TaskSucceeded, RunRow
  <2> QED  BY <1>1, <1>2, <2>3, <2>4
<1>6. ASSUME NEW w \in Workers, CountFail(w), Next, RunOf(Held(w)) = r,
             runs'[r] = TaskFailed(runs[r])
      PROVE  /\ runs'[r].done <= Cardinality(Won(r)')
             /\ runs'[r].done + runs'[r].failed <= Cardinality(Settled(r)')
  <2>. DEFINE t == work[w].task
  <2>1. t \notin Settled(r) /\ t \in Settled(r)'
    BY <1>6, CountedIsThrough
  <2>3. Cardinality(Settled(r)) + 1 <= Cardinality(Settled(r)')
    BY <1>1, <2>1, OneMore
  <2>4. runs'[r].done = runs[r].done /\ runs'[r].failed = runs[r].failed + 1
    BY <1>2, <1>6 DEF TaskFailed, RunRow
  <2> QED  BY <1>1, <1>2, <2>3, <2>4
<1>7. CASE Next
  <2>1. \/ runs'[r] = UpdateRunTasksTotal(runs[r], NumPartitions)
        \/ runs'[r] = InitRunProgress(runs[r]) \/ runs'[r] = TaskStarted(runs[r])
        \/ \E s : runs'[r] = UpdateRunState(runs[r], s) \/ runs'[r] = CompleteRun(runs[r], s)
        \/ runs'[r] = runs[r]
        => runs'[r].done = runs[r].done /\ runs'[r].failed = runs[r].failed
    BY <1>2 DEF RunRow, UpdateRunTasksTotal, InitRunProgress, TaskStarted, UpdateRunState,
                CompleteRun
  <2> QED  BY <1>3, <1>4, <1>5, <1>6, <1>7, <2>1, RunWrites
<1>8. CASE UNCHANGED vars  BY <1>3, <1>8 DEF vars
<1> QED  BY <1>7, <1>8

\* What is through is in the table.
LEMMA SettledRows ==
  ASSUME NEW r
  PROVE  /\ Settled(r) \subseteq TasksOf(r)
         /\ Won(r) \subseteq {t \in TasksOf(r) : tasks[t].state = "SUCCEEDED"}
BY DEF Settled, Won, Through, TasksOf, TerminalTask

\* The invariants of leasing and counting hold together.
LEMMA CountInvariant == Spec => [](LeaseInv /\ CountInv)
<1>1. Init => CountInv
  <2> SUFFICES ASSUME Init, NEW r \in Runs
               PROVE  /\ runs[r].done <= Cardinality(Won(r))
                      /\ runs[r].done + runs[r].failed <= Cardinality(Settled(r))
    BY DEF CountInv
  <2>1. runs[r].done = 0 /\ runs[r].failed = 0  BY DEF Init, NoRun
  <2>2. Settled(r) \in SUBSET Tasks /\ Won(r) \in SUBSET Tasks  BY DEF Settled, Won
  <2>3. Cardinality(Won(r)) \in Nat /\ Cardinality(Settled(r)) \in Nat
    BY <2>2, TasksFinite, FS_Subset, FS_CardinalityType
  <2> QED  BY <2>1, <2>3
<1> QED  BY <1>1, CountStep, LeaseStart, LeaseKeeps, PTL DEF Spec

\* The counters of a run never claim more than happened: a task that was
\* retried, whose worker crashed or whose statement was lost is counted at
\* most once (TaskSucceeded and TaskFailed, relative UPDATEs that look at
\* nothing).
THEOREM CountersAreSound == Spec => []CountersSound
<1>1. LeaseInv /\ CountInv => CountersSound
  <2> SUFFICES ASSUME LeaseInv, CountInv, NEW r \in Runs
               PROVE  /\ runs[r].done <=
                           Cardinality({t \in TasksOf(r) : tasks[t].state = "SUCCEEDED"})
                      /\ runs[r].done + runs[r].failed <= Cardinality(TasksOf(r))
    BY DEF CountersSound
  <2>. DEFINE S == {t \in TasksOf(r) : tasks[t].state = "SUCCEEDED"}
  <2>1. IsFiniteSet(TasksOf(r)) /\ IsFiniteSet(S)
    BY TasksFinite, FS_Subset
  <2>2. /\ Cardinality(Won(r)) <= Cardinality(S) /\ Cardinality(S) \in Nat
        /\ Cardinality(Settled(r)) <= Cardinality(TasksOf(r)) /\ Cardinality(TasksOf(r)) \in Nat
        /\ Cardinality(Won(r)) \in Nat /\ Cardinality(Settled(r)) \in Nat
    BY <2>1, SettledRows, FS_Subset, FS_CardinalityType
  <2>3. runs[r].done \in Nat /\ runs[r].failed \in Nat  BY LeaseTypes DEF RunRow
  <2> QED  BY <2>2, <2>3 DEF CountInv
<1> QED  BY <1>1, CountInvariant, PTL

(***************************************************************************)
(* The verdict.  Who finds all tasks counted finds them all through; what  *)
(* is through stays so until the run and the job are written.              *)
(***************************************************************************)

\* A run has as many tasks as partitions.
LEMMA RunSize ==
  ASSUME NEW r \in Runs
  PROVE  /\ IsFiniteSet({r} \X Partitions) /\ Cardinality({r} \X Partitions) = NumPartitions
         /\ \A t \in Tasks : RunOf(t) = r <=> t \in {r} \X Partitions
         /\ {r} \X Partitions \subseteq Tasks
<1>1. IsFiniteSet(Partitions) /\ Cardinality(Partitions) = NumPartitions
  <2>1. 0 \in Int /\ NumPartitions - 1 \in Int /\ NumPartitions \in Nat /\ ~(0 > NumPartitions - 1)
    BY ConstantsAssumption
  <2> QED  BY <2>1, FS_Interval DEF Partitions
<1>2. IsFiniteSet({r}) /\ Cardinality({r}) = 1  BY FS_Singleton
<1>3. /\ IsFiniteSet({r} \X Partitions)
      /\ Cardinality({r} \X Partitions) = 1 * NumPartitions
  BY <1>1, <1>2, FS_Product
<1>4. 1 * NumPartitions = NumPartitions  BY ConstantsAssumption
<1> QED  BY <1>3, <1>4 DEF Tasks

\* A set of tasks of one run that is as large as the run is the run.
LEMMA WholeRun ==
  ASSUME NEW r \in Runs, NEW S, S \in SUBSET Tasks, \A t \in S : RunOf(t) = r,
         NumPartitions <= Cardinality(S)
  PROVE  \A i \in Partitions : <<r, i>> \in S
<1>1. S \subseteq {r} \X Partitions  BY RunSize
<1>2. IsFiniteSet(S) /\ Cardinality(S) <= NumPartitions /\ Cardinality(S) \in Nat
  <2>1. IsFiniteSet({r} \X Partitions) /\ Cardinality({r} \X Partitions) = NumPartitions
    BY RunSize
  <2>2. S \in SUBSET ({r} \X Partitions)  BY <1>1
  <2>3. IsFiniteSet(S) /\ Cardinality(S) <= NumPartitions  BY <2>1, <2>2, FS_Subset
  <2> QED  BY <2>3, FS_CardinalityType
<1>3. Cardinality(S) = Cardinality({r} \X Partitions)
  BY <1>2, RunSize, ConstantsAssumption
<1>4. S = {r} \X Partitions  BY <1>1, <1>3, RunSize, FS_Subset
<1> QED  BY <1>4

\* A worker closes a run because it has just found all its tasks counted, or
\* because it was closing it before.
LEMMA ClosingMoves ==
  ASSUME TypeInv, NEW w \in Workers,
         WorkerStep(w) \/ WorkerError(w) \/ WorkerCrash(w) \/ Heartbeat(w),
         pc'[w] \in {"closeRun", "closeJob"}
  PROVE  \/ pc[w] \in {"closeRun", "closeJob"} /\ work'[w] = work[w]
         \/ Assess(w) /\ AllDone(runs[RunOf(Held(w))])
<1>. WorkersOK  BY DEF TypeInv, TypeOK
<1>1. CASE Assess(w)  BY <1>1 DEF Assess, WorkersOK
<1>2. CASE CloseRun(w)  BY <1>2 DEF CloseRun, WorkersOK
<1>3. CASE \/ Claim(w) \/ CheckCancelled(w) \/ Kill(w) \/ Start(w) \/ Load(w) \/ Exec(w)
           \/ Register(w) \/ Succeed(w) \/ Credit(w) \/ CloseJob(w) \/ Announce(w)
           \/ Decide(w) \/ Retry(w) \/ Fail(w) \/ CountFail(w) \/ WorkerCrash(w)
  BY <1>3 DEF Claim, CheckCancelled, Kill, Start, Load, Exec, Register, Succeed, Credit,
     CloseJob, Announce, Decide, Retry, Fail, CountFail, WorkerCrash, WorkersOK
<1>4. CASE WorkerError(w)  BY <1>4 DEF WorkerError, GoesOn, WorkersOK
<1>5. CASE Heartbeat(w)  BY <1>5 DEF Heartbeat
<1> QED  BY <1>1, <1>2, <1>3, <1>4, <1>5 DEF WorkerStep

\* What the worker concludes is true of the tasks of the run.
LEMMA AssessSees ==
  ASSUME LeaseInv, CountInv, NEW w \in Workers, Assess(w), AllDone(runs[RunOf(Held(w))]),
         NEW r, r = RunOf(Held(w)), runs[r].total > 0
  PROVE  /\ \A i \in Partitions : <<r, i>> \in Settled(r)
         /\ Verdict(runs[r]) = "SUCCEEDED" => \A i \in Partitions : <<r, i>> \in Won(r)
<1>1. r \in Runs  BY LeaseTypes DEF Assess, WorkersOK, Leaving, Tasks
<1>2. runs[r].total = NumPartitions  BY <1>1, LeaseTypes DEF TotalIsWhole
<1>3. runs[r].done \in Nat /\ runs[r].failed \in Nat  BY <1>1, LeaseTypes DEF RunRow
<1>4. /\ Settled(r) \in SUBSET Tasks /\ Won(r) \in SUBSET Tasks
      /\ \A t \in Settled(r) : RunOf(t) = r
      /\ \A t \in Won(r) : RunOf(t) = r
  BY DEF Settled, Won
<1>5. \A i \in Partitions : <<r, i>> \in Settled(r)
  <2>1. NumPartitions <= Cardinality(Settled(r))  BY <1>1, <1>2 DEF CountInv, AllDone
  <2> QED  BY <1>1, <1>4, <2>1, WholeRun
<1>6. ASSUME Verdict(runs[r]) = "SUCCEEDED"  PROVE \A i \in Partitions : <<r, i>> \in Won(r)
  <2>1. runs[r].done = NumPartitions
    BY <1>2, <1>3, <1>6 DEF Verdict, AllDone
  <2>2. NumPartitions <= Cardinality(Won(r))  BY <1>1, <2>1 DEF CountInv
  <2> QED  BY <1>1, <1>4, <2>2, WholeRun
<1> QED  BY <1>5, <1>6

\* One step keeps what a closing worker relies on.
LEMMA ClosedStep ==
  ASSUME LeaseInv, CountInv, ClosedInv, [Next]_vars
  PROVE  ClosedInv'
<1> SUFFICES ASSUME NEW v \in Workers, pc'[v] \in {"closeRun", "closeJob"}, work'[v].total > 0,
                    NEW r, r = RunOf(work'[v].task), NEW i \in Partitions
             PROVE  /\ <<r, i>> \in Settled(r)'
                    /\ work'[v].verdict = "SUCCEEDED" => <<r, i>> \in Won(r)'
  BY DEF ClosedInv
<1>1. Settled(r) \subseteq Settled(r)' /\ Won(r) \subseteq Won(r)'  BY SettledGrows
<1>2. CASE pc[v] \in {"closeRun", "closeJob"} /\ work'[v] = work[v]
  <2>1. /\ <<r, i>> \in Settled(r)
        /\ work[v].verdict = "SUCCEEDED" => <<r, i>> \in Won(r)
    BY <1>2 DEF ClosedInv
  <2> QED  BY <1>1, <1>2, <2>1
<1>3. CASE Assess(v) /\ AllDone(runs[RunOf(Held(v))])
  <2>1. /\ work'[v].total = runs[r].total /\ work'[v].verdict = Verdict(runs[r])
        /\ r = RunOf(Held(v))
    BY <1>3, LeaseTypes DEF Assess, WorkersOK, Work
  <2> QED  BY <1>1, <1>3, <2>1, AssessSees
<1>4. ASSUME NEW w \in Workers,
             WorkerStep(w) \/ WorkerError(w) \/ WorkerCrash(w) \/ Heartbeat(w)
      PROVE  \/ pc[v] \in {"closeRun", "closeJob"} /\ work'[v] = work[v]
             \/ Assess(v) /\ AllDone(runs[RunOf(Held(v))])
  <2>1. CASE v = w  BY <1>4, <2>1, ClosingMoves, LeaseTypes
  <2>2. CASE v # w  BY <1>4, <2>2, WorkerMoves, LeaseTypes
  <2> QED  BY <2>1, <2>2
<1>5. CASE \/ SchedulerStep \/ HandlerError \/ SchedulerCrash
           \/ \E j \in Jobs : CancelMark(j) \/ CancelStep(j) \/ CancelError(j)
           \/ CleanupDeadTasks \/ \E u \in Tasks : Expire(u)
  BY <1>2, <1>5, OthersFrame
<1>6. CASE UNCHANGED vars  BY <1>2, <1>6 DEF vars
<1> QED  BY <1>2, <1>3, <1>4, <1>5, <1>6 DEF Next

\* The invariants of counting and closing hold together.
LEMMA ClosedInvariant == Spec => [](LeaseInv /\ CountInv /\ ClosedInv)
<1>1. Init => ClosedInv  BY DEF Init, ClosedInv
<1>2. LeaseInv /\ CountInv /\ ClosedInv /\ [Next]_vars => ClosedInv'  BY ClosedStep
<1> QED  BY <1>1, <1>2, CountInvariant, PTL DEF Spec

\* Whoever closes a run on a known total has seen all its tasks through: no
\* row waits, nobody works on one, and the verdict SUCCEEDED means that every
\* partition succeeded, although checkAndCompleteRun reads nothing but three
\* counters, which others go on changing until it writes the run.
THEOREM VerdictsAreSound == Spec => []VerdictSound
<1>1. ClosedInv => VerdictSound
  <2> SUFFICES ASSUME ClosedInv, NEW w \in Workers, pc[w] \in {"closeRun", "closeJob"},
                      work[w].total > 0
               PROVE  /\ \A t \in TasksOf(RunOf(Held(w))) :
                            /\ tasks[t].state # "PENDING"
                            /\ \A v \in Workers : pc[v] \in Holding => Held(v) # t
                      /\ work[w].verdict = "SUCCEEDED" =>
                            \A i \in Partitions :
                               tasks[<<RunOf(Held(w)), i>>].state = "SUCCEEDED"
    BY DEF VerdictSound
  <2>1. ASSUME NEW t \in TasksOf(RunOf(Held(w)))  PROVE Through(t)
    <3>1. PICK i \in Partitions : t = <<RunOf(Held(w)), i>>  BY DEF TasksOf, Tasks
    <3> QED  BY <3>1 DEF ClosedInv, Settled
  <2>2. ASSUME work[w].verdict = "SUCCEEDED", NEW i \in Partitions
        PROVE  tasks[<<RunOf(Held(w)), i>>].state = "SUCCEEDED"
    BY <2>2 DEF ClosedInv, Won
  <2> QED  BY <2>1, <2>2 DEF Through, TerminalTask, Uncounted
<1> QED  BY <1>1, ClosedInvariant, PTL

(***************************************************************************)
(* The range.  A worker counts the rows of a run that may still be under   *)
(* construction, or that was given up half way: its own task is counted,   *)
(* and so are all before it that were not deleted, because the rows are    *)
(* inserted in order.                                                      *)
(***************************************************************************)

\* Rows appear in the order of their partitions.
LEMMA PrefixStep ==
  ASSUME LeaseInv, PrefixInv, [Next]_vars
  PROVE  PrefixInv'
<1> SUFFICES ASSUME NEW r \in Runs, NEW i \in Partitions, NEW j \in Partitions, i < j,
                    tasks'[<<r, j>>].state # "NONE"
             PROVE  tasks'[<<r, i>>].state # "NONE"
  BY DEF PrefixInv
<1>1. <<r, i>> \in Tasks /\ <<r, j>> \in Tasks  BY DEF Tasks
<1>2. CASE UNCHANGED vars  BY <1>2 DEF vars, PrefixInv
<1>3. CASE Next /\ tasks[<<r, j>>].state # "NONE"
  BY <1>1, <1>3, RowsStay DEF PrefixInv
<1>4. CASE Next /\ tasks[<<r, j>>].state = "NONE"
  <2>1. InsertTask  BY <1>1, <1>4, RowsStay
  <2>2. <<r, j>> = <<sched.run, sched.next>>
    BY <1>1, <1>4, <2>1 DEF InsertTask
  <2>3. sched.run = r /\ sched.next = j  BY <2>2
  <2>4. SchedAt("tasks")  BY <2>1 DEF InsertTask
  <2>5. i \in Int /\ j \in Int /\ ~(i >= j)  BY ConstantsAssumption DEF Partitions
  <2>6. tasks[<<r, i>>].state # "NONE"
    BY <2>3, <2>4, <2>5, LeaseTypes DEF FreshInv
  <2> QED  BY <1>1, <1>3, <1>4, <2>6, RowsStay
<1> QED  BY <1>2, <1>3, <1>4

\* Those that are before a row that exists are counted with it.
LEMMA RowsBelow ==
  ASSUME PrefixInv, NEW t \in Tasks, tasks[t].state # "NONE"
  PROVE  /\ t[2] \in Nat
         /\ t[2] < Cardinality(TasksOf(RunOf(t)))
         /\ Cardinality(TasksOf(RunOf(t))) <= NumPartitions
<1>. DEFINE r == t[1]
            i == t[2]
            below == {r} \X (0..i)
<1>1. r \in Runs /\ i \in Partitions /\ t = <<r, i>>  BY DEF Tasks
<1>2. i \in Nat /\ i \in Int  BY <1>1, ConstantsAssumption DEF Partitions
<1>3. IsFiniteSet(below) /\ Cardinality(below) = i + 1
  <2>1. IsFiniteSet(0..i) /\ Cardinality(0..i) = i + 1
    <3>1. 0 \in Int /\ ~(0 > i) /\ i - 0 + 1 = i + 1  BY <1>2
    <3> QED  BY <1>2, <3>1, FS_Interval
  <2>2. IsFiniteSet({r}) /\ Cardinality({r}) = 1  BY FS_Singleton
  <2>3. IsFiniteSet(below) /\ Cardinality(below) = 1 * (i + 1)
    BY <2>1, <2>2, FS_Product
  <2> QED  BY <1>2, <2>3
<1>4. below \subseteq TasksOf(r)
  <2> SUFFICES ASSUME NEW k \in 0..i  PROVE <<r, k>> \in TasksOf(r)  OBVIOUS
  <2>1. k \in Partitions /\ (k = i \/ k < i)
    BY <1>1, <1>2, ConstantsAssumption DEF Partitions
  <2>2. tasks[<<r, k>>].state # "NONE"  BY <1>1, <2>1 DEF PrefixInv
  <2> QED  BY <1>1, <2>1, <2>2 DEF TasksOf, Tasks
<1>5. i + 1 <= Cardinality(TasksOf(r))
  BY <1>3, <1>4, TasksFinite, FS_Subset
<1>6. Cardinality(TasksOf(r)) <= NumPartitions
  <2>1. TasksOf(r) \in SUBSET ({r} \X Partitions)  BY <1>1, RunSize DEF TasksOf
  <2>2. IsFiniteSet({r} \X Partitions) /\ Cardinality({r} \X Partitions) = NumPartitions
    BY <1>1, RunSize
  <2> QED  BY <2>1, <2>2, FS_Subset
<1> QED  BY <1>2, <1>5, <1>6, TasksFinite

\* The rows of a run that the cleanup has deleted, and those it has left.
LEMMA RowsLeft ==
  ASSUME LeaseInv, NEW r
  PROVE  /\ IsFiniteSet(PurgedOf(r)) /\ Cardinality(PurgedOf(r)) \in Nat
         /\ Cardinality(TasksOf(r) \ purged) \in Nat
         /\ Cardinality(TasksOf(r) \ purged) <= Cardinality(TasksOf(r))
         /\ Cardinality(TasksOf(r)) <= Cardinality(TasksOf(r) \ purged) + Cardinality(PurgedOf(r))
<1>. DEFINE all  == TasksOf(r)
            left == TasksOf(r) \ purged
            gone == PurgedOf(r)
<1>1. purged \subseteq Tasks  BY DEF LeaseInv, TypeInv, TypeOK, EnvironmentOK
<1>2. IsFiniteSet(all) /\ IsFiniteSet(Tasks) /\ Cardinality(all) \in Nat  BY TasksFinite
<1>3. gone \subseteq Tasks /\ left \subseteq all /\ all \subseteq left \cup gone
  BY <1>1 DEF PurgedOf, TasksOf
<1>. HIDE DEF all, left, gone
<1>4. IsFiniteSet(gone) /\ Cardinality(gone) \in Nat
  BY <1>2, <1>3, FS_Subset, FS_CardinalityType
<1>5. IsFiniteSet(left) /\ Cardinality(left) \in Nat /\ Cardinality(left) <= Cardinality(all)
  BY <1>2, <1>3, FS_Subset, FS_CardinalityType
<1>6. /\ IsFiniteSet(left \cup gone)
      /\ Cardinality(left \cup gone) = Cardinality(left) + Cardinality(gone)
                                         - Cardinality(left \cap gone)
  BY <1>4, <1>5, FS_Union
<1>7. Cardinality(left \cap gone) \in Nat
  BY <1>4, FS_Subset, FS_CardinalityType
<1>8. Cardinality(all) <= Cardinality(left \cup gone)
  BY <1>3, <1>6, FS_Subset
<1> QED  BY <1>2, <1>4, <1>5, <1>6, <1>7, <1>8 DEF all, left, gone

\* The cleanup takes no deletion back.
LEMMA PurgedGrows ==
  ASSUME LeaseInv, LeaseInv', [Next]_vars, NEW r
  PROVE  /\ Cardinality(PurgedOf(r)') \in Nat
         /\ Cardinality(PurgedOf(r)) <= Cardinality(PurgedOf(r)')
<1>1. purged \subseteq purged'
  <2>1. CASE CleanupDeadTasks  BY <2>1 DEF CleanupDeadTasks
  <2>2. CASE Next /\ ~CleanupDeadTasks
    BY <2>2 DEF Next, SchedulerStep, Receive, MarkQueued, InsertRun, InsertTask, SetTotal,
       SetPending, HandlerError, SchedulerCrash, CancelMark, CancelStep, CancelList, CancelRun,
       CancelError, WorkerStep, Claim, CheckCancelled, Kill, Start, Load, Exec, Register,
       Succeed, Credit, Assess, CloseRun, CloseJob, Announce, Decide, Retry, Fail, CountFail,
       WorkerError, WorkerCrash, Heartbeat, Expire, Fault, Stop
  <2>3. CASE UNCHANGED vars  BY <2>3 DEF vars
  <2> QED  BY <2>1, <2>2, <2>3
<1>2. PurgedOf(r) \subseteq PurgedOf(r)'  BY <1>1 DEF PurgedOf
<1>3. IsFiniteSet(PurgedOf(r)')
  <2>1. purged' \subseteq Tasks  BY DEF LeaseInv, TypeInv, TypeOK, EnvironmentOK
  <2>2. PurgedOf(r)' \subseteq Tasks  BY <2>1 DEF PurgedOf
  <2> QED  BY <2>2, TasksFinite, FS_Subset
<1> QED  BY <1>2, <1>3, FS_Subset, FS_CardinalityType

\* What is deleted stays what it was.
LEMMA PurgedStep ==
  ASSUME LeaseInv, PurgedInv, [Next]_vars
  PROVE  PurgedInv'
<1> SUFFICES ASSUME NEW t \in purged'  PROVE tasks'[t].state \in {"DEAD", "FAILED"}
  BY DEF PurgedInv
<1>1. purged \subseteq Tasks  BY DEF LeaseInv, TypeInv, TypeOK, EnvironmentOK
<1>2. CASE CleanupDeadTasks  BY <1>2 DEF CleanupDeadTasks, PurgedInv
<1>3. CASE Next /\ ~CleanupDeadTasks
  <2>1. t \in purged
    BY <1>3 DEF Next, SchedulerStep, Receive, MarkQueued, InsertRun, InsertTask, SetTotal,
       SetPending, HandlerError, SchedulerCrash, CancelMark, CancelStep, CancelList, CancelRun,
       CancelError, WorkerStep, Claim, CheckCancelled, Kill, Start, Load, Exec, Register,
       Succeed, Credit, Assess, CloseRun, CloseJob, Announce, Decide, Retry, Fail, CountFail,
       WorkerError, WorkerCrash, Heartbeat, Expire, Fault, Stop
  <2>2. tasks[t].state \in {"DEAD", "FAILED"} /\ t \in Tasks  BY <1>1, <2>1 DEF PurgedInv
  <2> QED  BY <1>3, <2>2, SettledStays DEF TerminalTask
<1>4. CASE UNCHANGED vars  BY <1>4 DEF vars, PurgedInv
<1> QED  BY <1>2, <1>3, <1>4

\* The row a worker works on is among those it counts.
LEMMA OwnRowLeft ==
  ASSUME LeaseInv, PurgedInv, NEW w \in Workers, pc[w] \in Holding
  PROVE  Cardinality(TasksOf(RunOf(Held(w))) \ purged) > 0
<1>. DEFINE left == TasksOf(RunOf(Held(w))) \ purged
<1>1. Held(w) \in left
  BY LeaseTypes DEF OwnerInv, WorkersOK, PurgedInv, TasksOf
<1>2. IsFiniteSet(left) /\ Cardinality(left) \in Nat
  BY TasksFinite, FS_Subset, FS_CardinalityType
<1>. HIDE DEF left
<1>3. Cardinality(left) # 0  BY <1>1, <1>2, FS_EmptySet
<1> QED  BY <1>2, <1>3 DEF left

\* Load reads a number that has room for the worker's partition among the rows
\* that were not deleted.
LEMMA RangeStep ==
  ASSUME LeaseInv, LeaseInv', RangeInv, [Next]_vars
  PROVE  RangeInv'
<1>1. PrefixInv' /\ PurgedInv'  BY PrefixStep, PurgedStep DEF RangeInv
<1>2. ASSUME NEW v \in Workers, pc'[v] = "exec"
      PROVE  /\ work'[v].task[2] <
                   work'[v].parts + Cardinality({t \in purged' : RunOf(t) = RunOf(work'[v].task)})
             /\ work'[v].parts \in 1..NumPartitions
  <2>0. work'[v] \in Work /\ work'[v].task \in Tasks /\ work'[v].task[2] \in Int
    <3>1. work'[v] \in Work /\ work'[v].task \in Tasks
      BY <1>2 DEF LeaseInv, TypeInv, TypeOK, WorkersOK, Holding
    <3> QED  BY <3>1, ConstantsAssumption DEF Tasks, Partitions
  <2>p. PICK r \in Runs : r = RunOf(work'[v].task)  BY <2>0 DEF Tasks
  <2>q. PICK gone \in Nat : gone = Cardinality(PurgedOf(r))  BY RowsLeft
  <2>s. PICK now \in Nat : now = Cardinality({t \in purged' : RunOf(t) = r})
    BY PurgedGrows DEF PurgedOf
  <2>g. gone <= now  BY <2>q, <2>s, PurgedGrows DEF PurgedOf
  <2>1. CASE pc'[v] = pc[v] /\ work'[v] = work[v]
    <3>1. work'[v].task[2] < work'[v].parts + gone /\ work'[v].parts \in 1..NumPartitions
      BY <1>2, <2>1, <2>p, <2>q DEF RangeInv, PartitionInRange
    <3> QED  BY <2>0, <2>p, <2>s, <2>g, <3>1
  <2>2. CASE Load(v)
    <3>1. /\ Held(v) \in Tasks /\ tasks[Held(v)].state # "NONE" /\ pc[v] \in Holding
          /\ work'[v].task = Held(v)
          /\ work'[v].parts = Cardinality(TasksOf(r) \ purged)
      BY <2>2, <2>p, LeaseTypes DEF Load, WorkersOK, OwnerInv, Holding, Work
    <3>2. PICK rows \in Nat : rows = Cardinality(TasksOf(r))  BY TasksFinite
    <3>3. work'[v].task[2] < rows /\ rows <= NumPartitions
      BY <2>p, <3>1, <3>2, RowsBelow DEF RangeInv
    <3>4. work'[v].parts \in Nat /\ work'[v].parts <= rows /\ rows <= work'[v].parts + gone
      BY <2>q, <3>1, <3>2, RowsLeft
    <3>5. work'[v].parts > 0  BY <2>p, <3>1, OwnRowLeft DEF RangeInv
    <3> QED  BY <2>0, <2>p, <2>s, <2>g, <3>3, <3>4, <3>5, ConstantsAssumption
  <2>3. ASSUME NEW w \in Workers,
               WorkerStep(w) \/ WorkerError(w) \/ WorkerCrash(w) \/ Heartbeat(w)
        PROVE  Load(v) \/ (pc'[v] = pc[v] /\ work'[v] = work[v])
    <3>1. CASE v # w  BY <2>3, <3>1, WorkerMoves, LeaseTypes
    <3>2. CASE v = w /\ Heartbeat(w)  BY <3>2 DEF Heartbeat
    <3>3. CASE v = w /\ WorkerError(w)
      BY <1>2, <3>3, LeaseTypes DEF WorkerError, GoesOn, WorkersOK
    <3>4. CASE v = w /\ ~Load(w) /\ (WorkerStep(w) \/ WorkerCrash(w))
      BY <1>2, <3>4, LeaseTypes DEF WorkersOK, WorkerStep, Claim, CheckCancelled, Kill, Start,
         Exec, Register, Succeed, Credit, Assess, CloseRun, CloseJob, Announce, Decide, Retry,
         Fail, CountFail, WorkerCrash
    <3> QED  BY <2>3, <3>1, <3>2, <3>3, <3>4
  <2>4. CASE \/ SchedulerStep \/ HandlerError \/ SchedulerCrash
             \/ \E j \in Jobs : CancelMark(j) \/ CancelStep(j) \/ CancelError(j)
             \/ CleanupDeadTasks \/ \E u \in Tasks : Expire(u)
    BY <2>1, <2>4, OthersFrame
  <2>5. CASE UNCHANGED vars  BY <2>1, <2>5 DEF vars
  <2> QED  BY <2>1, <2>2, <2>3, <2>4, <2>5 DEF Next
<1> QED  BY <1>1, <1>2 DEF RangeInv, PartitionInRange, PurgedOf

\* The invariants of leasing, counting, closing and slicing.
LEMMA RangeInvariant == Spec => [](LeaseInv /\ CountInv /\ ClosedInv /\ RangeInv)
<1>1. Init => RangeInv
  BY DEF Init, RangeInv, PrefixInv, PurgedInv, PartitionInRange, NoTask, Tasks
<1>2. LeaseInv /\ LeaseInv' /\ RangeInv /\ [Next]_vars => RangeInv'  BY RangeStep
<1> QED  BY <1>1, <1>2, ClosedInvariant, PTL DEF Spec

\* The partition a subprocess is asked for exists among as many slices as its
\* worker counted (GetRunTaskCount) and rows of the run were deleted
\* (CleanupDeadTasks), although the scheduler may not be done inserting, or may
\* have given up.
THEOREM PartitionsAreInRange == Spec => []PartitionInRange
<1>1. RangeInv => PartitionInRange  BY DEF RangeInv
<1> QED  BY <1>1, RangeInvariant, PTL

(***************************************************************************)
(* Outputs.  As long as no statement has failed, a worker counts its task  *)
(* before it looks at the counters, so a run is never closed on a total of *)
(* 0; and a task is put back only before its artifact is registered.       *)
(***************************************************************************)

\* Nothing has failed: nothing failed before, and this step is no failure.
LEMMA NoFault ==
  ASSUME TypeInv, Next, faults' = 0
  PROVE  faults = 0 /\ ~HandlerError /\ \A w \in Workers : ~WorkerError(w)
<1>1. faults \in Nat  BY ConstantsAssumption DEF TypeInv, TypeOK, EnvironmentOK
<1>2. ~Fault  BY <1>1 DEF Fault
<1>3. ~HandlerError /\ \A w \in Workers : ~WorkerError(w)
  BY <1>2 DEF HandlerError, WorkerError
<1>4. CASE SchedulerStep \/ SchedulerCrash \/ CleanupDeadTasks \/ \E t \in Tasks : Expire(t)
  BY <1>3, <1>4 DEF SchedulerStep, Receive, MarkQueued, InsertRun, InsertTask, SetTotal,
     SetPending, SchedulerCrash, Stop, Expire, CleanupDeadTasks
<1>5. ASSUME NEW j \in Jobs, CancelMark(j) \/ CancelStep(j) \/ CancelError(j)
      PROVE  faults = 0
  BY <1>2, <1>5 DEF CancelMark, CancelStep, CancelList, CancelRun, CancelError, Stop
<1>6. ASSUME NEW w \in Workers, WorkerStep(w) \/ WorkerCrash(w) \/ Heartbeat(w)
      PROVE  faults = 0
  BY <1>6 DEF WorkerStep, Claim, CheckCancelled, Kill, Start, Load, Exec, Register, Succeed,
     Credit, Assess, CloseRun, CloseJob, Announce, Decide, Retry, Fail, CountFail, WorkerCrash,
     Stop, Heartbeat
<1> QED  BY <1>3, <1>4, <1>5, <1>6 DEF Next

\* Only the holder of a task stores its output and registers its artifact.
LEMMA StoreWrites ==
  ASSUME LeaseInv, NEW w \in Workers, WorkerStep(w) \/ WorkerCrash(w) \/ Heartbeat(w),
         NEW t \in Tasks
  PROVE  \/ artifacts'[t] = artifacts[t] /\ outputs'[t] = outputs[t]
         \/ /\ pc[w] \in {"exec", "register"} /\ t = Held(w)
            /\ tasks[t].state = "LEASED" /\ tasks'[t] = tasks[t]
<1>. WorkersOK /\ OwnerInv /\ StorageOK  BY LeaseTypes
<1>1. CASE Exec(w) \/ Register(w)
  <2>1. Held(w) \in Tasks /\ tasks[Held(w)].state = "LEASED" /\ UNCHANGED tasks
    BY <1>1 DEF Exec, Register, WorkersOK, OwnerInv, Holding
  <2> QED  BY <1>1, <2>1 DEF Exec, Register, StorageOK
<1>2. CASE \/ (WorkerStep(w) /\ ~Exec(w) /\ ~Register(w)) \/ WorkerCrash(w) \/ Heartbeat(w)
  BY <1>2 DEF WorkerStep, Claim, CheckCancelled, Kill, Start, Load, Succeed, Credit, Assess,
     CloseRun, CloseJob, Announce, Decide, Retry, Fail, CountFail, WorkerCrash, Heartbeat
<1> QED  BY <1>1, <1>2

\* What a worker knows of the storage of its own task after its own step.
LEMMA StoreOwn ==
  ASSUME LeaseInv, RangeInv, StoreInv, NEW w \in Workers,
         WorkerStep(w) \/ WorkerCrash(w) \/ Heartbeat(w),
         NEW t, t = work'[w].task
  PROVE  /\ pc'[w] \in Unregistered => artifacts'[t] = 0
         /\ pc'[w] \in {"recheck", "succeed"} => artifacts'[t] = 1
         /\ pc'[w] \in {"register", "recheck", "succeed"} => outputs'[t] > 0
<1>. WorkersOK /\ OwnerInv /\ StorageOK  BY LeaseTypes
<1>. USE DEF Unregistered, Holding
<1>1. CASE Claim(w)
  <2>1. PICK u \in Tasks : Claim(w)!2!(u)  BY <1>1 DEF Claim
  <2>2. work'[w].task = u /\ pc'[w] = "leased" /\ UNCHANGED artifacts
    BY <1>1, <2>1 DEF Claim, WorkersOK, NoWork
  <2>3. artifacts[u] = 0  BY <2>1 DEF StoreInv, Leasable
  <2> QED  BY <2>2, <2>3
<1>2. CASE CheckCancelled(w) \/ Start(w) \/ Decide(w)
  BY <1>2 DEF CheckCancelled, Start, Decide, WorkersOK, StoreInv
<1>3. CASE Load(w)
  BY <1>3 DEF Load, WorkersOK, StoreInv, Work
<1>4. CASE Exec(w)
  <2>1. t = Held(w) /\ t \in Tasks /\ pc[w] = "exec" /\ artifacts' = artifacts
    BY <1>4 DEF Exec, WorkersOK
  <2>2. artifacts'[t] = 0  BY <2>1 DEF StoreInv
  <2>3. pc'[w] = "failed" \/ (pc'[w] = "register" /\ outputs'[t] = work[w].parts)
    BY <1>4, <2>1 DEF Exec, WorkersOK, StorageOK
  <2>4. work[w].parts > 0
    BY <2>1, ConstantsAssumption DEF RangeInv, PartitionInRange
  <2> QED  BY <2>2, <2>3, <2>4
<1>5. CASE Register(w)
  <2>1. /\ t = Held(w) /\ t \in Tasks /\ pc[w] = "register" /\ pc'[w] = "recheck"
        /\ artifacts'[t] = artifacts[t] + 1 /\ outputs' = outputs
    BY <1>5 DEF Register, WorkersOK, StorageOK
  <2>2. artifacts[t] = 0 /\ outputs[t] > 0  BY <2>1 DEF StoreInv
  <2> QED  BY <2>1, <2>2
<1>6. CASE \/ Kill(w) \/ Succeed(w) \/ Credit(w) \/ CloseRun(w) \/ CloseJob(w) \/ Announce(w)
           \/ Retry(w) \/ Fail(w) \/ CountFail(w) \/ WorkerCrash(w)
  BY <1>6 DEF Kill, Succeed, Credit, CloseRun, CloseJob, Announce, Retry, Fail, CountFail,
              WorkerCrash, WorkersOK
<1>7. CASE Assess(w)  BY <1>7 DEF Assess, WorkersOK
<1>8. CASE Heartbeat(w)  BY <1>8 DEF Heartbeat, StoreInv
<1> QED  BY <1>1, <1>2, <1>3, <1>4, <1>5, <1>6, <1>7, <1>8 DEF WorkerStep

\* What the state of a row says of its storage after a worker's step.
LEMMA StoreRows ==
  ASSUME LeaseInv, StoreInv, NEW w \in Workers,
         WorkerStep(w) \/ WorkerCrash(w) \/ Heartbeat(w), NEW t \in Tasks
  PROVE  /\ tasks'[t].state \in {"NONE", "PENDING"} => artifacts'[t] = 0
         /\ tasks'[t].state = "SUCCEEDED" => artifacts'[t] = 1 /\ outputs'[t] > 0
<1>. /\ TypeInv /\ WorkersOK /\ OwnerInv /\ StorageOK /\ tasks \in [Tasks -> TaskRow]
     /\ tasks[t] \in TaskRow
  BY LeaseTypes
<1>1. CASE pc[w] \in {"exec", "register"} /\ tasks[t].state = "LEASED" /\ tasks'[t] = tasks[t]
  BY <1>1
<1>2. CASE artifacts'[t] = artifacts[t] /\ outputs'[t] = outputs[t]
  <2>1. CASE tasks'[t].state = tasks[t].state  BY <1>2, <2>1 DEF StoreInv
  <2>2. CASE tasks'[t].state = "LEASED"  BY <2>2
  <2>3. CASE Retry(w) /\ t = Held(w)
    <3>1. artifacts[t] = 0  BY <2>3 DEF Retry, StoreInv, Unregistered
    <3>2. tasks'[t].state = "PENDING"
      BY <2>3 DEF Retry, RetryTask
    <3> QED  BY <1>2, <3>1, <3>2
  <2>4. CASE Succeed(w) /\ t = Held(w)
    <3>1. artifacts[t] = 1 /\ outputs[t] > 0  BY <2>4 DEF Succeed, StoreInv
    <3>2. tasks'[t].state = "SUCCEEDED"
      BY <2>4 DEF Succeed, UpdateTaskState, TaskRow
    <3> QED  BY <1>2, <3>1, <3>2
  <2>5. CASE (Kill(w) \/ Fail(w)) /\ t = Held(w)
    <3>1. tasks'[t].state \in {"DEAD", "FAILED"}
      BY <2>5 DEF Kill, Fail, UpdateTaskState, FailTaskWithError, TaskRow
    <3> QED  BY <3>1
  <2>6. CASE (Kill(w) \/ Fail(w) \/ Succeed(w) \/ Retry(w)) /\ t # Held(w)
    <3>1. tasks'[t] = tasks[t]  BY <2>6 DEF Kill, Fail, Succeed, Retry
    <3> QED  BY <2>1, <3>1
  <2>7. CASE Claim(w)
    <3>1. tasks'[t] = tasks[t] \/ tasks'[t] = LeaseTask(tasks[t], w)  BY <2>7 DEF Claim
    <3> QED  BY <2>1, <2>2, <3>1 DEF LeaseTask, TaskRow
  <2>8. CASE Heartbeat(w)
    <3>1. tasks'[t] = tasks[t] \/ tasks'[t] = HeartbeatTask(tasks[t], w)  BY <2>8 DEF Heartbeat
    <3> QED  BY <2>1, <3>1 DEF HeartbeatTask, TaskRow
  <2>9. CASE \/ CheckCancelled(w) \/ Start(w) \/ Load(w) \/ Exec(w) \/ Register(w) \/ Credit(w)
             \/ Assess(w) \/ CloseRun(w) \/ CloseJob(w) \/ Announce(w) \/ Decide(w)
             \/ CountFail(w) \/ WorkerCrash(w)
    BY <2>1, <2>9 DEF CheckCancelled, Start, Load, Exec, Register, Credit, Assess, CloseRun,
       CloseJob, Announce, Decide, CountFail, WorkerCrash
  <2> QED
    BY <2>3, <2>4, <2>5, <2>6, <2>7, <2>8, <2>9 DEF WorkerStep
<1> QED  BY <1>1, <1>2, StoreWrites

\* One step without a fault keeps what rows and workers say of the storage.
LEMMA StoreStep ==
  ASSUME LeaseInv, RangeInv, StoreInv, [Next]_vars, faults' = 0
  PROVE  StoreInv'
<1>. /\ TypeInv /\ WorkersOK /\ OwnerInv /\ FreshInv /\ tasks \in [Tasks -> TaskRow]
  BY LeaseTypes
<1>1. ASSUME NEW w \in Workers, WorkerStep(w) \/ WorkerCrash(w) \/ Heartbeat(w)
      PROVE  StoreInv'
  <2>1. ASSUME NEW v \in Workers \ {w}
        PROVE  /\ pc'[v] \in Unregistered => artifacts'[work'[v].task] = 0
               /\ pc'[v] \in {"recheck", "succeed"} => artifacts'[work'[v].task] = 1
               /\ pc'[v] \in {"register", "recheck", "succeed"} => outputs'[work'[v].task] > 0
    <3>1. pc'[v] = pc[v] /\ work'[v] = work[v]  BY <1>1, WorkerMoves
    <3>2. CASE pc[v] \notin Holding
      BY <3>1, <3>2 DEF Unregistered, Holding
    <3>3. CASE pc[v] \in Holding
      <4>1. Held(v) \in Tasks  BY <3>3 DEF WorkersOK
      <4>2. ~(pc[w] \in {"exec", "register"} /\ Held(v) = Held(w))
        BY <3>3, OneOwner DEF Holding
      <4>3. artifacts'[Held(v)] = artifacts[Held(v)] /\ outputs'[Held(v)] = outputs[Held(v)]
        BY <1>1, <4>1, <4>2, StoreWrites
      <4> QED  BY <3>1, <4>3 DEF StoreInv
    <3> QED  BY <3>2, <3>3
  <2> QED  BY <1>1, <2>1, StoreOwn, StoreRows DEF StoreInv
<1>2. CASE \/ SchedulerStep \/ HandlerError \/ SchedulerCrash
           \/ \E j \in Jobs : CancelMark(j) \/ CancelStep(j) \/ CancelError(j)
           \/ CleanupDeadTasks \/ \E u \in Tasks : Expire(u)
  <2>1. UNCHANGED <<workVars, storeVars>>  BY <1>2, OthersFrame
  <2>2. ASSUME NEW t \in Tasks
        PROVE  /\ tasks'[t].state \in {"NONE", "PENDING"} => artifacts[t] = 0
               /\ tasks'[t].state = "SUCCEEDED" => artifacts[t] = 1 /\ outputs[t] > 0
    <3>1. tasks[t] \in TaskRow  OBVIOUS
    <3>2. CASE tasks[t].state = "NONE" /\ tasks'[t] = CreateTask
      BY <3>2 DEF StoreInv, CreateTask, NoTask
    <3>3. CASE tasks'[t] = tasks[t] \/ tasks'[t] = [tasks[t] EXCEPT !.lease = "expired"]
      <4>1. tasks'[t].state = tasks[t].state  BY <3>1, <3>3 DEF TaskRow
      <4> QED  BY <4>1 DEF StoreInv
    <3> QED  BY <1>2, <3>2, <3>3, OtherWrites
  <2> QED  BY <2>1, <2>2 DEF StoreInv
<1>3. CASE UNCHANGED vars  BY <1>3 DEF vars, StoreInv
<1>4. Next => ~\E w \in Workers : WorkerError(w)  BY NoFault
<1> QED  BY <1>1, <1>2, <1>3, <1>4 DEF Next

\* The count a worker has just increased is still there when it looks.
LEMMA DoneStays ==
  ASSUME LeaseInv, Next, NEW r \in Runs, NEW i \in Partitions,
         tasks[<<r, i>>].state # "NONE", runs[r].done > 0
  PROVE  runs'[r].done > 0
<1>1. r # created + 1
  <2>1. ~(r > created)  BY LeaseTypes DEF FreshInv
  <2> QED  BY <2>1, LeaseTypes, ConstantsAssumption
<1>2. runs[r] \in RunRow(Jobs \cup {NoOne})  BY LeaseTypes
<1>3. \/ runs'[r] = runs[r]
      \/ runs'[r] = UpdateRunTasksTotal(runs[r], NumPartitions)
      \/ runs'[r] = InitRunProgress(runs[r]) \/ runs'[r] = TaskStarted(runs[r])
      \/ runs'[r] = UpdateRunState(runs[r], "CANCELLED")
      \/ \E s : runs'[r] = CompleteRun(runs[r], s)
      \/ runs'[r] = TaskSucceeded(runs[r]) \/ runs'[r] = TaskFailed(runs[r])
  BY <1>1, RunWrites
<1>4. runs'[r].done \in {runs[r].done, runs[r].done + 1}
  BY <1>2, <1>3 DEF RunRow, UpdateRunTasksTotal, InitRunProgress, TaskStarted, UpdateRunState,
     CompleteRun, TaskSucceeded, TaskFailed
<1>5. runs[r].done \in Nat  BY <1>2 DEF RunRow
<1> QED  BY <1>4, <1>5

\* Without faults, a worker looks at the counters after it counted its task.
LEMMA AssessMoves ==
  ASSUME TypeInv, NEW w \in Workers, WorkerStep(w) \/ WorkerCrash(w) \/ Heartbeat(w),
         pc'[w] = "assess"
  PROVE  Credit(w) \/ (pc[w] = "assess" /\ work'[w] = work[w])
<1>. WorkersOK  BY DEF TypeInv, TypeOK
<1>1. CASE Heartbeat(w)  BY <1>1 DEF Heartbeat
<1>2. CASE ~Credit(w) /\ (WorkerStep(w) \/ WorkerCrash(w))
  BY <1>2 DEF WorkersOK, WorkerStep, Claim, CheckCancelled, Kill, Start, Load,
     Exec, Register, Succeed, Assess, CloseRun, CloseJob, Announce, Decide, Retry,
     Fail, CountFail, WorkerCrash
<1> QED  BY <1>1, <1>2

\* One step without a fault keeps runs from being closed on nothing.
LEMMA CloseStep ==
  ASSUME LeaseInv, CountInv, ClosedInv, CloseInv, [Next]_vars, faults' = 0
  PROVE  CloseInv'
<1>. /\ TypeInv /\ WorkersOK /\ OwnerInv /\ runs \in [Runs -> RunRow(Jobs \cup {NoOne})]
  BY LeaseTypes
<1>1. CASE UNCHANGED vars
  BY <1>1 DEF vars, CloseInv, Won, Settled, Through
<1>2. CASE Next
  <2>1. ASSUME NEW v \in Workers, pc[v] = "assess", work'[v] = work[v]
        PROVE  runs'[RunOf(work'[v].task)].done > 0
    <3>1. PICK r \in Runs, i \in Partitions : Held(v) = <<r, i>>
      BY <2>1 DEF WorkersOK, Leaving, Tasks
    <3>2. tasks[<<r, i>>].state # "NONE"  BY <2>1, <3>1 DEF OwnerInv, Leaving
    <3>3. runs[r].done > 0  BY <2>1, <3>1 DEF CloseInv
    <3> QED  BY <1>2, <2>1, <3>1, <3>2, <3>3, DoneStays
  <2>2. ASSUME NEW v \in Workers, Credit(v)
        PROVE  runs'[RunOf(work'[v].task)].done > 0
    <3>. DEFINE r == RunOf(Held(v))
    <3>1. r \in Runs /\ work' = work  BY <2>2 DEF Credit, WorkersOK, Leaving, Tasks
    <3>2. runs'[r] = TaskSucceeded(runs[r])  BY <2>2, <3>1 DEF Credit
    <3>3. runs[r] \in RunRow(Jobs \cup {NoOne})  BY <3>1
    <3>4. runs'[r].done = runs[r].done + 1 /\ runs[r].done \in Nat
      BY <3>2, <3>3 DEF TaskSucceeded, RunRow
    <3> QED  BY <3>1, <3>4
  <2>3. ASSUME NEW v \in Workers, Assess(v), AllDone(runs[RunOf(Held(v))]),
               pc'[v] \in {"closeRun", "closeJob"}
        PROVE  work'[v].total > 0
    <3>. DEFINE r == RunOf(Held(v))
    <3>1. r \in Runs /\ work'[v].total = runs[r].total
      BY <2>3 DEF Assess, WorkersOK, Leaving, Tasks, Work
    <3>2. runs[r].done > 0  BY <2>3 DEF Assess, CloseInv
    <3>3. runs[r].done \in Nat /\ runs[r].failed \in Nat  BY <3>1 DEF RunRow
    <3> QED  BY <2>3, <3>1, <3>2, <3>3 DEF AllDone
  <2>4. ASSUME NEW v \in Workers
        PROVE  /\ pc'[v] = "assess" => runs'[RunOf(work'[v].task)].done > 0
               /\ pc'[v] \in {"closeRun", "closeJob"} => work'[v].total > 0
    <3>1. CASE pc'[v] = pc[v] /\ work'[v] = work[v]
      BY <2>1, <3>1 DEF CloseInv
    <3>2. ASSUME NEW w \in Workers, WorkerStep(w) \/ WorkerCrash(w) \/ Heartbeat(w)
          PROVE  /\ pc'[v] = "assess" => runs'[RunOf(work'[v].task)].done > 0
                 /\ pc'[v] \in {"closeRun", "closeJob"} => work'[v].total > 0
      <4>1. CASE v # w  BY <3>1, <3>2, <4>1, WorkerMoves
      <4>2. CASE v = w
        <5>1. pc'[v] = "assess" => runs'[RunOf(work'[v].task)].done > 0
          BY <2>1, <2>2, <3>2, <4>2, AssessMoves
        <5>2. pc'[v] \in {"closeRun", "closeJob"} =>
                 \/ pc[v] \in {"closeRun", "closeJob"} /\ work'[v] = work[v]
                 \/ Assess(v) /\ AllDone(runs[RunOf(Held(v))])
          BY <3>2, <4>2, ClosingMoves
        <5> QED  BY <2>3, <5>1, <5>2 DEF CloseInv
      <4> QED  BY <4>1, <4>2
    <3>3. CASE \/ SchedulerStep \/ HandlerError \/ SchedulerCrash
               \/ \E j \in Jobs : CancelMark(j) \/ CancelStep(j) \/ CancelError(j)
               \/ CleanupDeadTasks \/ \E u \in Tasks : Expire(u)
      BY <3>1, <3>3, OthersFrame
    <3>4. ~\E w \in Workers : WorkerError(w)  BY <1>2, NoFault
    <3> QED  BY <1>2, <3>2, <3>3, <3>4 DEF Next
  <2>5. ASSUME NEW r \in Runs, runs'[r].state = "SUCCEEDED", NEW i \in Partitions
        PROVE  <<r, i>> \in Won(r)'
    <3>1. Won(r) \subseteq Won(r)'  BY SettledGrows
    <3>2. runs[r] \in RunRow(Jobs \cup {NoOne})  OBVIOUS
    <3>3. CASE runs'[r].state = runs[r].state
      BY <2>5, <3>1, <3>3 DEF CloseInv
    <3>4. ASSUME NEW w \in Workers, CloseRun(w), RunOf(Held(w)) = r,
                 runs'[r] = CompleteRun(runs[r], work[w].verdict)
          PROVE  <<r, i>> \in Won(r)'
      <4>1. pc[w] = "closeRun" /\ work[w].total > 0  BY <3>4 DEF CloseRun, CloseInv
      <4>2. work[w].verdict = "SUCCEEDED"
        BY <2>5, <3>2, <3>4 DEF CompleteRun, RunRow
      <4>3. <<r, i>> \in Won(r)  BY <3>4, <4>1, <4>2 DEF ClosedInv
      <4> QED  BY <3>1, <4>3
    <3>5. runs'[r] # CreateRun(sched.job) /\ runs'[r] # UpdateRunState(runs[r], "CANCELLED")
      BY <2>5, <3>2 DEF CreateRun, NoRun, UpdateRunState, RunRow
    <3>6. \/ runs'[r] = UpdateRunTasksTotal(runs[r], NumPartitions)
          \/ runs'[r] = InitRunProgress(runs[r]) \/ runs'[r] = TaskStarted(runs[r])
          \/ runs'[r] = TaskSucceeded(runs[r]) \/ runs'[r] = TaskFailed(runs[r])
          => runs'[r].state = runs[r].state
      BY <3>2 DEF RunRow, UpdateRunTasksTotal, InitRunProgress, TaskStarted, TaskSucceeded,
         TaskFailed
    <3> QED  BY <1>2, <3>3, <3>4, <3>5, <3>6, RunWrites
  <2> QED  BY <2>4, <2>5 DEF CloseInv
<1> QED  BY <1>1, <1>2

\* The invariants of leasing, counting, closing and slicing, and, as long as
\* nothing has failed, of storing.
LEMMA StoreInvariant ==
  Spec => [](LeaseInv /\ CountInv /\ ClosedInv /\ RangeInv /\ FaultFreeInv)
<1>1. Init => FaultFreeInv
  BY NewRows
  DEF Init, FaultFreeInv, StoreInv, CloseInv, NoTask, NoRun, Unregistered, Tasks
<1>2. LeaseInv /\ CountInv /\ ClosedInv /\ RangeInv /\ FaultFreeInv /\ [Next]_vars
        => FaultFreeInv'
  <2> SUFFICES ASSUME LeaseInv, CountInv, ClosedInv, RangeInv, FaultFreeInv, [Next]_vars,
                      faults' = 0
               PROVE  StoreInv' /\ CloseInv'
    BY DEF FaultFreeInv
  <2>1. faults = 0  BY NoFault, LeaseTypes DEF vars
  <2> QED  BY <2>1, StoreStep, CloseStep DEF FaultFreeInv
<1> QED  BY <1>1, <1>2, RangeInvariant, PTL DEF Spec

\* As long as no statement has failed, a run that says SUCCEEDED has every
\* partition done, its output stored and its artifact registered exactly once,
\* through every crash, retry and cancellation.
THEOREM SucceededRunsAreComplete == Spec => []SucceededRunComplete
<1>1. FaultFreeInv => SucceededRunComplete
  BY DEF FaultFreeInv, StoreInv, CloseInv, SucceededRunComplete, Won, Settled, Tasks
<1> QED  BY <1>1, StoreInvariant, PTL

\* RowsProcessedOnce for datasets of every size, not only those TLC tries.
AnyRowProcessedOnce ==
    \A r \in Runs :
        LET done == {i \in Partitions : outputs[<<r, i>>] > 0}
        IN  faults = 0 /\ runs[r].state = "SUCCEEDED"
              /\ (\A i \in done : outputs[<<r, i>>] = NumPartitions)
            => \A rows \in Nat : \A row \in 0..(rows - 1) :
                  Cardinality({i \in done : row \in Slice(i, outputs[<<r, i>>], rows)}) = 1

\* As long as no statement has failed, the outputs of a SUCCEEDED run hold
\* every row of the dataset once, however many rows it has, if its subprocesses
\* agreed on the number of slices.
THEOREM AnyRowIsProcessedOnce == Spec => []AnyRowProcessedOnce
<1>1. SucceededRunComplete => AnyRowProcessedOnce
  <2> SUFFICES ASSUME SucceededRunComplete, faults = 0, NEW r \in Runs,
                      runs[r].state = "SUCCEEDED",
                      \A i \in {k \in Partitions : outputs[<<r, k>>] > 0} :
                         outputs[<<r, i>>] = NumPartitions,
                      NEW rows \in Nat, NEW row \in 0..(rows - 1)
               PROVE  Cardinality({i \in {k \in Partitions : outputs[<<r, k>>] > 0} :
                                     row \in Slice(i, outputs[<<r, i>>], rows)}) = 1
    BY DEF AnyRowProcessedOnce
  <2>1. \A i \in Partitions : outputs[<<r, i>>] > 0 /\ outputs[<<r, i>>] = NumPartitions
    BY DEF SucceededRunComplete
  <2>2. PICK i \in Partitions :
           /\ row \in Slice(i, NumPartitions, rows)
           /\ \A j \in Partitions : row \in Slice(j, NumPartitions, rows) => j = i
    BY SlicesPartitionRows, ConstantsAssumption DEF Partitions
  <2>3. {k \in {l \in Partitions : outputs[<<r, l>>] > 0} :
            row \in Slice(k, outputs[<<r, k>>], rows)} = {i}
    BY <2>1, <2>2
  <2> QED  BY <2>3, FS_Singleton
<1> QED  BY <1>1, SucceededRunsAreComplete, PTL

\* In particular the sizes the runs try: fewer rows than slices, and every
\* remainder.
THEOREM RowsAreProcessedOnce == Spec => []RowsProcessedOnce
<1>1. AnyRowProcessedOnce => RowsProcessedOnce
  <2>1. 0..(2 * NumPartitions) \subseteq Nat  BY ConstantsAssumption
  <2> QED  BY <2>1 DEF AnyRowProcessedOnce, RowsProcessedOnce
<1> QED  BY <1>1, AnyRowIsProcessedOnce, PTL
=============================================================================
