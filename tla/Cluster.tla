------------------------------- MODULE Cluster -------------------------------
(***************************************************************************)
(* The workers as Kubernetes runs them: the autoscaler's evaluation, call  *)
(* by call, against a deployment that an operator may scale as well; the   *)
(* pods, each polling the task queue through its circuit breaker while the *)
(* database comes and goes; and what the scheduler does to the cluster at  *)
(* the end of HandleJobSubmitted, with calls that fail.                    *)
(*                                                                         *)
(* Tasks are alike here, so the queue is a number.  What becomes of a task *)
(* in a worker's hands is RunExecution's subject: a worker that dies, by a *)
(* crash or because its pod is stopped, leaves a row LEASED for ever.      *)
(***************************************************************************)
EXTENDS Integers, FiniteSets

CONSTANTS Workspaces, Namespaces, NoOne,
          NamespaceOf,   \* the first eight digits of a workspace's id name it
          MinWorkers, MaxWorkers,                  \* 1 and 10
          ScaleUpThreshold, ScaleDownThreshold,    \* 3 and 0 pending tasks
          FailureThreshold,                        \* 3 failures in a row
          NumPartitions,                           \* tasks per run
          MaxReplicas,   \* bound: replicas an operator asks for
          MaxRuns,       \* bound: job.submitted events handled
          MaxTrouble     \* bound: failed calls, crashes, retried tasks,
                         \* operator's changes and outages together

ASSUME ClusterAssumption ==
    /\ NoOne \notin Namespaces
    /\ NamespaceOf \in [Workspaces -> Namespaces]
    /\ MinWorkers \in Nat /\ MaxWorkers \in Nat /\ MinWorkers <= MaxWorkers
    /\ MaxReplicas \in Nat /\ MaxWorkers <= MaxReplicas
    /\ ScaleUpThreshold \in Nat /\ ScaleDownThreshold \in Nat
    /\ FailureThreshold \in Nat \ {0}
    /\ NumPartitions \in Nat /\ MaxRuns \in Nat
    /\ MaxTrouble \in Nat

VARIABLES pending,     \* rows of tasks that are PENDING
          abandoned,   \* rows LEASED by a worker that is gone
          pods,        \* the deployment's pods: the worker, its breaker
          jobPods,     \* workers of the Kubernetes Jobs: all, and those busy
          up,          \* the database answers
          replicas,    \* spec.replicas of the deployment
          scaler,      \* evaluate: program counter and local variables
          cooling,     \* lastScaleAt is less than CooldownSeconds ago
          sched,       \* the scheduler's calls of the cluster
          isolation,   \* what exists of each namespace
          runs,        \* job.submitted events handled
          faults,      \* failed calls, crashes, retried tasks
          operated,    \* an operator's changes of the deployment
          outages,     \* of the database
          missed,      \* history: the deployment changed after evaluate read it
          downs,       \* history: updates that took a replica away
          spoiled      \* history: namespaces some call for which failed

taskVars   == <<pending, abandoned, pods, jobPods>>
scalerVars == <<scaler, cooling, missed, downs>>
schedVars  == <<sched, isolation, runs, spoiled>>
events     == <<operated, outages>>
vars       == <<taskVars, up, replicas, scalerVars, schedVars, faults, events>>

Pods == 1..MaxReplicas
Parts == {"namespace", "policy", "quota"}

Off == [state |-> "off", breaker |-> "closed", failures |-> 0]
Fresh == [state |-> "idle", breaker |-> "closed", failures |-> 0]

On == {p \in Pods : pods[p].state # "off"}
Busy == {p \in Pods : pods[p].state = "busy"}
Leased == Cardinality(Busy) + jobPods.busy + abandoned

Resting == [pc |-> "tick", pending |-> 0, running |-> 0, replicas |-> 0, target |-> 0,
            conflict |-> FALSE]
Waiting == [pc |-> "consuming", namespace |-> NoOne]

TypeOK ==
    /\ pending \in Nat /\ abandoned \in Nat
    /\ pods \in [Pods -> [state : {"off", "idle", "busy"},
                          breaker : {"closed", "open", "halfOpen"},
                          failures : 0..(FailureThreshold - 1)]]
    /\ jobPods \in [all : Nat, busy : Nat] /\ jobPods.busy <= jobPods.all
    /\ up \in BOOLEAN
    /\ replicas \in 0..MaxReplicas
    /\ scaler \in [pc : {"tick", "running", "replicas", "get", "update"},
                   pending : Nat, running : Nat, replicas : 0..MaxReplicas,
                   target : 0..MaxReplicas, conflict : BOOLEAN]
    /\ cooling \in BOOLEAN
    /\ sched \in [pc : {"consuming", "find", "create", "policy", "quota", "job"},
                  namespace : Namespaces \cup {NoOne}]
    /\ sched.pc # "consuming" => sched.namespace \in Namespaces
    /\ isolation \in [Namespaces -> SUBSET Parts]
    /\ runs \in Nat /\ faults \in Nat /\ operated \in Nat /\ outages \in Nat
    /\ missed \in BOOLEAN /\ downs \in Nat /\ spoiled \subseteq Namespaces

Init ==
    /\ pending = 0 /\ abandoned = 0
    /\ replicas = MinWorkers
    /\ pods = [p \in Pods |-> IF p <= MinWorkers THEN Fresh ELSE Off]
    /\ jobPods = [all |-> 0, busy |-> 0]
    /\ up = TRUE
    /\ scaler = Resting
    /\ cooling = FALSE
    /\ sched = Waiting
    /\ isolation = [n \in Namespaces |-> {}]
    /\ runs = 0 /\ faults = 0 /\ operated = 0 /\ outages = 0
    /\ missed = FALSE /\ downs = 0 /\ spoiled = {}

Calm  == faults + operated + outages < MaxTrouble
Fault == Calm /\ faults' = faults + 1

(***************************************************************************)
(* The autoscaler: evaluate, every ten seconds.  The two counts, the two   *)
(* reads of the deployment and its update are five calls.  The update      *)
(* carries the version that SetWorkerReplicas read and is refused if it is *)
(* not the last one.                                                       *)
(***************************************************************************)
At(p) == scaler.pc = p
Go(p) == [scaler EXCEPT !.pc = p]
OtherThanScaler == <<taskVars, up, schedVars, faults, events>>

GetPendingTaskCount ==
    /\ At("tick") /\ up
    /\ scaler' = [Resting EXCEPT !.pc = "running", !.pending = pending]
    /\ UNCHANGED <<OtherThanScaler, replicas, cooling, missed, downs>>

\* The two counts are metrics as well, so the cooldown is looked at after them.
GetRunningTaskCount ==
    /\ At("running")
    /\ scaler' = IF cooling \/ ~up
                 THEN Resting
                 ELSE [scaler EXCEPT !.pc = "replicas", !.running = Leased]
    /\ UNCHANGED <<OtherThanScaler, replicas, cooling, missed, downs>>

\* Variants: one replica too many; no new worker while others work; never at
\* the threshold itself.
ScaleUpAtMax == scaler.pending > ScaleUpThreshold /\ replicas <= MaxWorkers
ScaleUpWhenQuiet == /\ scaler.pending > ScaleUpThreshold /\ scaler.running = 0
                    /\ replicas < MaxWorkers
ScaleDownStrict == /\ scaler.pending < ScaleDownThreshold
                    /\ scaler.running = 0
                    /\ replicas > MinWorkers

ScaleUp == scaler.pending > ScaleUpThreshold /\ replicas < MaxWorkers
ScaleDown == /\ scaler.pending <= ScaleDownThreshold
             /\ scaler.running = 0
             /\ replicas > MinWorkers

GetWorkerReplicas ==
    /\ At("replicas")
    /\ scaler' = IF ScaleUp \/ ScaleDown
                 THEN [Resting EXCEPT !.pc = "get", !.replicas = replicas,
                                      !.target = IF ScaleUp THEN replicas + 1 ELSE replicas - 1]
                 ELSE Resting
    /\ missed' = FALSE
    /\ UNCHANGED <<OtherThanScaler, replicas, cooling, downs>>

GetDeployment ==
    /\ At("get")
    /\ scaler' = Go("update")
    /\ UNCHANGED <<OtherThanScaler, replicas, cooling, missed, downs>>

Counted == downs' = IF scaler.target < scaler.replicas THEN downs + 1 ELSE downs

\* Variant: the update does not carry a version.
UpdateDeploymentForced ==
    /\ At("update")
    /\ scaler' = Resting
    /\ replicas' = scaler.target
    /\ cooling' = TRUE
    /\ Counted
    /\ UNCHANGED <<OtherThanScaler, missed>>

\* A conflict is an error like any other: no cooldown begins.
UpdateDeployment ==
    /\ At("update")
    /\ scaler' = Resting
    /\ IF scaler.conflict
       THEN UNCHANGED <<replicas, cooling, downs>>
       ELSE replicas' = scaler.target /\ cooling' = TRUE /\ Counted
    /\ UNCHANGED <<OtherThanScaler, missed>>

\* A call fails and the evaluation is over; the update may have taken effect.
ScalerError ==
    /\ Fault
    /\ scaler' = Resting
    /\ \/ ~At("tick") /\ UNCHANGED replicas
       \/ At("update") /\ ~scaler.conflict /\ replicas' = scaler.target
    /\ UNCHANGED <<taskVars, up, schedVars, cooling, missed, downs, events>>

\* The process starts again and knows nothing of its last scaling.
ScalerCrash ==
    /\ Fault
    /\ scaler' = Resting /\ cooling' = FALSE
    /\ UNCHANGED <<taskVars, up, replicas, schedVars, missed, downs, events>>

CooldownEnds ==
    /\ cooling /\ cooling' = FALSE
    /\ UNCHANGED <<taskVars, up, replicas, scaler, missed, downs, schedVars, faults, events>>

\* kubectl scale, or another autoscaler.
OperatorScales(n) ==
    /\ Calm /\ operated' = operated + 1
    /\ n # replicas /\ replicas' = n
    /\ missed' = At("get")
    /\ scaler' = [scaler EXCEPT !.conflict = At("update")]
    /\ UNCHANGED <<taskVars, up, cooling, downs, schedVars, faults, outages>>

Evaluate == \/ GetPendingTaskCount \/ GetRunningTaskCount \/ GetWorkerReplicas
            \/ GetDeployment \/ UpdateDeployment

(***************************************************************************)
(* The pods of the deployment, which Kubernetes starts and stops, and the  *)
(* polling of the workers in them.  The breaker opens after               *)
(* FailureThreshold failed polls in a row; open, it answers the polls      *)
(* itself, until it lets one through after 30 seconds.                     *)
(***************************************************************************)
OtherThanPods == <<up, replicas, scalerVars, schedVars, events>>

Set(p, new) == pods' = [pods EXCEPT ![p] = new]

\* The worker in p is gone; the row of its task stays LEASED.
Abandons(p) ==
    /\ abandoned' = abandoned + (IF p \in Busy THEN 1 ELSE 0)
    /\ UNCHANGED <<pending, jobPods>>

StartPod(p) ==
    /\ Cardinality(On) < replicas /\ p \notin On
    /\ Set(p, Fresh)
    /\ UNCHANGED <<pending, abandoned, jobPods, OtherThanPods, faults>>

StopPod(p) ==
    /\ Cardinality(On) > replicas /\ p \in On
    /\ Set(p, Off) /\ Abandons(p)
    /\ UNCHANGED <<OtherThanPods, faults>>

PodCrash(p) ==
    /\ Fault
    /\ p \in On
    /\ Set(p, Fresh) /\ Abandons(p)
    /\ UNCHANGED OtherThanPods

\* Variant: no poll is let through while the breaker is half open.
LeaseWhenClosed(p) ==
    /\ pods[p].state = "idle" /\ pods[p].breaker = "closed"
    /\ up
    /\ IF pending > 0
       THEN Set(p, [Fresh EXCEPT !.state = "busy"]) /\ pending' = pending - 1
       ELSE Set(p, Fresh) /\ UNCHANGED pending
    /\ UNCHANGED <<abandoned, jobPods, OtherThanPods, faults>>

\* The breaker forgets the failures on every success, and closes if it was
\* letting one poll through.
Lease(p) ==
    /\ pods[p].state = "idle" /\ pods[p].breaker # "open"
    /\ up
    /\ IF pending > 0
       THEN Set(p, [Fresh EXCEPT !.state = "busy"]) /\ pending' = pending - 1
       ELSE Set(p, Fresh) /\ UNCHANGED pending
    /\ UNCHANGED <<abandoned, jobPods, OtherThanPods, faults>>

\* Variant: the breaker opens one failure too late.
FailedOnceMore(b) ==
    IF b.breaker = "halfOpen" \/ b.failures + 1 > FailureThreshold
    THEN [b EXCEPT !.breaker = "open", !.failures = 0]
    ELSE [b EXCEPT !.failures = @ + 1]

Failed(b) ==
    IF b.breaker = "halfOpen" \/ b.failures + 1 >= FailureThreshold
    THEN [b EXCEPT !.breaker = "open", !.failures = 0]
    ELSE [b EXCEPT !.failures = @ + 1]

LeaseFails(p) ==
    /\ pods[p].state = "idle" /\ pods[p].breaker # "open"
    /\ ~up
    /\ Set(p, Failed(pods[p]))
    /\ UNCHANGED <<pending, abandoned, jobPods, OtherThanPods, faults>>

BreakerHalfOpens(p) ==
    /\ pods[p].breaker = "open"
    /\ Set(p, [pods[p] EXCEPT !.breaker = "halfOpen"])
    /\ UNCHANGED <<pending, abandoned, jobPods, OtherThanPods, faults>>

\* A closed breaker starts counting again every 30 seconds.
BreakerInterval(p) ==
    /\ pods[p].breaker = "closed" /\ pods[p].failures > 0
    /\ Set(p, [pods[p] EXCEPT !.failures = 0])
    /\ UNCHANGED <<pending, abandoned, jobPods, OtherThanPods, faults>>

\* What a worker does last with a task: it is done, one way or another; put
\* back for a retry; or the statement that should have said so fails, and the
\* row stays LEASED.
Settle ==
    \/ up /\ UNCHANGED <<pending, abandoned, faults>>
    \/ up /\ Fault /\ pending' = pending + 1 /\ UNCHANGED abandoned
    \/ up /\ Fault /\ abandoned' = abandoned + 1 /\ UNCHANGED pending
    \/ ~up /\ abandoned' = abandoned + 1 /\ UNCHANGED <<pending, faults>>

\* Variant: a task that should be put back is not.
FinishForgets(p) ==
    /\ p \in Busy
    /\ Set(p, Fresh)
    /\ up
    /\ \/ UNCHANGED <<abandoned, faults>>
       \/ abandoned' = abandoned + 1 /\ UNCHANGED faults
    /\ UNCHANGED <<pending, jobPods, OtherThanPods>>

Finish(p) ==
    /\ p \in Busy
    /\ Set(p, Fresh)
    /\ Settle
    /\ UNCHANGED <<jobPods, OtherThanPods>>

Poll(p) == Lease(p) \/ LeaseFails(p)

\* The workers of the Kubernetes Jobs run the same loop.
JobPodLeases ==
    /\ up /\ pending > 0 /\ jobPods.busy < jobPods.all
    /\ pending' = pending - 1
    /\ jobPods' = [jobPods EXCEPT !.busy = @ + 1]
    /\ UNCHANGED <<abandoned, pods, OtherThanPods, faults>>

JobPodFinishes ==
    /\ jobPods.busy > 0
    /\ jobPods' = [jobPods EXCEPT !.busy = @ - 1]
    /\ Settle
    /\ UNCHANGED <<pods, OtherThanPods>>

\* The Job starts another pod in its place.
JobPodCrash ==
    /\ Fault
    /\ jobPods.busy > 0
    /\ jobPods' = [jobPods EXCEPT !.busy = @ - 1]
    /\ abandoned' = abandoned + 1
    /\ UNCHANGED <<pending, pods, OtherThanPods>>

Outage ==
    /\ Calm /\ outages' = outages + 1
    /\ up /\ up' = FALSE
    /\ UNCHANGED <<taskVars, replicas, scalerVars, schedVars, faults, operated>>

Recovery ==
    /\ ~up /\ up' = TRUE
    /\ UNCHANGED <<taskVars, replicas, scalerVars, schedVars, faults, events>>

(***************************************************************************)
(* The scheduler: the tasks of a run, then EnsureNamespace and             *)
(* CreateWorkerJob, whose errors are only logged.                          *)
(***************************************************************************)
OtherThanSched == <<abandoned, pods, up, replicas, scalerVars, events>>

Proceed(from, to) == sched.pc = from /\ sched' = [sched EXCEPT !.pc = to]
Has(part) == part \in isolation[sched.namespace]
Make(part) == isolation' = [isolation EXCEPT ![sched.namespace] = @ \cup {part}]

InsertTasks(w) ==
    /\ up /\ sched.pc = "consuming"
    /\ runs < MaxRuns /\ runs' = runs + 1
    /\ pending' = pending + NumPartitions
    /\ sched' = [pc |-> "find", namespace |-> NamespaceOf[w]]
    /\ UNCHANGED <<OtherThanSched, jobPods, isolation, spoiled, faults>>

\* A namespace that exists is taken for a complete one.
GetNamespace ==
    /\ Proceed("find", IF Has("namespace") THEN "job" ELSE "create")
    /\ UNCHANGED <<OtherThanSched, pending, jobPods, isolation, runs, spoiled, faults>>

\* "Already exists" is an error here: EnsureNamespace returns.
CreateNamespace ==
    /\ Proceed("create", IF Has("namespace") THEN "job" ELSE "policy")
    /\ Make("namespace")
    /\ UNCHANGED <<OtherThanSched, pending, jobPods, runs, spoiled, faults>>

\* Variant: EnsureNamespace returns after the policy.
ApplyNetworkPolicyReturns ==
    /\ Proceed("policy", "job")
    /\ Make("policy")
    /\ UNCHANGED <<OtherThanSched, pending, jobPods, runs, spoiled, faults>>

ApplyNetworkPolicy ==
    /\ Proceed("policy", "quota")
    /\ Make("policy")
    /\ UNCHANGED <<OtherThanSched, pending, jobPods, runs, spoiled, faults>>

ApplyResourceQuota ==
    /\ Proceed("quota", "job")
    /\ Make("quota")
    /\ UNCHANGED <<OtherThanSched, pending, jobPods, runs, spoiled, faults>>

\* Nothing ever deletes the Job, and its workers poll for ever.
CreateWorkerJob ==
    /\ sched.pc = "job" /\ sched' = Waiting
    /\ jobPods' = [jobPods EXCEPT !.all = @ + NumPartitions]
    /\ UNCHANGED <<OtherThanSched, pending, isolation, runs, spoiled, faults>>

\* A call that fails, whether or not it took effect.  A namespace that cannot
\* be read is taken for a missing one; only a failed creation ends
\* EnsureNamespace, the policy and the quota are tried independently.
ClusterCallFails ==
    /\ Fault
    /\ \/ Proceed("find", "create") /\ UNCHANGED <<isolation, spoiled>>
       \/ /\ Proceed("create", "job")
          /\ Make("namespace") \/ UNCHANGED isolation
          /\ spoiled' = spoiled \cup {sched.namespace}
       \/ /\ \/ Proceed("policy", "quota") /\ (Make("policy") \/ UNCHANGED isolation)
             \/ Proceed("quota", "job") /\ (Make("quota") \/ UNCHANGED isolation)
          /\ spoiled' = spoiled \cup {sched.namespace}
       \/ sched.pc = "job" /\ sched' = Waiting /\ UNCHANGED <<isolation, spoiled>>
    /\ UNCHANGED <<OtherThanSched, pending, jobPods, runs>>

SchedulerCrash ==
    /\ Fault
    /\ sched.pc # "consuming"
    /\ sched' = Waiting
    /\ spoiled' = spoiled \cup (IF sched.pc \in {"policy", "quota"} THEN {sched.namespace} ELSE {})
    /\ UNCHANGED <<OtherThanSched, pending, jobPods, isolation, runs>>

HandleJobSubmitted ==
    \/ GetNamespace \/ CreateNamespace \/ ApplyNetworkPolicy \/ ApplyResourceQuota
    \/ CreateWorkerJob

Next ==
    \/ Evaluate \/ ScalerError \/ ScalerCrash \/ CooldownEnds
    \/ \E n \in 0..MaxReplicas : OperatorScales(n)
    \/ \E p \in Pods : \/ StartPod(p) \/ StopPod(p) \/ PodCrash(p) \/ Poll(p) \/ Finish(p)
                       \/ BreakerHalfOpens(p) \/ BreakerInterval(p)
    \/ JobPodLeases \/ JobPodFinishes \/ JobPodCrash \/ Outage \/ Recovery
    \/ \E w \in Workspaces : InsertTasks(w)
    \/ HandleJobSubmitted \/ ClusterCallFails \/ SchedulerCrash

Spec == Init /\ [][Next]_vars

(***************************************************************************)
(* Tickers tick, cooldowns and the breaker's timeouts run out, Kubernetes  *)
(* starts pods, workers poll, an outage ends.  A task may take for ever.   *)
(***************************************************************************)
Fairness ==
    /\ WF_vars(Evaluate) /\ WF_vars(CooldownEnds) /\ WF_vars(Recovery)
    /\ \A p \in Pods :
          WF_vars(StartPod(p)) /\ WF_vars(Poll(p)) /\ WF_vars(BreakerHalfOpens(p))

FairSpec == Spec /\ Fairness

-----------------------------------------------------------------------------
\* The autoscaler alone never leaves its bounds, although it compares one
\* reading and writes after another, whatever fails; what an operator does may.
ReplicasInBounds == operated = 0 => replicas \in MinWorkers..MaxWorkers

\* An update changes what evaluate saw by one, and overrules an operator only
\* when he scaled between the two reads of the deployment: the version that is
\* sent along was read after the value the decision was taken on.
OverrulesOnlyUnseen ==
    [][UpdateDeployment /\ replicas' # replicas =>
          \/ missed
          \/ replicas' \in {replicas - 1, replicas + 1}]_vars

\* A scale-down, decided on a count of running tasks that is old by the time
\* Kubernetes stops a pod, costs one task at most: as long as no operator
\* scales and the database answers, each row that stays LEASED with nobody at
\* work on it is charged to an update that took a replica away, a failed call
\* or a crash, and each of these once.
StrandedRowsCharged == operated = 0 /\ outages = 0 => abandoned <= downs + faults

\* A namespace has its network policy and its quota as well, except while
\* EnsureNamespace is at it and where one of its calls failed or the scheduler
\* stopped in between: that is never made up for, since the next call of
\* EnsureNamespace, for whichever workspace, finds the namespace and returns.
IsolationComplete ==
    \A n \in Namespaces :
        "namespace" \in isolation[n] /\ n \notin spoiled =>
            \/ isolation[n] = Parts
            \/ sched.namespace = n /\ sched.pc \in {"policy", "quota"}

\* While tasks take their time, a backlog above the threshold does not stay
\* without more workers: in the end it is gone, or the limit is reached.
BacklogScales == []<>(pending <= ScaleUpThreshold \/ replicas >= MaxWorkers)

\* An idle fleet shrinks to its minimum.  One row that a dead worker left
\* LEASED counts as running, and the fleet never shrinks again.
IdleShrinks ==
    []<>(pending > ScaleDownThreshold \/ Leased > 0 \/ replicas <= MinWorkers)

\* After an outage every breaker lets polls through again: no pod stays idle
\* beside a waiting task.
PollingResumes == []<>(pending = 0 \/ On \subseteq Busy)
=============================================================================
