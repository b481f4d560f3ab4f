---------------------------- MODULE ClusterProofs ----------------------------
(***************************************************************************)
(* Theorems about Cluster, for every number of workspaces, replicas,       *)
(* partitions, runs and failures and all thresholds: its types, the bounds *)
(* and the care of the autoscaler, the rows its scaling down strands, and  *)
(* the isolation of the namespaces.                                        *)
(***************************************************************************)
EXTENDS Cluster, FiniteSetTheorems, TLAPS

(***************************************************************************)
(* Types.                                                                  *)
(***************************************************************************)
LEMMA PodsFinite ==
  ASSUME TypeOK
  PROVE  /\ IsFiniteSet(Busy) /\ Cardinality(Busy) \in Nat
         /\ Busy \subseteq Pods /\ On \subseteq Pods
<1>1. IsFiniteSet(Pods)
  BY FS_Interval, ClusterAssumption DEF Pods
<1>2. Busy \subseteq Pods /\ On \subseteq Pods
  BY DEF Busy, On
<1> QED
  BY <1>1, <1>2, FS_Subset, FS_CardinalityType

Scaler == [pc : {"tick", "running", "replicas", "get", "update"},
           pending : Nat, running : Nat, replicas : 0..MaxReplicas,
           target : 0..MaxReplicas, conflict : BOOLEAN]
Pod == [state : {"off", "idle", "busy"}, breaker : {"closed", "open", "halfOpen"},
        failures : 0..(FailureThreshold - 1)]

LEMMA Constants ==
    /\ Fresh \in Pod /\ Off \in Pod
    /\ Resting \in Scaler
    /\ MinWorkers \in 0..MaxReplicas
    /\ \A n \in 0..MaxReplicas : /\ n < MaxWorkers => n + 1 \in 0..MaxReplicas
                                 /\ n > MinWorkers => n - 1 \in 0..MaxReplicas
<1>1. Fresh \in Pod /\ Off \in Pod
  BY ClusterAssumption DEF Fresh, Off, Pod
<1>2. Resting \in Scaler
  BY ClusterAssumption DEF Resting, Scaler
<1> QED
  BY <1>1, <1>2, ClusterAssumption

LEMMA TypeInit == Init => TypeOK
<1> SUFFICES ASSUME Init PROVE TypeOK
  OBVIOUS
<1>1. pods \in [Pods -> Pod]
  BY Constants DEF Init
<1>2. scaler \in Scaler /\ replicas \in 0..MaxReplicas
  BY Constants DEF Init
<1>3. jobPods \in [all : Nat, busy : Nat] /\ jobPods.busy <= jobPods.all
  BY DEF Init
<1>4. /\ sched \in [pc : {"consuming", "find", "create", "policy", "quota", "job"},
                    namespace : Namespaces \cup {NoOne}]
      /\ sched.pc # "consuming" => sched.namespace \in Namespaces
  BY DEF Init, Waiting
<1> QED
  BY <1>1, <1>2, <1>3, <1>4 DEF Init, TypeOK, Pod, Scaler

\* A step of the autoscaler, an operator or the clock keeps the types.
LEMMA TypeScaler ==
  ASSUME TypeOK,
         \/ Evaluate \/ ScalerError \/ ScalerCrash \/ CooldownEnds
         \/ \E n \in 0..MaxReplicas : OperatorScales(n)
  PROVE  TypeOK'
<1>1. ASSUME UNCHANGED <<taskVars, up, schedVars>>,
             replicas' \in 0..MaxReplicas, cooling' \in BOOLEAN, missed' \in BOOLEAN,
             downs' \in Nat, faults' \in Nat, operated' \in Nat, outages' \in Nat,
             scaler' \in Scaler
      PROVE  TypeOK'
  BY <1>1 DEF TypeOK, taskVars, schedVars, Scaler
<1>2. Leased \in Nat /\ Busy \subseteq Pods
  BY PodsFinite DEF Leased, TypeOK
<1>3. scaler \in Scaler /\ replicas \in 0..MaxReplicas /\ pending \in Nat
  BY DEF TypeOK, Scaler
<1>4. ASSUME UNCHANGED <<OtherThanScaler, replicas, cooling, downs>>, scaler' \in Scaler,
             missed' \in BOOLEAN
      PROVE  TypeOK'
  BY <1>1, <1>4 DEF OtherThanScaler, events, TypeOK
<1>5. CASE GetPendingTaskCount
  <2>1. scaler' \in Scaler
    BY <1>3, <1>5, Constants DEF GetPendingTaskCount, Resting, Scaler
  <2> QED
    BY <1>4, <1>5, <2>1 DEF GetPendingTaskCount, TypeOK
<1>6. CASE GetRunningTaskCount
  <2>1. [scaler EXCEPT !.pc = "replicas", !.running = Leased] \in Scaler
    BY <1>2, <1>3 DEF Scaler
  <2>2. scaler' \in Scaler
    BY <1>6, <2>1, Constants DEF GetRunningTaskCount
  <2> QED
    BY <1>4, <1>6, <2>2 DEF GetRunningTaskCount, TypeOK
<1>7. CASE GetWorkerReplicas
  <2>1. ASSUME NEW n \in 0..MaxReplicas
        PROVE  [Resting EXCEPT !.pc = "get", !.replicas = replicas, !.target = n] \in Scaler
    BY <1>3, Constants DEF Scaler
  <2>2. scaler' \in Scaler
    <3>1. CASE ScaleUp
      <4>1. replicas + 1 \in 0..MaxReplicas
        BY <1>3, <3>1, Constants DEF ScaleUp
      <4> QED
        BY <1>7, <2>1, <3>1, <4>1 DEF GetWorkerReplicas
    <3>2. CASE ~ScaleUp /\ ScaleDown
      <4>1. replicas - 1 \in 0..MaxReplicas
        BY <1>3, <3>2, Constants DEF ScaleDown
      <4> QED
        BY <1>7, <2>1, <3>2, <4>1 DEF GetWorkerReplicas
    <3>3. CASE ~ScaleUp /\ ~ScaleDown
      BY <1>7, <3>3, Constants DEF GetWorkerReplicas
    <3> QED
      BY <3>1, <3>2, <3>3
  <2> QED
    BY <1>4, <1>7, <2>2 DEF GetWorkerReplicas
<1>8. CASE GetDeployment
  <2>1. scaler' \in Scaler
    BY <1>3, <1>8 DEF GetDeployment, Go, Scaler
  <2> QED
    BY <1>4, <1>8, <2>1 DEF GetDeployment, TypeOK
<1>9. CASE UpdateDeployment
  <2>1. replicas' \in 0..MaxReplicas /\ downs' \in Nat
    BY <1>3, <1>9 DEF UpdateDeployment, Counted, Scaler, TypeOK
  <2>2. cooling' \in BOOLEAN
    BY <1>9 DEF UpdateDeployment, TypeOK
  <2> QED
    BY <1>1, <1>9, <2>1, <2>2, Constants DEF UpdateDeployment, OtherThanScaler, events, TypeOK
<1>10. CASE ScalerError
  <2>1. replicas' \in 0..MaxReplicas /\ UNCHANGED downs
    BY <1>3, <1>10 DEF ScalerError, Scaler, TypeOK
  <2>2. scaler' \in Scaler /\ faults' \in Nat
    BY <1>10, Constants DEF ScalerError, Fault, TypeOK
  <2> QED
    BY <1>1, <1>10, <2>1, <2>2 DEF ScalerError, events, TypeOK
<1>11. CASE ScalerCrash
  <2>1. scaler' \in Scaler /\ faults' \in Nat
    BY <1>11, Constants DEF ScalerCrash, Fault, TypeOK
  <2> QED
    BY <1>1, <1>11, <2>1 DEF ScalerCrash, events, TypeOK
<1>12. CASE CooldownEnds
  BY <1>1, <1>3, <1>12 DEF CooldownEnds, events, TypeOK
<1>13. ASSUME NEW n \in 0..MaxReplicas, OperatorScales(n) PROVE TypeOK'
  <2>1. scaler' \in Scaler
    BY <1>3, <1>13 DEF OperatorScales, At, Scaler
  <2>2. operated' \in Nat /\ missed' \in BOOLEAN
    BY <1>13 DEF OperatorScales, At, TypeOK
  <2> QED
    BY <1>1, <1>13, <2>1, <2>2 DEF OperatorScales, TypeOK
<1> QED
  BY <1>5, <1>6, <1>7, <1>8, <1>9, <1>10, <1>11, <1>12, <1>13 DEF Evaluate

\* A step of a pod, Kubernetes or the database keeps the types.
LEMMA TypePods ==
  ASSUME TypeOK,
         \/ \E p \in Pods : \/ StartPod(p) \/ StopPod(p) \/ PodCrash(p) \/ Poll(p) \/ Finish(p)
                            \/ BreakerHalfOpens(p) \/ BreakerInterval(p)
         \/ JobPodLeases \/ JobPodFinishes \/ JobPodCrash \/ Outage \/ Recovery
  PROVE  TypeOK'
<1>1. ASSUME UNCHANGED <<replicas, scaler, cooling, missed, schedVars>>,
             pending' \in Nat, abandoned' \in Nat, pods' \in [Pods -> Pod],
             jobPods' \in [all : Nat, busy : Nat], jobPods'.busy <= jobPods'.all,
             up' \in BOOLEAN, downs' \in Nat, faults' \in Nat, operated' \in Nat,
             outages' \in Nat
      PROVE  TypeOK'
  BY <1>1 DEF TypeOK, schedVars, Pod
<1>2. Fresh \in Pod /\ Off \in Pod /\ pods \in [Pods -> Pod]
  BY Constants DEF TypeOK, Pod
<1>3. ASSUME NEW p \in Pods, NEW new \in Pod, Set(p, new) PROVE pods' \in [Pods -> Pod]
  BY <1>2, <1>3 DEF Set
<1>4. ASSUME NEW p \in Pods, StartPod(p) PROVE TypeOK'
  <2>1. pods' \in [Pods -> Pod]
    BY <1>2, <1>3, <1>4 DEF StartPod
  <2> QED
    BY <1>1, <1>4, <2>1 DEF StartPod, OtherThanPods, scalerVars, events, TypeOK
<1>5. ASSUME NEW p \in Pods, StopPod(p) \/ PodCrash(p) PROVE TypeOK'
  <2>1. pods' \in [Pods -> Pod]
    BY <1>2, <1>3, <1>5 DEF StopPod, PodCrash
  <2>2. abandoned' \in Nat /\ UNCHANGED <<pending, jobPods>>
    BY <1>5 DEF StopPod, PodCrash, Abandons, TypeOK
  <2>3. faults' \in Nat /\ UNCHANGED OtherThanPods
    BY <1>5 DEF StopPod, PodCrash, Fault, TypeOK
  <2> QED
    BY <1>1, <2>1, <2>2, <2>3 DEF OtherThanPods, scalerVars, events, TypeOK
<1>6. ASSUME NEW p \in Pods, Lease(p) PROVE TypeOK'
  <2>1. pods' \in [Pods -> Pod]
    <3>1. [Fresh EXCEPT !.state = "busy"] \in Pod
      BY <1>2 DEF Pod
    <3> QED
      BY <1>2, <1>3, <1>6, <3>1 DEF Lease
  <2>2. pending' \in Nat
    BY <1>6 DEF Lease, TypeOK
  <2> QED
    BY <1>1, <1>6, <2>1, <2>2 DEF Lease, OtherThanPods, scalerVars, events, TypeOK
<1>7. ASSUME NEW p \in Pods, LeaseFails(p) PROVE TypeOK'
  <2>1. pods[p] \in Pod
    BY <1>2
  <2>2. Failed(pods[p]) \in Pod
    <3>1. [pods[p] EXCEPT !.breaker = "open", !.failures = 0] \in Pod
      <4>1. [pods[p] EXCEPT !.failures = 0] \in Pod
        BY <2>1, ClusterAssumption DEF Pod
      <4>2. \A b \in Pod : [b EXCEPT !.breaker = "open"] \in Pod
        BY DEF Pod
      <4>3. [pods[p] EXCEPT !.breaker = "open", !.failures = 0]
               = [[pods[p] EXCEPT !.failures = 0] EXCEPT !.breaker = "open"]
        BY <2>1 DEF Pod
      <4> QED
        BY <4>1, <4>2, <4>3
    <3>2. ASSUME ~(pods[p].failures + 1 >= FailureThreshold)
          PROVE  [pods[p] EXCEPT !.failures = @ + 1] \in Pod
      BY <2>1, <3>2, ClusterAssumption DEF Pod
    <3> QED
      BY <3>1, <3>2 DEF Failed
  <2>3. pods' \in [Pods -> Pod]
    BY <1>3, <1>7, <2>2 DEF LeaseFails
  <2> QED
    BY <1>1, <1>7, <2>3 DEF LeaseFails, OtherThanPods, scalerVars, events, TypeOK
<1>8. ASSUME NEW p \in Pods, BreakerHalfOpens(p) \/ BreakerInterval(p) PROVE TypeOK'
  <2>1. pods' \in [Pods -> Pod]
    <3>1. /\ [pods[p] EXCEPT !.breaker = "halfOpen"] \in Pod
          /\ [pods[p] EXCEPT !.failures = 0] \in Pod
      BY <1>2, ClusterAssumption DEF Pod
    <3> QED
      BY <1>3, <1>8, <3>1 DEF BreakerHalfOpens, BreakerInterval
  <2> QED
    BY <1>1, <1>8, <2>1 DEF BreakerHalfOpens, BreakerInterval, OtherThanPods, scalerVars,
                                 events, TypeOK
<1>9. ASSUME NEW p \in Pods, Finish(p) PROVE TypeOK'
  <2>1. pods' \in [Pods -> Pod]
    BY <1>2, <1>3, <1>9 DEF Finish
  <2>2. pending' \in Nat /\ abandoned' \in Nat /\ faults' \in Nat
    BY <1>9 DEF Finish, Settle, Fault, TypeOK
  <2> QED
    BY <1>1, <1>9, <2>1, <2>2 DEF Finish, OtherThanPods, scalerVars, events, TypeOK
<1>10. CASE JobPodLeases
  <2>1. pending' \in Nat /\ jobPods' \in [all : Nat, busy : Nat] /\ jobPods'.busy <= jobPods'.all
    BY <1>10 DEF JobPodLeases, TypeOK
  <2>2. UNCHANGED <<abandoned, pods, OtherThanPods, faults>>
    BY <1>10 DEF JobPodLeases
  <2> QED
    BY <1>1, <1>2, <2>1, <2>2 DEF OtherThanPods, scalerVars, events, TypeOK
<1>11. CASE JobPodFinishes
  <2>1. pending' \in Nat /\ abandoned' \in Nat /\ faults' \in Nat
    BY <1>11 DEF JobPodFinishes, Settle, Fault, TypeOK
  <2>2. jobPods' \in [all : Nat, busy : Nat] /\ jobPods'.busy <= jobPods'.all
    BY <1>11 DEF JobPodFinishes, TypeOK
  <2>3. UNCHANGED <<pods, OtherThanPods>>
    BY <1>11 DEF JobPodFinishes
  <2> QED
    BY <1>1, <1>2, <2>1, <2>2, <2>3 DEF OtherThanPods, scalerVars, events, TypeOK
<1>12. CASE JobPodCrash
  <2>1. abandoned' \in Nat /\ faults' \in Nat
    BY <1>12 DEF JobPodCrash, Fault, TypeOK
  <2>2. jobPods' \in [all : Nat, busy : Nat] /\ jobPods'.busy <= jobPods'.all
    BY <1>12 DEF JobPodCrash, TypeOK
  <2>3. UNCHANGED <<pending, pods, OtherThanPods>>
    BY <1>12 DEF JobPodCrash
  <2> QED
    BY <1>1, <1>2, <2>1, <2>2, <2>3 DEF OtherThanPods, scalerVars, events, TypeOK
<1>13. CASE Outage \/ Recovery
  <2>1. /\ up' \in BOOLEAN /\ outages' \in Nat
        /\ UNCHANGED <<taskVars, replicas, scalerVars, schedVars, faults, operated>>
    <3>1. CASE Outage
      <4>1. outages' \in Nat
        BY <3>1 DEF Outage, TypeOK
      <4> QED
        BY <3>1, <4>1 DEF Outage
    <3>2. CASE Recovery
      BY <3>2 DEF Recovery, events, TypeOK
    <3> QED
      BY <1>13, <3>1, <3>2
  <2> QED
    BY <1>1, <1>2, <2>1 DEF taskVars, scalerVars, TypeOK
<1> QED
  BY <1>4, <1>5, <1>6, <1>7, <1>8, <1>9, <1>10, <1>11, <1>12, <1>13 DEF Poll

\* A step of the scheduler keeps the types.
LEMMA TypeSched ==
  ASSUME TypeOK,
         \/ \E w \in Workspaces : InsertTasks(w)
         \/ HandleJobSubmitted \/ ClusterCallFails \/ SchedulerCrash
  PROVE  TypeOK'
<1>1. ASSUME UNCHANGED OtherThanSched,
             pending' \in Nat, jobPods' \in [all : Nat, busy : Nat], jobPods'.busy <= jobPods'.all,
             sched' \in [pc : {"consuming", "find", "create", "policy", "quota", "job"},
                         namespace : Namespaces \cup {NoOne}],
             sched'.pc # "consuming" => sched'.namespace \in Namespaces,
             isolation' \in [Namespaces -> SUBSET Parts],
             runs' \in Nat, spoiled' \subseteq Namespaces, faults' \in Nat
      PROVE  TypeOK'
  BY <1>1 DEF OtherThanSched, scalerVars, events, TypeOK
<1>2. ASSUME NEW w \in Workspaces, InsertTasks(w) PROVE TypeOK'
  BY <1>1, <1>2, ClusterAssumption DEF InsertTasks, TypeOK
<1>3. ASSUME NEW part \in Parts, Make(part) PROVE isolation' \in [Namespaces -> SUBSET Parts]
  BY <1>3 DEF Make, TypeOK
<1>4. ASSUME NEW from \in {"find", "create", "policy", "quota"},
             NEW to \in {"create", "policy", "quota", "job"}, Proceed(from, to)
      PROVE  /\ sched' \in [pc : {"consuming", "find", "create", "policy", "quota", "job"},
                            namespace : Namespaces \cup {NoOne}]
             /\ sched'.pc # "consuming" => sched'.namespace \in Namespaces
             /\ sched.namespace \in Namespaces
  BY <1>4 DEF Proceed, TypeOK
<1>5. CASE GetNamespace
  BY <1>1, <1>4, <1>5 DEF GetNamespace, TypeOK
<1>6. CASE CreateNamespace
  BY <1>1, <1>3, <1>4, <1>6 DEF CreateNamespace, TypeOK, Parts
<1>7. CASE ApplyNetworkPolicy \/ ApplyResourceQuota
  BY <1>1, <1>3, <1>4, <1>7 DEF ApplyNetworkPolicy, ApplyResourceQuota, TypeOK, Parts
<1>8. CASE CreateWorkerJob
  BY <1>1, <1>8, ClusterAssumption DEF CreateWorkerJob, Waiting, TypeOK
<1>9. CASE ClusterCallFails
  <2>1. isolation' \in [Namespaces -> SUBSET Parts]
    <3>1. UNCHANGED isolation \/ \E part \in Parts : Make(part)
      BY <1>9 DEF ClusterCallFails, Parts
    <3> QED
      BY <1>3, <3>1 DEF TypeOK
  <2>2. \/ \E from \in {"find", "create", "policy", "quota"} :
             \E to \in {"create", "policy", "quota", "job"} : Proceed(from, to)
        \/ sched' = Waiting /\ UNCHANGED spoiled
    BY <1>9 DEF ClusterCallFails
  <2>3. /\ sched' \in [pc : {"consuming", "find", "create", "policy", "quota", "job"},
                       namespace : Namespaces \cup {NoOne}]
        /\ sched'.pc # "consuming" => sched'.namespace \in Namespaces
        /\ sched.namespace \in Namespaces \/ UNCHANGED spoiled
    BY <1>4, <2>2 DEF Waiting
  <2>4. spoiled' \subseteq Namespaces
    BY <1>9, <2>3 DEF ClusterCallFails, TypeOK
  <2>5. faults' \in Nat /\ UNCHANGED <<OtherThanSched, pending, jobPods, runs>>
    BY <1>9 DEF ClusterCallFails, Fault, TypeOK
  <2> QED
    BY <1>1, <2>1, <2>3, <2>4, <2>5 DEF TypeOK
<1>10. CASE SchedulerCrash
  BY <1>1, <1>10 DEF SchedulerCrash, Fault, Waiting, TypeOK
<1> QED
  BY <1>2, <1>5, <1>6, <1>7, <1>8, <1>9, <1>10 DEF HandleJobSubmitted

\* Every call of the autoscaler, the workers, Kubernetes and the scheduler keeps
\* every count, row and local variable in its type: no counter goes below zero,
\* the autoscaler never asks for less than none, a breaker never counts up to
\* its threshold.
THEOREM ClusterTypes == Spec => []TypeOK
<1>1. Init => TypeOK
  BY TypeInit
<1>2. TypeOK /\ [Next]_vars => TypeOK'
  <2> SUFFICES ASSUME TypeOK, [Next]_vars PROVE TypeOK'
    OBVIOUS
  <2>1. CASE Next
    BY <2>1, TypeScaler, TypePods, TypeSched DEF Next
  <2>2. CASE UNCHANGED vars
    BY <2>2 DEF vars, taskVars, scalerVars, schedVars, events, TypeOK
  <2> QED
    BY <2>1, <2>2
<1> QED
  BY <1>1, <1>2, PTL DEF Spec

(***************************************************************************)
(* The autoscaler.  Its local variables are as old as its calls; ScalerInv *)
(* says what they still tell: the target is one away from a reading inside *)
(* the bounds, and the reading is the deployment's unless somebody scaled  *)
(* since, which the conflict or missed shows.                              *)
(***************************************************************************)
Deciding == scaler.pc \in {"get", "update"}

ScalerInv ==
    /\ operated = 0 => replicas \in MinWorkers..MaxWorkers
    /\ Deciding =>
          /\ scaler.target \in {scaler.replicas - 1, scaler.replicas + 1}
          /\ operated = 0 => /\ scaler.target \in MinWorkers..MaxWorkers
                             /\ replicas = scaler.replicas
          /\ ~scaler.conflict /\ ~missed => replicas = scaler.replicas

LEMMA ScalerInit == Init => ScalerInv
  BY ClusterAssumption DEF Init, ScalerInv, Deciding, Resting

\* Where the autoscaler rests, only the deployment matters.
LEMMA RestingKeeps ==
  ASSUME TypeOK, TypeOK', ScalerInv, scaler' = Resting, UNCHANGED operated,
         UNCHANGED replicas \/ (Deciding /\ replicas' = scaler.target)
  PROVE  ScalerInv'
<1>1. operated' = 0 => replicas' \in MinWorkers..MaxWorkers
  BY DEF ScalerInv
<1>2. scaler'.pc = "tick"
  BY DEF Resting
<1> QED
  BY <1>1, <1>2 DEF ScalerInv, Deciding

LEMMA ScalerStep == TypeOK /\ TypeOK' /\ ScalerInv /\ [Next]_vars => ScalerInv'
<1> SUFFICES ASSUME TypeOK, TypeOK', ScalerInv, [Next]_vars PROVE ScalerInv'
  OBVIOUS
<1> USE DEF events
<1>1. ASSUME UNCHANGED <<replicas, scaler, missed, operated>>
      PROVE  ScalerInv'
  BY <1>1 DEF ScalerInv, Deciding
<1>2. CASE GetPendingTaskCount
  <2>1. scaler'.pc = "running" /\ UNCHANGED <<replicas, operated>>
    BY <1>2 DEF GetPendingTaskCount, OtherThanScaler, Resting
  <2> QED
    BY <2>1 DEF ScalerInv, Deciding
<1>3. CASE GetRunningTaskCount
  <2>1. UNCHANGED <<replicas, operated>>
    BY <1>3 DEF GetRunningTaskCount, OtherThanScaler
  <2>2. scaler'.pc \in {"tick", "replicas"}
    BY <1>3 DEF GetRunningTaskCount, Resting, TypeOK
  <2> QED
    BY <2>1, <2>2 DEF ScalerInv, Deciding
<1>4. CASE GetWorkerReplicas
  <2>1. UNCHANGED <<replicas, operated>> /\ scaler.pc = "replicas"
    BY <1>4 DEF GetWorkerReplicas, OtherThanScaler, At
  <2>2. CASE ScaleUp \/ ScaleDown
    <3>1. /\ scaler'.pc = "get" /\ scaler'.replicas = replicas /\ scaler'.conflict = FALSE
          /\ scaler'.target = IF ScaleUp THEN replicas + 1 ELSE replicas - 1
      BY <1>4, <2>2 DEF GetWorkerReplicas, Resting
    <3>2. replicas \in Nat
      BY DEF TypeOK
    <3>3. operated' = 0 => scaler'.target \in MinWorkers..MaxWorkers
      BY <2>1, <2>2, <3>1, <3>2, ClusterAssumption DEF ScaleUp, ScaleDown, ScalerInv
    <3> QED
      BY <2>1, <3>1, <3>3 DEF ScalerInv, Deciding
  <2>3. CASE ~(ScaleUp \/ ScaleDown)
    BY <1>4, <2>1, <2>3, RestingKeeps DEF GetWorkerReplicas
  <2> QED
    BY <2>2, <2>3
<1>5. CASE GetDeployment
  <2>1. /\ UNCHANGED <<replicas, operated, missed>> /\ scaler.pc = "get"
        /\ scaler' = [scaler EXCEPT !.pc = "update"]
    BY <1>5 DEF GetDeployment, OtherThanScaler, At, Go
  <2>2. /\ scaler'.pc = "update" /\ scaler'.target = scaler.target
        /\ scaler'.replicas = scaler.replicas /\ scaler'.conflict = scaler.conflict
    BY <2>1 DEF TypeOK
  <2> QED
    BY <2>1, <2>2 DEF ScalerInv, Deciding
<1>6. CASE UpdateDeployment
  BY <1>6, RestingKeeps DEF UpdateDeployment, OtherThanScaler, Deciding, At
<1>7. CASE ScalerError
  BY <1>7, RestingKeeps DEF ScalerError, Deciding, At
<1>8. CASE ScalerCrash
  BY <1>8, RestingKeeps DEF ScalerCrash
<1>9. ASSUME NEW n \in 0..MaxReplicas, OperatorScales(n) PROVE ScalerInv'
  <2>1. /\ missed' = (scaler.pc = "get") /\ operated' = operated + 1
        /\ scaler' = [scaler EXCEPT !.conflict = (scaler.pc = "update")]
    BY <1>9 DEF OperatorScales, At
  <2>2. /\ scaler'.pc = scaler.pc /\ scaler'.target = scaler.target
        /\ scaler'.replicas = scaler.replicas /\ scaler'.conflict = (scaler.pc = "update")
    BY <2>1 DEF TypeOK
  <2>3. operated' # 0
    BY <2>1 DEF TypeOK
  <2> QED
    BY <2>1, <2>2, <2>3 DEF ScalerInv, Deciding
<1>10. CASE CooldownEnds \/ HandleJobSubmitted \/ ClusterCallFails \/ SchedulerCrash
            \/ \E w \in Workspaces : InsertTasks(w)
  <2>1. UNCHANGED <<replicas, scaler, missed, operated>>
    BY <1>10 DEF CooldownEnds, HandleJobSubmitted, GetNamespace, CreateNamespace,
                 ApplyNetworkPolicy, ApplyResourceQuota, CreateWorkerJob, ClusterCallFails,
                 SchedulerCrash, InsertTasks, OtherThanSched, scalerVars
  <2> QED
    BY <1>1, <2>1
<1>11. ASSUME NEW p \in Pods,
              \/ StartPod(p) \/ StopPod(p) \/ PodCrash(p) \/ Poll(p) \/ Finish(p)
              \/ BreakerHalfOpens(p) \/ BreakerInterval(p)
       PROVE  ScalerInv'
  <2>1. UNCHANGED <<replicas, scaler, missed, operated>>
    BY <1>11 DEF StartPod, StopPod, PodCrash, Poll, Lease, LeaseFails, Finish,
                 BreakerHalfOpens, BreakerInterval, OtherThanPods, scalerVars
  <2> QED
    BY <1>1, <2>1
<1>12. CASE JobPodLeases \/ JobPodFinishes \/ JobPodCrash \/ Outage \/ Recovery
  <2>1. UNCHANGED <<replicas, scaler, missed, operated>>
    BY <1>12 DEF JobPodLeases, JobPodFinishes, JobPodCrash, Outage, Recovery, OtherThanPods,
                 scalerVars
  <2> QED
    BY <1>1, <2>1
<1>13. CASE UNCHANGED vars
  BY <1>1, <1>13 DEF vars, scalerVars
<1> QED
  BY <1>2, <1>3, <1>4, <1>5, <1>6, <1>7, <1>8, <1>9, <1>10, <1>11, <1>12, <1>13
  DEF Next, Evaluate

\* What evaluate has in hand between its calls is still true of the deployment,
\* or the conflict or missed says that it is not.
THEOREM ScalerInvariant == Spec => []ScalerInv
<1>1. TypeOK /\ TypeOK' /\ ScalerInv /\ [Next]_vars => ScalerInv'
  BY ScalerStep
<1> QED
  BY <1>1, ScalerInit, ClusterTypes, PTL DEF Spec

\* For all bounds, thresholds and failures: the autoscaler alone never leaves
\* its bounds, although reading, comparing and writing are separate calls, any
\* of which may fail or take effect without an answer.
THEOREM ReplicasStayInBounds == Spec => []ReplicasInBounds
<1>1. ScalerInv => ReplicasInBounds
  BY DEF ScalerInv, ReplicasInBounds
<1> QED
  BY <1>1, ScalerInvariant, PTL

\* An update that goes through changes what evaluate saw by one, and an
\* operator is overruled only if he scaled between the two reads: the second
\* read's version guards what happens after it, nothing what happens before.
THEOREM OverrulesAreUnseen == Spec => OverrulesOnlyUnseen
<1>1. TypeOK /\ ScalerInv /\ [Next]_vars =>
         [UpdateDeployment /\ replicas' # replicas =>
             \/ missed
             \/ replicas' \in {replicas - 1, replicas + 1}]_vars
  <2> SUFFICES ASSUME TypeOK, ScalerInv, UpdateDeployment, replicas' # replicas, ~missed
               PROVE  replicas' \in {replicas - 1, replicas + 1}
    OBVIOUS
  <2>1. ~scaler.conflict /\ replicas' = scaler.target /\ Deciding
    BY DEF UpdateDeployment, At, Deciding
  <2> QED
    BY <2>1 DEF ScalerInv
<1> QED
  BY <1>1, ClusterTypes, ScalerInvariant, PTL DEF Spec, OverrulesOnlyUnseen

(***************************************************************************)
(* Stranded rows.  Without an operator the fleet has more pods than the    *)
(* deployment asks for only because updates took replicas away, and each   *)
(* such pod strands one row at most when it is stopped.                    *)
(***************************************************************************)
Surplus == IF Cardinality(On) > replicas THEN Cardinality(On) - replicas ELSE 0

StrandedInv ==
    operated = 0 /\ outages = 0 => up /\ abandoned + Surplus <= downs + faults

LEMMA OnSize ==
  ASSUME TypeOK
  PROVE  IsFiniteSet(On) /\ Cardinality(On) \in Nat /\ Surplus \in Nat
<1>1. IsFiniteSet(Pods)
  BY FS_Interval, ClusterAssumption DEF Pods
<1>2. IsFiniteSet(On) /\ Cardinality(On) \in Nat
  BY <1>1, PodsFinite, FS_Subset, FS_CardinalityType
<1> QED
  BY <1>2 DEF Surplus, TypeOK

LEMMA StrandedInit == Init => StrandedInv
<1> SUFFICES ASSUME Init PROVE StrandedInv
  OBVIOUS
<1>1. On = 1..MinWorkers
  BY ClusterAssumption DEF Init, On, Pods, Fresh, Off
<1>2. Cardinality(On) = MinWorkers
  BY <1>1, FS_Interval, ClusterAssumption
<1> QED
  BY <1>2, ClusterAssumption DEF Init, StrandedInv, Surplus

LEMMA StrandedStep == TypeOK /\ TypeOK' /\ ScalerInv /\ StrandedInv /\ [Next]_vars => StrandedInv'
<1> SUFFICES ASSUME TypeOK, TypeOK', ScalerInv, StrandedInv, [Next]_vars,
                    operated' = 0, outages' = 0
             PROVE  up' /\ abandoned' + Surplus' <= downs' + faults'
  BY DEF StrandedInv
<1> USE DEF events
<1>n. /\ abandoned \in Nat /\ abandoned' \in Nat /\ downs \in Nat /\ downs' \in Nat
      /\ faults \in Nat /\ faults' \in Nat /\ replicas \in Nat /\ replicas' \in Nat
      /\ operated \in Nat /\ outages \in Nat
      /\ Cardinality(On) \in Nat /\ Surplus \in Nat
  BY OnSize DEF TypeOK
<1>f. Cardinality(On') \in Nat /\ Surplus' \in Nat
  <2>1. IsFiniteSet(Pods) /\ On' \subseteq Pods
    BY FS_Interval, ClusterAssumption DEF Pods, On
  <2>2. Cardinality(On') \in Nat
    BY <2>1, FS_Subset, FS_CardinalityType
  <2> QED
    BY <1>n, <2>2 DEF Surplus
<1>o. ASSUME operated' # operated \/ outages' # outages PROVE FALSE
  <2>1. CASE Outage
    BY <1>n, <2>1 DEF Outage
  <2>2. ASSUME NEW n \in 0..MaxReplicas, OperatorScales(n) PROVE FALSE
    BY <1>n, <2>2 DEF OperatorScales
  <2>3. CASE Next /\ ~Outage /\ ~\E n \in 0..MaxReplicas : OperatorScales(n)
    BY <1>o, <2>3 DEF Next, Evaluate, GetPendingTaskCount, GetRunningTaskCount,
       GetWorkerReplicas, GetDeployment, UpdateDeployment, ScalerError, ScalerCrash,
       CooldownEnds, StartPod, StopPod, PodCrash, Poll, Lease, LeaseFails, Finish,
       BreakerHalfOpens, BreakerInterval, JobPodLeases, JobPodFinishes, JobPodCrash,
       Recovery, InsertTasks, HandleJobSubmitted, GetNamespace, CreateNamespace,
       ApplyNetworkPolicy, ApplyResourceQuota, CreateWorkerJob, ClusterCallFails,
       SchedulerCrash, OtherThanScaler, OtherThanPods, OtherThanSched
  <2>4. CASE UNCHANGED vars
    BY <1>o, <2>4 DEF vars
  <2> QED
    BY <2>1, <2>2, <2>3, <2>4
<1>i. up /\ abandoned + Surplus <= downs + faults
  BY <1>o DEF StrandedInv
\* The sums, in numbers.
<1>a. PICK a \in Nat, s \in Nat, d \in Nat, f \in Nat :
         a = abandoned /\ s = Surplus /\ d = downs /\ f = faults
  BY <1>n
<1>b. PICK aa \in Nat, ss \in Nat, dd \in Nat, ff \in Nat :
         aa = abandoned' /\ ss = Surplus' /\ dd = downs' /\ ff = faults'
  BY <1>n, <1>f
<1>c. a + s <= d + f
  BY <1>i, <1>a
<1>d. ASSUME up', aa + ss <= dd + ff
      PROVE  up' /\ abandoned' + Surplus' <= downs' + faults'
  BY <1>b, <1>d
\* The pods stay as they are, and so does what the deployment asks for.
<1>1. ASSUME On' = On, replicas' = replicas, up' = up,
             \/ UNCHANGED <<abandoned, downs, faults>>
             \/ faults' = faults + 1 /\ UNCHANGED <<abandoned, downs>>
             \/ faults' = faults + 1 /\ abandoned' = abandoned + 1 /\ UNCHANGED downs
      PROVE  up' /\ abandoned' + Surplus' <= downs' + faults'
  <2>1. Surplus' = Surplus
    BY <1>1 DEF Surplus
  <2>2. ss = s /\ dd = d
    BY <1>1, <1>a, <1>b, <2>1
  <2>3. CASE UNCHANGED <<abandoned, faults>>
    <3>1. aa = a /\ ff = f
      BY <1>a, <1>b, <2>3
    <3>2. aa + ss <= dd + ff
      BY <1>c, <2>2, <3>1
    <3> QED
      BY <1>1, <1>d, <1>i, <3>2
  <2>4. CASE faults' = faults + 1 /\ (abandoned' = abandoned \/ abandoned' = abandoned + 1)
    <3>1. ff = f + 1 /\ (aa = a \/ aa = a + 1)
      BY <1>a, <1>b, <2>4
    <3>2. aa + ss <= dd + ff
      BY <1>c, <2>2, <3>1
    <3> QED
      BY <1>1, <1>d, <1>i, <3>2
  <2> QED
    BY <1>1, <2>3, <2>4
<1>2. ASSUME UNCHANGED pods PROVE On' = On
  BY <1>2 DEF On
<1>3. ASSUME NEW p \in Pods, pods[p].state # "off", NEW new, new.state # "off", Set(p, new)
      PROVE  On' = On
  BY <1>3 DEF On, Set, TypeOK
<1>4. CASE Evaluate \/ ScalerError
  <2>1. UNCHANGED <<abandoned, up, pods>> /\ On' = On
    BY <1>2, <1>4 DEF Evaluate, GetPendingTaskCount, GetRunningTaskCount, GetWorkerReplicas,
       GetDeployment, UpdateDeployment, ScalerError, OtherThanScaler, taskVars
  <2>2. CASE UNCHANGED replicas
    <3>1. /\ downs' = downs \/ downs' = downs + 1
          /\ faults' = faults \/ faults' = faults + 1
      BY <1>4 DEF Evaluate, GetPendingTaskCount, GetRunningTaskCount, GetWorkerReplicas,
         GetDeployment, UpdateDeployment, Counted, ScalerError, Fault, OtherThanScaler
    <3>2. Surplus' = Surplus
      BY <2>1, <2>2 DEF Surplus
    <3>3. aa = a /\ ss = s /\ (dd = d \/ dd = d + 1) /\ (ff = f \/ ff = f + 1)
      BY <1>a, <1>b, <2>1, <3>1, <3>2
    <3> QED
      BY <1>c, <1>d, <1>i, <2>1, <3>3
  <2>3. CASE ~UNCHANGED replicas
    <3>1. /\ replicas' = scaler.target /\ Deciding
          /\ \/ faults' = faults /\ downs' = IF scaler.target < scaler.replicas
                                             THEN downs + 1 ELSE downs
             \/ faults' = faults + 1 /\ UNCHANGED downs
      BY <1>4, <2>3 DEF Evaluate, GetPendingTaskCount, GetRunningTaskCount, GetWorkerReplicas,
         GetDeployment, UpdateDeployment, Counted, ScalerError, Fault, OtherThanScaler, At,
         Deciding
    <3>2. scaler.replicas = replicas /\ scaler.target \in {replicas - 1, replicas + 1}
      BY <1>o, <3>1 DEF ScalerInv
    <3>3. replicas' = replicas + 1 => Surplus' <= Surplus
      BY <1>n, <2>1 DEF Surplus
    <3>4. replicas' = replicas - 1 => Surplus' <= Surplus + 1
      BY <1>n, <2>1 DEF Surplus
    <3>5. (dd = d /\ ff = f + 1) \/ (ff = f /\ (dd = d \/ dd = d + 1))
      BY <1>a, <1>b, <3>1
    <3>6. replicas' = replicas - 1 => (dd = d /\ ff = f + 1) \/ (ff = f /\ dd = d + 1)
      <4>1. replicas' = replicas - 1 => replicas' < replicas
        BY <1>n
      <4>2. replicas' < replicas =>
               \/ faults' = faults /\ downs' = downs + 1
               \/ faults' = faults + 1 /\ UNCHANGED downs
        BY <3>1, <3>2
      <4>3. faults' = faults /\ downs' = downs + 1 => ff = f /\ dd = d + 1
        BY <1>a, <1>b
      <4>4. faults' = faults + 1 /\ UNCHANGED downs => dd = d /\ ff = f + 1
        BY <1>a, <1>b
      <4> QED
        BY <4>1, <4>2, <4>3, <4>4
    <3>7. aa = a /\ up'
      BY <1>a, <1>b, <1>i, <2>1
    <3>8. CASE replicas' = replicas + 1
      <4>1. ss <= s
        BY <1>a, <1>b, <3>3, <3>8
      <4> QED
        BY <1>c, <1>d, <3>5, <3>7, <4>1
    <3>9. CASE replicas' = replicas - 1
      <4>1. ss <= s + 1
        BY <1>a, <1>b, <3>4, <3>9
      <4> QED
        BY <1>c, <1>d, <3>6, <3>7, <3>9, <4>1
    <3> QED
      BY <3>1, <3>2, <3>8, <3>9
  <2> QED
    BY <2>2, <2>3
<1>5. CASE ScalerCrash \/ CooldownEnds
  BY <1>1, <1>2, <1>5 DEF ScalerCrash, CooldownEnds, Fault, taskVars
<1>6. ASSUME NEW p \in Pods, StartPod(p) PROVE up' /\ abandoned' + Surplus' <= downs' + faults'
  <2>1. On' = On \cup {p} /\ p \notin On /\ Cardinality(On) < replicas
    BY <1>6 DEF StartPod, Set, On, Fresh, TypeOK
  <2>2. Cardinality(On') = Cardinality(On) + 1
    BY <2>1, OnSize, FS_AddElement
  <2>3. UNCHANGED <<abandoned, faults, up, replicas, downs>>
    BY <1>6 DEF StartPod, OtherThanPods, scalerVars
  <2>4. Surplus' = 0
    BY <1>n, <2>1, <2>2, <2>3 DEF Surplus
  <2>5. aa = a /\ ss = 0 /\ dd = d /\ ff = f
    BY <1>a, <1>b, <2>3, <2>4
  <2> QED
    BY <1>c, <1>d, <1>i, <2>3, <2>5
<1>7. ASSUME NEW p \in Pods, StopPod(p) PROVE up' /\ abandoned' + Surplus' <= downs' + faults'
  <2>1. On' = On \ {p} /\ p \in On /\ Cardinality(On) > replicas
    BY <1>7 DEF StopPod, Set, On, Off, TypeOK
  <2>2. Cardinality(On') = Cardinality(On) - 1
    BY <2>1, OnSize, FS_RemoveElement
  <2>3. /\ UNCHANGED <<faults, up, replicas, downs>>
        /\ abandoned' = abandoned \/ abandoned' = abandoned + 1
    BY <1>7, <1>n DEF StopPod, Abandons, OtherThanPods, scalerVars
  <2>4. Surplus' = Surplus - 1
    BY <1>n, <2>1, <2>2, <2>3 DEF Surplus
  <2>5. (aa = a \/ aa = a + 1) /\ ss = s - 1 /\ dd = d /\ ff = f
    BY <1>a, <1>b, <2>3, <2>4
  <2> QED
    BY <1>c, <1>d, <1>i, <2>3, <2>5
<1>8. ASSUME NEW p \in Pods, PodCrash(p) PROVE up' /\ abandoned' + Surplus' <= downs' + faults'
  <2>1. On' = On
    BY <1>3, <1>8 DEF PodCrash, Fresh, On
  <2>2. UNCHANGED <<up, replicas, downs>> /\ faults' = faults + 1
    BY <1>8 DEF PodCrash, Fault, OtherThanPods, scalerVars
  <2>3. abandoned' = abandoned \/ abandoned' = abandoned + 1
    BY <1>8, <1>n DEF PodCrash, Abandons
  <2> QED
    BY <1>1, <2>1, <2>2, <2>3
<1>9. ASSUME NEW p \in Pods, Finish(p) PROVE up' /\ abandoned' + Surplus' <= downs' + faults'
  <2>1. On' = On
    BY <1>3, <1>9 DEF Finish, Fresh, Busy
  <2>2. UNCHANGED <<up, replicas, downs>>
    BY <1>9 DEF Finish, OtherThanPods, scalerVars
  <2> QED
    BY <1>1, <1>9, <1>i, <2>1, <2>2 DEF Finish, Settle, Fault
<1>10. ASSUME NEW p \in Pods, Poll(p) \/ BreakerHalfOpens(p) \/ BreakerInterval(p)
       PROVE  up' /\ abandoned' + Surplus' <= downs' + faults'
  <2>1. On' = On
    <3>1. CASE Lease(p)
      BY <1>3, <3>1 DEF Lease, Fresh
    <3>2. CASE LeaseFails(p)
      <4>1. Failed(pods[p]).state = pods[p].state
        BY DEF Failed, TypeOK
      <4> QED
        BY <1>3, <3>2, <4>1 DEF LeaseFails
    <3>3. CASE BreakerHalfOpens(p) \/ BreakerInterval(p)
      BY <3>3 DEF BreakerHalfOpens, BreakerInterval, Set, On, TypeOK
    <3> QED
      BY <1>10, <3>1, <3>2, <3>3 DEF Poll
  <2>2. UNCHANGED <<up, replicas, downs, abandoned, faults>>
    BY <1>10 DEF Poll, Lease, LeaseFails, BreakerHalfOpens, BreakerInterval, OtherThanPods,
                 scalerVars
  <2> QED
    BY <1>1, <2>1, <2>2
<1>11. CASE JobPodLeases \/ JobPodFinishes \/ JobPodCrash \/ Recovery
  <2>1. UNCHANGED <<replicas, downs, pods>> /\ up'
    BY <1>11, <1>i DEF JobPodLeases, JobPodFinishes, JobPodCrash, Recovery, OtherThanPods,
                       scalerVars, taskVars
  <2> QED
    BY <1>1, <1>2, <1>11, <1>i, <2>1 DEF JobPodLeases, JobPodFinishes, JobPodCrash, Recovery,
       Settle, Fault, taskVars
<1>12. CASE HandleJobSubmitted \/ ClusterCallFails \/ SchedulerCrash
            \/ \E w \in Workspaces : InsertTasks(w)
  <2>1. /\ UNCHANGED <<replicas, downs, pods, up, abandoned>>
        /\ faults' = faults \/ faults' = faults + 1
    BY <1>12 DEF HandleJobSubmitted, GetNamespace, CreateNamespace, ApplyNetworkPolicy,
       ApplyResourceQuota, CreateWorkerJob, ClusterCallFails, SchedulerCrash, InsertTasks,
       Fault, OtherThanSched, scalerVars
  <2> QED
    BY <1>1, <1>2, <2>1
<1>13. ASSUME Outage \/ \E n \in 0..MaxReplicas : OperatorScales(n) PROVE FALSE
  BY <1>13, <1>n, <1>o DEF Outage, OperatorScales
<1>14. CASE UNCHANGED vars
  BY <1>1, <1>2, <1>14 DEF vars, taskVars, scalerVars
<1> QED
  BY <1>4, <1>5, <1>6, <1>7, <1>8, <1>9, <1>10, <1>11, <1>12, <1>13, <1>14 DEF Next

\* For all bounds and thresholds: each row left LEASED with nobody at work on it
\* is charged to a scale-down, a failed call or a crash, one row each, although
\* the count of running tasks is as old as it likes when a pod is stopped.
THEOREM StrandedRowsAreCharged == Spec => []StrandedRowsCharged
<1>1. TypeOK /\ TypeOK' /\ ScalerInv /\ StrandedInv /\ [Next]_vars => StrandedInv'
  BY StrandedStep
<1>2. TypeOK /\ StrandedInv => StrandedRowsCharged
  BY OnSize DEF StrandedInv, StrandedRowsCharged, TypeOK
<1> QED
  BY <1>1, <1>2, StrandedInit, ClusterTypes, ScalerInvariant, PTL DEF Spec

(***************************************************************************)
(* The isolation of the namespaces.                                        *)
(***************************************************************************)
IsolationInv ==
    /\ IsolationComplete
    /\ sched.pc \in {"policy", "quota"} => "namespace" \in isolation[sched.namespace]
    /\ sched.pc = "quota" /\ sched.namespace \notin spoiled =>
           "policy" \in isolation[sched.namespace]

LEMMA IsolationInit == Init => IsolationInv
  BY DEF Init, IsolationInv, IsolationComplete, Waiting

LEMMA IsolationStep == TypeOK /\ TypeOK' /\ IsolationInv /\ [Next]_vars => IsolationInv'
<1> SUFFICES ASSUME TypeOK, TypeOK', IsolationInv, [Next]_vars PROVE IsolationInv'
  OBVIOUS
<1> USE DEF Parts
<1>1. ASSUME UNCHANGED <<sched, isolation, spoiled>> PROVE IsolationInv'
  BY <1>1 DEF IsolationInv, IsolationComplete
<1>2. ASSUME NEW w \in Workspaces, InsertTasks(w) PROVE IsolationInv'
  <2>1. sched.pc = "consuming" /\ sched'.pc = "find" /\ UNCHANGED <<isolation, spoiled>>
    BY <1>2 DEF InsertTasks
  <2> QED
    BY <2>1 DEF IsolationInv, IsolationComplete
<1>3. ASSUME NEW w \in Namespaces, sched.namespace = w, sched'.namespace = w,
             sched.pc # "consuming",
             \A v \in Namespaces : v # w => isolation'[v] = isolation[v] /\ (v \in spoiled => v \in spoiled'),
             "namespace" \in isolation'[w] /\ w \notin spoiled' =>
                 isolation'[w] = Parts \/ sched'.pc \in {"policy", "quota"},
             sched'.pc \in {"policy", "quota"} => "namespace" \in isolation'[w],
             sched'.pc = "quota" /\ w \notin spoiled' => "policy" \in isolation'[w]
      PROVE  IsolationInv'
  BY <1>3 DEF IsolationInv, IsolationComplete
<1>4. sched.pc # "consuming" => sched.namespace \in Namespaces
  BY DEF TypeOK
<1>5. CASE GetNamespace
  <2>1. sched.pc = "find" /\ sched'.pc \in {"job", "create"} /\ sched'.namespace = sched.namespace
    BY <1>5 DEF GetNamespace, Proceed, TypeOK
  <2>2. UNCHANGED <<isolation, spoiled>>
    BY <1>5 DEF GetNamespace
  <2> QED
    BY <1>3, <1>4, <2>1, <2>2 DEF IsolationInv, IsolationComplete
<1>6. CASE CreateNamespace
  <2>1. /\ sched.pc = "create" /\ sched'.namespace = sched.namespace /\ UNCHANGED spoiled
        /\ sched'.pc = IF Has("namespace") THEN "job" ELSE "policy"
        /\ isolation' = [isolation EXCEPT ![sched.namespace] = @ \cup {"namespace"}]
    BY <1>6 DEF CreateNamespace, Proceed, Make, TypeOK
  <2>2. sched.namespace \in Namespaces /\ isolation \in [Namespaces -> SUBSET Parts]
    BY <2>1 DEF TypeOK
  <2>3. /\ isolation'[sched.namespace] = isolation[sched.namespace] \cup {"namespace"}
        /\ \A v \in Namespaces : v # sched.namespace => isolation'[v] = isolation[v]
    BY <2>1, <2>2
  <2>4. CASE Has("namespace")
    <3>1. isolation'[sched.namespace] = isolation[sched.namespace]
      BY <2>3, <2>4 DEF Has
    <3> QED
      BY <1>3, <2>1, <2>2, <2>3, <2>4, <3>1 DEF IsolationInv, IsolationComplete
  <2>5. CASE ~Has("namespace")
    BY <1>3, <2>1, <2>2, <2>3, <2>5
  <2> QED
    BY <2>4, <2>5
<1>7. CASE ApplyNetworkPolicy
  <2>1. /\ sched.pc = "policy" /\ sched'.namespace = sched.namespace /\ UNCHANGED spoiled
        /\ sched'.pc = "quota"
        /\ isolation' = [isolation EXCEPT ![sched.namespace] = @ \cup {"policy"}]
    BY <1>7 DEF ApplyNetworkPolicy, Proceed, Make, TypeOK
  <2>2. sched.namespace \in Namespaces /\ isolation \in [Namespaces -> SUBSET Parts]
    BY <2>1 DEF TypeOK
  <2>3. "namespace" \in isolation[sched.namespace]
    BY <2>1 DEF IsolationInv
  <2> QED
    BY <1>3, <2>1, <2>2, <2>3
<1>8. CASE ApplyResourceQuota
  <2>1. /\ sched.pc = "quota" /\ sched'.namespace = sched.namespace /\ UNCHANGED spoiled
        /\ sched'.pc = "job"
        /\ isolation' = [isolation EXCEPT ![sched.namespace] = @ \cup {"quota"}]
    BY <1>8 DEF ApplyResourceQuota, Proceed, Make, TypeOK
  <2>2. sched.namespace \in Namespaces /\ isolation \in [Namespaces -> SUBSET Parts]
    BY <2>1 DEF TypeOK
  <2>3. /\ "namespace" \in isolation[sched.namespace]
        /\ sched.namespace \notin spoiled => "policy" \in isolation[sched.namespace]
    BY <2>1 DEF IsolationInv
  <2>4. isolation'[sched.namespace] = isolation[sched.namespace] \cup {"quota"}
    BY <2>1, <2>2
  <2>5. sched.namespace \notin spoiled => isolation'[sched.namespace] = Parts
    BY <2>2, <2>3, <2>4
  <2> QED
    BY <1>3, <2>1, <2>2, <2>5
<1>9. ASSUME sched.pc # "consuming", sched'.pc = "consuming", UNCHANGED isolation,
             spoiled \subseteq spoiled',
             sched.pc \in {"policy", "quota"} => sched.namespace \in spoiled'
      PROVE  IsolationInv'
  BY <1>9 DEF IsolationInv, IsolationComplete
<1>10. CASE CreateWorkerJob \/ SchedulerCrash
  BY <1>9, <1>10 DEF CreateWorkerJob, SchedulerCrash, Waiting
<1>11. CASE ClusterCallFails
  <2>1. CASE Proceed("find", "create") /\ UNCHANGED <<isolation, spoiled>>
    <3>1. sched.pc = "find" /\ sched'.pc = "create" /\ sched'.namespace = sched.namespace
      BY <2>1 DEF Proceed, TypeOK
    <3> QED
      BY <1>3, <1>4, <2>1, <3>1 DEF IsolationInv, IsolationComplete
  <2>2. CASE sched.pc = "job" /\ sched' = Waiting /\ UNCHANGED <<isolation, spoiled>>
    BY <1>9, <2>2 DEF Waiting
  <2>3. ASSUME NEW part \in Parts, Make(part) \/ UNCHANGED isolation,
               spoiled' = spoiled \cup {sched.namespace},
               NEW from \in {"create", "policy", "quota"}, NEW to \in {"quota", "job"},
               Proceed(from, to), from = "create" => to = "job"
        PROVE  IsolationInv'
    <3>1. sched.pc = from /\ sched'.pc = to /\ sched'.namespace = sched.namespace
      BY <2>3 DEF Proceed, TypeOK
    <3>2. sched.namespace \in Namespaces /\ isolation \in [Namespaces -> SUBSET Parts]
      BY <3>1 DEF TypeOK
    <3>3. /\ isolation[sched.namespace] \subseteq isolation'[sched.namespace]
          /\ \A v \in Namespaces : v # sched.namespace => isolation'[v] = isolation[v]
      BY <2>3, <3>2 DEF Make
    <3>4. sched'.pc = "quota" => "namespace" \in isolation[sched.namespace]
      BY <2>3, <3>1 DEF IsolationInv
    <3> QED
      BY <1>3, <2>3, <3>1, <3>2, <3>3, <3>4
  <2> QED
    BY <1>11, <2>1, <2>2, <2>3 DEF ClusterCallFails
<1>12. CASE \/ Evaluate \/ ScalerError \/ ScalerCrash \/ CooldownEnds
            \/ \E n \in 0..MaxReplicas : OperatorScales(n)
  <2>1. UNCHANGED schedVars
    BY <1>12 DEF Evaluate, GetPendingTaskCount, GetRunningTaskCount, GetWorkerReplicas,
                 GetDeployment, UpdateDeployment, ScalerError, ScalerCrash, CooldownEnds,
                 OperatorScales, OtherThanScaler
  <2> QED
    BY <1>1, <2>1 DEF schedVars
<1>13. CASE \/ \E p \in Pods : \/ StartPod(p) \/ StopPod(p) \/ PodCrash(p) \/ Poll(p)
                               \/ Finish(p) \/ BreakerHalfOpens(p) \/ BreakerInterval(p)
            \/ JobPodLeases \/ JobPodFinishes \/ JobPodCrash \/ Outage \/ Recovery
  <2>1. UNCHANGED schedVars
    BY <1>13 DEF StartPod, StopPod, PodCrash, Poll, Lease, LeaseFails, Finish, BreakerHalfOpens,
                 BreakerInterval, JobPodLeases, JobPodFinishes, JobPodCrash, Outage, Recovery,
                 OtherThanPods
  <2> QED
    BY <1>1, <2>1 DEF schedVars
<1>14. CASE UNCHANGED vars
  BY <1>1, <1>14 DEF vars, schedVars
<1> QED
  BY <1>2, <1>5, <1>6, <1>7, <1>8, <1>10, <1>11, <1>12, <1>13, <1>14
  DEF Next, HandleJobSubmitted

\* Every namespace there is has its policy and its quota, except while
\* EnsureNamespace is at it and where a call for it failed or the scheduler
\* stopped: a namespace that is found is taken for a complete one.
THEOREM IsolationIsComplete == Spec => []IsolationComplete
<1>1. TypeOK /\ TypeOK' /\ IsolationInv /\ [Next]_vars => IsolationInv'
  BY IsolationStep
<1>2. IsolationInv => IsolationComplete
  BY DEF IsolationInv
<1> QED
  BY <1>1, <1>2, IsolationInit, ClusterTypes, PTL DEF Spec
=============================================================================
