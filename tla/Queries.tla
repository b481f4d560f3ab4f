------------------------------ MODULE Queries ------------------------------
(***************************************************************************)
(* The rows of the tables jobs, runs and tasks, reduced to the columns the *)
(* services branch on, and the SQL statements that write them.             *)
(*                                                                         *)
(* Every statement is a function of the row it is given: PostgreSQL runs   *)
(* each of them in a transaction of its own, so one use of an operator     *)
(* below is one atomic step of the modules that extend this one.  None of  *)
(* the UPDATEs looks at the state a row is in ("WHERE id = $1"), only      *)
(* LeaseTask and HeartbeatTask have a condition of their own.              *)
(***************************************************************************)
EXTENDS Integers, FiniteSets

CONSTANTS Workers,   \* worker processes; a restarted process has a new id
          NoOne      \* lease_owner IS NULL

ASSUME NoOneAssumption == NoOne \notin Workers

(***************************************************************************)
(* Rows.  "NONE" is the state of a row that was not inserted yet.  Of the  *)
(* enums only the values some statement writes are kept.                   *)
(***************************************************************************)
JobStates  == {"SUBMITTED", "QUEUED", "SUCCEEDED", "FAILED", "CANCELLED"}
RunStates  == {"NONE", "SUBMITTED", "SUCCEEDED", "FAILED", "CANCELLED"}
TaskStates == {"NONE", "PENDING", "LEASED", "SUCCEEDED", "FAILED", "DEAD"}

TerminalTask == {"SUCCEEDED", "FAILED", "DEAD"}

\* lease_expires_at against NOW(): NULL, still in the future, in the past.
Leases == {"null", "live", "expired"}

TaskRow == [state : TaskStates, owner : Workers \cup {NoOne},
            lease : Leases, retries : Nat]

RunRow(jobs) == [state : RunStates, job : jobs, total : Nat,
                 pending : Int, running : Int, done : Nat, failed : Nat]

NoTask == [state |-> "NONE", owner |-> NoOne, lease |-> "null", retries |-> 0]

NoRun(j) == [state |-> "NONE", job |-> j, total |-> 0,
             pending |-> 0, running |-> 0, done |-> 0, failed |-> 0]

(***************************************************************************)
(* Statements on tasks.                                                    *)
(***************************************************************************)
CreateTask == [NoTask EXCEPT !.state = "PENDING"]

\* Variants: also rows whose lease ran out; whatever their state; or leased.
LeasableOrExpired(task) ==
    task.state \in {"PENDING", "LEASED"} /\ task.lease \in {"null", "expired"}
LeasableByLease(task) == task.state # "NONE" /\ task.lease \in {"null", "expired"}
LeasableIfOpen(task) == task.state \in {"PENDING", "LEASED"}

\* The rows the subquery of LeaseTask looks for.
Leasable(task) == task.state = "PENDING" /\ task.lease \in {"null", "expired"}

LeaseTask(task, w) ==
    [task EXCEPT !.state = "LEASED", !.owner = w, !.lease = "live"]

HeartbeatTask(task, w) ==
    IF task.owner = w THEN [task EXCEPT !.lease = "live"] ELSE task

\* Variant: the lease is not given back.
RetryTaskKeepsLease(task) ==
    [task EXCEPT !.state = "PENDING", !.retries = @ + 1]

RetryTask(task) ==
    [state |-> "PENDING", owner |-> NoOne, lease |-> "null",
     retries |-> task.retries + 1]

UpdateTaskState(task, s) == [task EXCEPT !.state = s]

FailTaskWithError(task) == [task EXCEPT !.state = "FAILED"]

(***************************************************************************)
(* Statements on runs.                                                     *)
(***************************************************************************)
CreateRun(j) == [NoRun(j) EXCEPT !.state = "SUBMITTED"]

UpdateRunTasksTotal(run, n) == [run EXCEPT !.total = n]

InitRunProgress(run) == [run EXCEPT !.pending = run.total]

TaskStarted(run) ==
    [run EXCEPT !.pending = run.pending - 1, !.running = run.running + 1]

TaskSucceeded(run) ==
    [run EXCEPT !.running = run.running - 1, !.done = run.done + 1]

TaskFailed(run) ==
    [run EXCEPT !.running = run.running - 1, !.failed = run.failed + 1]

UpdateRunState(run, s) == [run EXCEPT !.state = s]

CompleteRun(run, s) == [run EXCEPT !.state = s]
=============================================================================
