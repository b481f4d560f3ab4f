CONSTANTS
    w1 = w1
    w2 = w2
    j1 = j1
    NoOne = NoOne
    Workers <- MCWorkers
    Jobs <- MCJobs
    NumPartitions = 2
    MaxRetries = 1
    MaxAttempts = 1
    MaxDeliveries = 1
    MaxRuns = 1
    MaxFaults = 1
    MaxCrashes = 0
    MaxExpiries = 0
SPECIFICATION Spec
SYMMETRY WorkerSymmetry
CHECK_DEADLOCK FALSE
INVARIANTS CountersSound RetriesBounded VerdictSound PartitionInRange
PROPERTIES ImplementsTaskLease
