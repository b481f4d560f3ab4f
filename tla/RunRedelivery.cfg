CONSTANTS
    w1 = w1
    w2 = w2
    j1 = j1
    NoOne = NoOne
    Workers <- MCOneWorker
    Jobs <- MCJobs
    NumPartitions = 2
    MaxRetries = 0
    MaxAttempts = 2
    MaxDeliveries = 1
    MaxRuns = 2
    MaxFaults = 1
    MaxCrashes = 1
    MaxExpiries = 0
SPECIFICATION Spec
CHECK_DEADLOCK FALSE
INVARIANTS TotalIsWhole VerdictSound
