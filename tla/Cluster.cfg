CONSTANTS
    w1 = w1
    w2 = w2
    n1 = n1
    NoOne = NoOne
    Workspaces <- MCWorkspaces
    Namespaces <- MCNamespaces
    NamespaceOf <- MCNamespaceOf
    MinWorkers = 1
    MaxWorkers = 2
    ScaleUpThreshold = 1
    ScaleDownThreshold = 0
    FailureThreshold = 2
    NumPartitions = 2
    MaxReplicas = 2
    MaxRuns = 2
    MaxTrouble = 1
SPECIFICATION FairSpec
CHECK_DEADLOCK FALSE
INVARIANTS TypeOK ReplicasInBounds StrandedRowsCharged IsolationComplete
PROPERTIES OverrulesOnlyUnseen BacklogScales IdleShrinks PollingResumes
