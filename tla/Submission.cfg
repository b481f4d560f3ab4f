CONSTANTS
    w1 = w1
    k1 = k1
    NoKey = NoKey
    Workspaces <- MCWorkspaces
    Keys <- MCKeys
    Requests <- MCRequests
    MaxRunning = 1
    BatchSize = 1
    MaxAttempts = 2
    MaxRequests = 3
    MaxConcurrent = 2
    MaxTrouble = 3
SPECIFICATION FairSpec
CHECK_DEADLOCK FALSE
INVARIANTS TypeOK OvershootBounded ActiveJobsBounded CounterDrift KeyHandledOnce LossesAccounted
PROPERTIES ImplementsDelivery EventSettles SlotsReturned
