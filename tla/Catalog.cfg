CONSTANTS
    w1 = w1
    w2 = w2
    d1 = d1
    d2 = d2
    j1 = j1
    c1 = c1
    c2 = c2
    NoOne = NoOne
    Workspaces <- MCWorkspaces
    Datasets <- MCDatasets
    Jobs <- MCJobs
    Clients <- MCClients
    Columns <- MCColumns
    MaxRequests = 3
SPECIFICATION Spec
CHECK_DEADLOCK FALSE
INVARIANTS TypeOK  CompletedStays ReferencesHold UpdatesLostToOverlapOnly
