CONSTANTS
    j1 = j1
    j2 = j2
    b1 = b1
    JobIds = {j1, j2}
    BatchIds = {b1}
    None = None
    Clients = {}
    Testers = {}
    Inputs <- MCInputs
    Configs <- MCOneTry
    StoreFails = FALSE
    MaxRuns = 2
    MaxClientBatch = 0
    RemoteTasks <- MCBatchOfTwo
    MaxFetch = 1
    ReportLimit = 2

SPECIFICATION RemoteSpec

INVARIANTS
    RemoteAtMostOnce
    VerdictTruthful
