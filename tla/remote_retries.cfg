CONSTANTS
    j1 = j1
    j2 = j2
    b1 = b1
    JobIds = {j1, j2}
    BatchIds = {b1}
    None = None
    Clients = {}
    Testers = {}
    Inputs <- MCInputs
    Configs <- MCGoodConfigs
    StoreFails = FALSE
    MaxRuns = 1
    MaxClientBatch = 0
    RemoteTasks <- MCTask
    MaxFetch = 1
    ReportLimit = 1

SPECIFICATION RemoteSpec

INVARIANT
    AbandonedExceedsMax
