CONSTANTS
    j1 = j1
    j2 = j2
    b1 = b1
    JobIds = {j1}
    BatchIds = {b1}
    None = None
    Clients = {c1}
    Testers = {}
    Inputs <- MCInputs
    Configs <- MCGoodConfigs
    StoreFails = FALSE
    MaxRuns = 1
    MaxClientBatch = 0
    RemoteTasks <- MCTask
    MaxFetch = 2
    ReportLimit = 1

SPECIFICATION RemoteFairSpec

INVARIANT
    NoLostWakeup
PROPERTIES
    RemoteJobIsReported
    RemoteShutdownCompletes
