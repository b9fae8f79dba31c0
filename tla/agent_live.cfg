CONSTANTS
    j1 = j1
    j2 = j2
    JobIds = {j1, j2}
    BatchIds = {b1}
    None = None
    Clients = {c1, c2}
    Testers = {t1}
    Inputs <- MCInputsLive
    Configs <- MCConfigs
    StoreFails = FALSE
    MaxRuns = 1
    MaxClientBatch = 2

SPECIFICATION FairSpec

INVARIANT
    PrintExclusive
PROPERTIES
    AcceptedIsSettled
    ShutdownCompletes
