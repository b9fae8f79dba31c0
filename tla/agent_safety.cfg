CONSTANTS
    j1 = j1
    j2 = j2
    JobIds = {j1, j2}
    BatchIds = {b1}
    None = None
    Clients = {c1}
    Testers = {}
    Inputs <- MCInputs
    Configs <- MCConfigs
    StoreFails = FALSE
    MaxRuns = 2
    MaxClientBatch = 2

SPECIFICATION Spec

INVARIANTS
    TypeOK
    NoLostWakeup
    OncePerRun
    HistoryTruthful
    TempCleaned
PROPERTY
    ImplementsLedger
