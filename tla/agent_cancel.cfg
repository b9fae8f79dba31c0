CONSTANTS
    j1 = j1
    j2 = j2
    JobIds = {j1, j2}
    BatchIds = {b1}
    None = None
    Clients = {c1}
    Testers = {}
    Inputs <- MCInputsLive
    Configs <- MCConfigs
    StoreFails = FALSE
    MaxRuns = 1
    MaxClientBatch = 1

SPECIFICATION Spec

PROPERTY
    NoJobAfterCancel
