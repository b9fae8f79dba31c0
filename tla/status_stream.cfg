CONSTANTS
    j1 = j1
    j2 = j2
    b1 = b1
    here = here
    site = site
    c1 = c1
    None = None
    JobIds = {j1, j2}
    BatchIds = {b1}
    AddressBits = 2
    LoopbackAddrs = {1}
    Conns = {c1}
    Peers <- MCPeers
    HostOf <- MCHostOf
    Submissions <- MCSubmissions
    Batches <- MCBatches
    Configs <- MCConfigs
    Outcomes = {"failed"}
    Capacity = 4
    MaxEvents = 3

SPECIFICATION StreamSpec
CHECK_DEADLOCK FALSE

INVARIANTS
    OnlyOwnJobs
    NoGaps
    ListedNotStarted
    LoopbackSameOrigin
    HistoryAgrees
PROPERTY
    OutcomeTold
