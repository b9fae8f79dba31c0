CONSTANTS
    a1 = a1
    a2 = a2
    c1 = c1
    c2 = c2
    AddressBits = 2
    LoopbackAddrs = {1}
    None = None
    Agents = {a1, a2}
    Desktop = {a1}
    Clients = {c1, c2}
    Invocations <- MCInvocations
    Exports <- MCExports
    MaxStarts = 2
    MaxFaults = 1

SPECIFICATION ManagementSpec
CHECK_DEADLOCK FALSE

INVARIANTS
    StoredSound
    AckedIsKept
    ImportAsPreviewed
    StateAgrees
PROPERTY
    CommandsEnd
