CONSTANTS
    pid1 = pid1
    pid2 = pid2
    None = None
    Platforms = {"windows", "unix"}
    MaxFaults = 1
    Pids = {pid1, pid2}
    MaxStarts = 3
    Forms <- MCForms
    Choices <- MCChoices
    Requests <- MCRequests
    FormBytes = {9, 25, 40, 50}

SPECIFICATION DocumentSpec
CHECK_DEADLOCK FALSE

INVARIANTS
    UserAppsKept
    PdfIsConverted
    LeavesNothing
    RightPaper
PROPERTY
    ConversionEnds
