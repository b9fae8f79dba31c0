CONSTANTS
    html = html
    doctor = doctor
    Callers = {html, doctor}
    Html = html
    MaxCandidates = 2
    Timeout = 3
    Cdp = 1
    WaitTimes = {0, 1}
    Requests <- MCRequests
    DnsAnswers <- MCDnsAnswers
    None = None

SPECIFICATION HtmlSpec

INVARIANTS
    HtmlTypeOK
    OneLaunch
    NoLostSignal
    CdpFitsDeadline
    RenderLeavesNothing
    PdfUnblocked

PROPERTY
    RenderEnds
