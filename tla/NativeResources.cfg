SPECIFICATION FairSpec
CONSTANTS
    chat = chat
    data = data
    SessionKey = SessionKey
    Specs <- MCSpecs
    Size <- MCSize
    Window = 2
    MaxRecords = 2
    FrameBytes = 2
    MarkerBytes = 0
    Limits <- MCLimits
    MaxRevision = 5
INVARIANTS
    PeersAgree
    AccountingExact
    QuietAgreement
PROPERTY DesireConverges
CHECK_DEADLOCK FALSE
