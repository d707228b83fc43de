SPECIFICATION MCSpec
CONSTANTS
    SessionKey = SessionKey
    a = a
    b = b
    c = c
    d = d
    u = u
    NoName = {u}
    Keys <- MCKeys
    Size <- MCSize
    Unnameable <- MCUnnameable
    Window = 1
    MaxRecords = 4
    FrameBytes = 4
    MarkerBytes = 1
    Limits <- MCLimits
    CommandCapacity = 1
    Budget = 1
INVARIANTS
    NoLostWake
    InitialCompleteSound
PROPERTIES
    Converges
