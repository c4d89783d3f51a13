CONSTANTS
    own = own
    other = other
    Mmsis = {own, other}
    NoMmsi = NoMmsi
    Unreadable = Unreadable
    IdCount = 1
    NoId = NoId
    chA = chA
    chB = chB
    Channels = {chA, chB}
    MaxTotal = 3
    FrameMax = 2
SPECIFICATION FairSpec
INVARIANTS
    WholeLines
    DropsOnlyOwnLossless
    OwnMessageDropped
PROPERTY ConfigApplied
