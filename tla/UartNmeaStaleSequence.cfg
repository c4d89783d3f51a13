CONSTANTS
    own = own
    other = other
    Mmsis = {own, other}
    NoMmsi = NoMmsi
    Unreadable = Unreadable
    IdCount = 2
    NoId = NoId
    chA = chA
    Channels = {chA}
    MaxTotal = 2
    FrameMax = 2
SPECIFICATION Spec
INVARIANT DropsOnlyOwn
