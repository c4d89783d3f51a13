CONSTANTS
    d = d
    v = v
    Values = {d, v}
    Default = d
    Malformed = Malformed
    Absent = Absent
    old = old
    ExtraKeys = {old}
    LongKey = LongKey
    BatchMax = 2
    Touched = {"ais", "tcp", "sta"}
SPECIFICATION Spec
INVARIANTS
    AcknowledgedSurvives
    NoSilentRevert
    ResetComplete
