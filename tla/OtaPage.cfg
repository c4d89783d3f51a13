CONSTANTS
    base = base
    good = good
    broken = broken
    Base = base
    Images = {good, broken}
    Signed = {base, good, broken}
    Healthy = {base, good}
    Erased = Erased
    Partial = Partial
    MaxUpload = 2
    MaxLength = 3
    MaxPolls = 2
SPECIFICATION PageSpec
INVARIANTS
    OnlyAcceptedTried
    AcceptedKept
PROPERTIES
    BrokenRunsOnce
    AcceptedReboots
    UploadComesBack
