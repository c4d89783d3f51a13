CONSTANTS
    srvA = srvA
    srvB = srvB
    Servers = {srvA, srvB}
    Disabled = Disabled
    f1 = f1
    f2 = f2
    Fds = {f1, f2}
    NoFd = NoFd
    MaxChanges = 2
SPECIFICATION FairSpec
INVARIANTS
    ShutdownHitsOwnSocket
    NoFdLeak
    StaleSessionDoomed
PROPERTIES
    LiveApply
