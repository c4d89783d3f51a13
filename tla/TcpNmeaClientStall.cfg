CONSTANTS
    srvA = srvA
    Servers = {srvA}
    Disabled = Disabled
    f1 = f1
    Fds = {f1}
    NoFd = NoFd
    MaxChanges = 1
SPECIFICATION StallSpec
PROPERTY LiveApply
