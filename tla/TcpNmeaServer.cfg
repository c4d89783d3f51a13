CONSTANTS
    MaxPeers = 2
    MaxSinks = 3
    f1 = f1
    f2 = f2
    f3 = f3
    Fds = {f1, f2, f3}
    NoFd = NoFd
    Client = Client
SPECIFICATION FairSpec
INVARIANTS
    SinkAvailable
    SlotsExclusive
    DescriptorsOwned
    SessionsCounted
PROPERTY SlotRecovered
