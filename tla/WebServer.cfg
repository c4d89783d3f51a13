CONSTANTS
    Clients = {"c1", "c2"}
    Readers = {"c1", "c2"}
    BufSize = 4
    ConfigMax = 3
    MaxLength = 5
    Backlog = 2
    TxBuf = 1
    Window = 1
    CounterMod = 3
SPECIFICATION FairSpec
INVARIANTS
    RoomBehindBody
PROPERTIES
    NextIsServed
    InputNotMissed
