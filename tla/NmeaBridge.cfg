CONSTANTS
    s1 = s1
    s2 = s2
    s3 = s3
    Sessions = {s1, s2, s3}
    MaxSinks = 2
    IngestDepth = 2
    SinkDepth = 2
    MaxFrames = 3
    MaxRejects = 1
    Dispatcher = Dispatcher
    Nobody = Nobody
SPECIFICATION FairSpec
INVARIANTS
    TypeOK
    HandlesValid
    IngestAccounted
    SinkAccounted
    SinkOrdered
    NewestKept
    DropTotalExact
PROPERTIES
    ImplementsBroadcast
