CONSTANTS
    s1 = s1
    s2 = s2
    Streams = {s1, s2}
    Scenarios <- OneOrTwo
    RemoteRows <- FourChunks
    PrefetchSize = 1
    StreamInterrupts = 1
    Outcomes = {"ok", "transient", "fatal"}
    MaxFailures = 2
SPECIFICATION FairSpec
CHECK_DEADLOCK FALSE
INVARIANTS
    RowsInOrder
    RowsReleased
    
PROPERTIES
    EveryStreamFinishes
