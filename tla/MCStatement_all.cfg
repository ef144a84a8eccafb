CONSTANTS
    f1 = f1
    Handle = Handle
    Fetches = {f1}
    Options <- EveryStatement
    Chunks <- ChunksOfQueries
    Ends = {0, 3}
    Interrupts = 1
    MaxPolls = 1
    MaxFailures = 2
    MaxCancels = 1
    MaxContexts = 3
SPECIFICATION FairSpec
CHECK_DEADLOCK FALSE
INVARIANTS
    CompletesOnce
    RefreshesOwnResult
    RowsOnce
PROPERTIES
    EveryStatementCompletes
