CONSTANTS
    f1 = f1
    Handle = Handle
    Fetches = {f1}
    Options <- StreamedRows
    Chunks <- ChunksOfQueries
    Ends = {0, 1, 3}
    Interrupts = 1
    MaxPolls = 0
    MaxFailures = 2
    MaxCancels = 0
    MaxContexts = 1
SPECIFICATION FairSpec
CHECK_DEADLOCK FALSE
PROPERTIES
    EveryFetchEnds
