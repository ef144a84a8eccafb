CONSTANTS
    MaxChunks = 5
    MaxRows = 2
    Arrays <- SmallArrays
    Requests <- OrderedRequests
SPECIFICATION SearchFairSpec
CHECK_DEADLOCK FALSE
INVARIANTS
    FindsOverlapping
PROPERTIES
    BoundsShrink
