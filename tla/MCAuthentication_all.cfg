SPECIFICATION FairSpec
CONSTANTS
    c1 = c1
    c2 = c2
    Connections = {c1, c2}
    Assignments <- MCAssignments
    MaxLoginRetries = 1
    MaxIssued = 5
INVARIANTS
    OneBrowser
    NoStaleToken
PROPERTIES
    EveryLoginEnds
CHECK_DEADLOCK FALSE
