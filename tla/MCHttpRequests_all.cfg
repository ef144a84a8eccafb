SPECIFICATION FairSpec
CONSTANTS
    Requests = {r1, r2}
    Uses <- MCUses
    MaxRetries = 2
    MaxNumRetries = 2
    MaxRenewals = 2
INVARIANTS
    OneResult
    SentBounded
PROPERTIES
    NotSentAfterAbort
    EveryRequestEnds
CHECK_DEADLOCK FALSE
