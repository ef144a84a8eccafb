CONSTANTS
    NumFiles = 2
    Jobs <- MCJobs
    MaxRetry = 2
    MaxPolls = 2
    Parts = 3
    MaxFaults = 2
    MayExpire = TRUE
    MayReplace = TRUE
SPECIFICATION FairSpec
CHECK_DEADLOCK FALSE
INVARIANTS
    ReportedIsThere
    EveryFileHasItsRow
    NothingLeftBehind
PROPERTIES
    FormerObjectKept
    TransferEnds
