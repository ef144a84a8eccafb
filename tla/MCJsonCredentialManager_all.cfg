CONSTANTS
    c1 = c1
    c2 = c2
    k1 = k1
    k2 = k2
    t1 = t1
    NoToken = NoToken
    Calls = {c1, c2}
    Keys = {k1, k2}
    Tokens = {t1}
    MaxAttempts = 2
    FaultSets = {{}, {"disk"}, {"crash"}, {"permissions"}, {"slow"}, {"crash", "permissions", "disk", "slow"}}
SPECIFICATION FairSpec
INVARIANTS
    MutualExclusion
PROPERTIES
    ImplementsStore
    EveryCallEnds
    StaleLockRemoved
CHECK_DEADLOCK FALSE
