CONSTANTS
    c1 = c1
    k1 = k1
    k2 = k2
    d1 = d1
    d2 = d2
    p1 = p1
    Conns = {c1}
    Connects = {k1, k2}
    Destroys = {d1, d2}
    Polls = {p1}
    Stores = {c1}
    KeepAlives = {TRUE, FALSE}
    Throwing = {TRUE, FALSE}
    NoDataMaxRetry = 1
    Patterns = 2
    MaxRunning = 1
SPECIFICATION ConnectionFairSpec
CHECK_DEADLOCK FALSE
INVARIANTS
    TimerStops
    CallbackOnce
PROPERTIES
    EveryCallAnswered
    EveryPollEnds
