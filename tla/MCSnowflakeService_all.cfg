CONSTANTS
    c1 = c1
    r1 = r1
    r2 = r2
    d1 = d1
    d2 = d2
    Connects = {c1}
    Requests = {r1, r2}
    Destroys = {d1, d2}
    Authenticators = {"okta", "keypair", "idtoken"}
    SleepSigns = {"positive", "nonpositive"}
    MaxLoginRetries = 1
    MaxRejections = 2
SPECIFICATION FairSpec
INVARIANTS
    Accounted
PROPERTIES
    QuietDisconnectIsFinal
    ImplementsContract
    EveryOperationAnswered
CHECK_DEADLOCK FALSE
