SPECIFICATION RevocationFairSpec
CONSTANTS
    s1 = s1
    s2 = s2
    leaf = leaf
    other = other
    ca = ca
    u1 = u1
    Sockets = {s1, s2}
    Certs = {leaf, other, ca}
    Urls = {u1}
    Chain <- MCChain
    CertKinds <- MCCertKinds
    Files <- MCFiles
    ServerFile <- MCServerFile
    MaxOcspFaults = 1
    CrlUrls <- MCCrlUrls
    ShortLived <- MCShortLived
    CrlConfigs <- MCCrlConfigs
    BadCrls <- MCBadCrls
    Revocable = {ca}
    Validity = 1
    Life = 3
    KeepOnDisk = 2
    MaxNow = 3
    MaxCrlFaults = 1
    OcspHosts = {TRUE, FALSE}
INVARIANTS
    ClosedOpensOnlyGood
PROPERTIES
    RevocationNoticed
    EveryCheckEnds

CHECK_DEADLOCK FALSE
