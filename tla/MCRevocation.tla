----------------------------- MODULE MCRevocation -----------------------------
EXTENDS Revocation, TLC

CONSTANTS s1, s2, leaf, other, ca, u1

\* Two hosts with a common intermediate certificate.
MCChain == s1 :> <<leaf, ca>> @@ s2 :> <<other, ca>>
KindsOf(l, o, c) == leaf :> l @@ other :> o @@ ca :> c
MCCertKinds == {KindsOf("good", "good", "good"), KindsOf("undecodable", "noAIA", "good"),
                KindsOf("unknown", "good", "revoked"), KindsOf("badSignature", "good", "revoked")}
MCFiles == {{}, {other, ca}}
MCServerFile == {ca}

\* The leaf and the intermediate certificate name the same distribution point, the
\* other leaf names none.
MCCrlUrls == leaf :> <<u1>> @@ other :> << >> @@ ca :> <<u1>>
MCShortLived == {}
MCBadCrls == {{}, {u1}}
MCCrlConfigs ==
    {c \in AnyCrlConfig :
        /\ c.checkMode = "DISABLED" =>
              ~c.inMemoryCache /\ ~c.onDiskCache /\ ~c.allowCertificatesWithoutCrlURL
        /\ c.checkMode = "ADVISORY" => c.inMemoryCache = c.onDiskCache
        /\ ~c.allowCertificatesWithoutCrlURL => ~c.inMemoryCache /\ ~c.onDiskCache}

\* One host, whose certificates are good; one whose leaf is self-signed; no CRLs.
MCGoodKinds == {KindsOf("good", "good", "good")}
MCSelfSigned == s1 :> <<leaf>> @@ s2 :> << >>
MCOcspOnly == {c \in MCCrlConfigs : c.checkMode = "DISABLED"}
=============================================================================
