--------------------------- MODULE MCAuthentication ---------------------------
EXTENDS Authentication

\* Connections of different kinds share nothing: all of them are of the code or of the
\* web kind, with or without the store, or each is of one of the kinds without a flow.
MCAssignments ==
    {f \in [Connections -> AnyConfig] :
        \/ \E k \in Types : \A c \in Connections : f[c].kind = k
        \/ /\ \A c \in Connections : f[c].kind \notin Types /\ ~f[c].store
           /\ \A c, d \in Connections : c # d => f[c].kind # f[d].kind}
=============================================================================
