--------------------------- MODULE CredentialStore ---------------------------
(***************************************************************************)
(* What a credential manager promises: a map from keys to tokens, changed  *)
(* one key at a time and never by anything but a write or a removal.  On a *)
(* disk that fails, or among processes that crash, it may lose entries.    *)
(***************************************************************************)
CONSTANTS
    Keys,      \* keys of cached credentials
    Tokens,    \* tokens that may be cached
    NoToken    \* what a key holds that has no token

VARIABLES
    store,     \* the token of each key
    reliable   \* nothing goes wrong below

Init ==
    /\ store = [k \in Keys |-> NoToken]
    /\ reliable \in BOOLEAN

Write(k, t) == store' = [store EXCEPT ![k] = t]

Remove(k) == store' = [store EXCEPT ![k] = NoToken]

Fault == ~reliable /\ store' \in [Keys -> Tokens \cup {NoToken}]

Next ==
    /\ Fault \/ \E k \in Keys : Remove(k) \/ \E t \in Tokens : Write(k, t)
    /\ UNCHANGED reliable

Spec == Init /\ [][Next]_<<store, reliable>>

=============================================================================
