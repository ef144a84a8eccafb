---------------------------- MODULE Authentication ----------------------------
(***************************************************************************)
(* How connections of one user obtain what they log in with                *)
(* (lib/authentication/), up to the answer of the login request: the       *)
(* coordinator that lets the connections share one interactive flow, the   *)
(* OAuth authorization code flow with its cached tokens, the external      *)
(* browser and its cached ID token, Okta, key pair, and the authenticators *)
(* without a state.                                                        *)
(*                                                                         *)
(* A token is a number; issued[n] is what token n is, good the tokens that *)
(* their server still accepts.  0 is no token.                             *)
(***************************************************************************)
EXTENDS Naturals, Sequences, FiniteSets

CONSTANTS
    Connections,     \* the connections of one user to one host
    Assignments,     \* their configurations to try, functions to AnyConfig
    MaxLoginRetries, \* getRetrySfMaxLoginRetries
    MaxIssued        \* bound: tokens that are issued

\* The authenticator and clientStoreTemporaryCredential.  Password stands for all
\* that only copy a secret into the request, client for those that ask for a token.
AnyConfig == [kind : {"code", "web", "okta", "keypair", "password", "client"},
              store : BOOLEAN]

ASSUME AuthenticationAssumption ==
    /\ Assignments \subseteq [Connections -> AnyConfig]
    /\ {MaxLoginRetries, MaxIssued} \subseteq Nat
    /\ MaxIssued >= 3
    /\ "none" \notin Connections

VARIABLES
    config,     \* per connection: its configuration
    pc,         \* per connection: where it is
    again,      \* connections in the reauthenticate() of a response
    token,      \* per connection: the token in the body of its login request
    fetched,    \* per connection: tokens it has read or received, not yet written
    pending,    \* PENDING_AUTHS, per type of authentication
    cache,      \* the credential manager: access, refresh and ID token
    servers,    \* connections whose local server listens
    issued,     \* the types of the tokens that were issued
    good,       \* the tokens that are still valid
    numRetries, \* per connection: retries of its login
    rejected,   \* per connection: access tokens Snowflake refused (history)
    used        \* per connection: one-time tokens it has sent (history)

loginVars == <<numRetries, rejected, used>>
tokenVars == <<issued, good>>
vars == <<config, pc, again, token, fetched, pending, cache, servers, tokenVars,
          loginVars>>

Types == {"code", "web"}
Tokens == 0 .. Len(issued)  \* no token, and those that were issued
States == {"new", "authenticate", "waiting", "settling", "readAccess", "readRefresh",
           "grant", "evict", "checkPort", "listen", "stuck", "browser", "exchange", "writeAccess",
           "writeRefresh", "okta", "oktaAgain", "requestToken", "sent", "clear",
           "clearFailed", "reauth", "removeId", "writeId", "sleep",
           "connected", "failed", "lost"}

Kind(c) == config[c].kind
NoTokens == [access |-> 0, refresh |-> 0]
NoAuth == [state |-> "none", owner |-> "none", result |-> 0]

\* An earlier process may have left tokens in the cache; those no connection looks at
\* are left out.
Init ==
    /\ config \in Assignments
    /\ pc = [c \in Connections |-> "new"]
    /\ again = {}
    /\ token = [c \in Connections |-> 0]
    /\ fetched = [c \in Connections |-> NoTokens]
    /\ pending = [t \in Types |-> NoAuth]
    /\ LET Left(n, kind) == IF \E c \in Connections : Kind(c) = kind THEN {0, n} ELSE {0}
       IN  cache \in [access : Left(1, "code"), refresh : Left(2, "code"), id : Left(3, "web")]
    /\ servers = {}
    /\ issued = <<"access", "refresh", "id">>
    /\ good = {1, 2, 3}
    /\ numRetries = [c \in Connections |-> 0]
    /\ rejected = [c \in Connections |-> {}]
    /\ used = [c \in Connections |-> {}]

Go(c, s) == pc' = [pc EXCEPT ![c] = s]

\* A server issues tokens of the given types and no longer accepts those in `spent`.
Issue(types, spent) ==
    /\ Len(issued) + Len(types) <= MaxIssued
    /\ issued' = issued \o types
    /\ good' = (good \cup (Len(issued) + 1 .. Len(issued) + Len(types))) \ spent

Newest == Len(issued')

Obtain(c, type) == Issue(<<type>>, {}) /\ token' = [token EXCEPT ![c] = Newest]

\* AuthKeypair.authenticate signs a JWT.
signJwt(c) == Obtain(c, "jwt")

\* createAccessToken, getSAMLResponse and validateSAML of Okta.
getSAMLResponse(c) == Obtain(c, "saml")

-----------------------------------------------------------------------------
(* connect() up to the login request.                                      *)

\* Connection.connect() reads the ID token of the cache; getAuthenticator() takes
\* AuthIDToken if there is one.
connect(c) ==
    /\ pc[c] = "new"
    /\ Go(c, "authenticate")
    /\ token' = [token EXCEPT ![c] = IF Kind(c) = "web" /\ config[c].store
                                     THEN cache.id ELSE 0]
    /\ UNCHANGED <<config, again, fetched, pending, cache, servers, tokenVars, loginVars>>

\* Before a login request is sent again, Okta and key pair make a new token.
Renew(c) ==
    \/ Kind(c) = "okta" /\ Go(c, "oktaAgain") /\ UNCHANGED <<token, tokenVars>>
    \/ Kind(c) = "keypair" /\ signJwt(c) /\ Go(c, "sleep")
    \/ Kind(c) \notin {"okta", "keypair"} /\ Go(c, "sleep") /\ UNCHANGED <<token, tokenVars>>

\* What becomes of connection c when a login request has failed with a network error.
RetryLogin(c) ==
    /\ numRetries[c] < MaxLoginRetries
    /\ numRetries' = [numRetries EXCEPT ![c] = @ + 1]
    /\ Renew(c)

GiveUp(c) == Go(c, "failed") /\ UNCHANGED <<token, tokenVars, numRetries>>

\* A connection with an ID token needs no flow, until the token is refused.
Coordinated(c) == Kind(c) = "code" \/ (Kind(c) = "web" /\ (token[c] = 0 \/ c \in again))

\* What a promise does to those that wait for it, but for its owner, who first has to
\* take it out of PENDING_AUTHS.  A failure ends the first connect(); in
\* reauthenticate() it rejects the callback of the response, which HttpClient calls
\* again, with a network error: the login is retried as it is, if the error and the
\* time that is left allow it.
Resume(cs, owner, result) ==
    \E retryable \in BOOLEAN :
        LET retried == {c \in cs \cap again : result = 0 /\ retryable
                                             /\ numRetries[c] < MaxLoginRetries}
        IN  /\ pc' = [c \in Connections |->
                         IF c \in owner THEN "settling"
                         ELSE IF c \notin cs THEN pc[c]
                         ELSE IF result # 0 THEN "sent"
                         ELSE IF c \in retried THEN "sleep" ELSE "failed"]
            /\ token' = [c \in Connections |->
                            IF c \in cs /\ result # 0 THEN result ELSE token[c]]
            /\ numRetries' = [c \in Connections |->
                                 IF c \in retried THEN numRetries[c] + 1 ELSE numRetries[c]]
            /\ again' = again \ cs

\* Mutant: does not look for an authentication under way.
coordinateAuthAlone(c, first) ==
    /\ pending' = [pending EXCEPT ![Kind(c)] = [state |-> "running", owner |-> c, result |-> 0]]
    /\ Go(c, first)
    /\ UNCHANGED <<token, again, numRetries>>

coordinateAuth(c, first) ==
    LET p == pending[Kind(c)]
    IN  \/ /\ p.state = "none"
           /\ pending' = [pending EXCEPT ![Kind(c)] =
                             [state |-> "running", owner |-> c, result |-> 0]]
           /\ Go(c, first)
           /\ UNCHANGED <<token, again, numRetries>>
        \/ /\ p.state = "running"
           /\ Go(c, "waiting")
           /\ UNCHANGED <<token, again, numRetries, pending>>
        \/ /\ p.state = "done"
           /\ Resume({c}, {}, p.result)
           /\ UNCHANGED pending

authenticate(c) ==
    /\ pc[c] = "authenticate"
    /\ \/ /\ Coordinated(c)
          /\ coordinateAuth(c, IF Kind(c) = "code" THEN "readAccess" ELSE "listen")
          /\ UNCHANGED tokenVars
       \/ /\ ~Coordinated(c) /\ Kind(c) \in {"web", "password"}
          /\ Go(c, "sent")
          /\ UNCHANGED <<again, token, pending, tokenVars, numRetries>>
       \/ /\ Kind(c) = "keypair"
          /\ \/ signJwt(c) /\ Go(c, "sent")
             \/ Go(c, "failed") /\ UNCHANGED <<token, tokenVars>>
          /\ UNCHANGED <<again, pending, numRetries>>
       \/ /\ Kind(c) = "okta" /\ Go(c, "okta")
          /\ UNCHANGED <<again, token, pending, tokenVars, numRetries>>
       \/ /\ Kind(c) = "client" /\ Go(c, "requestToken")
          /\ UNCHANGED <<again, token, pending, tokenVars, numRetries>>
    /\ UNCHANGED <<config, fetched, cache, servers, rejected, used>>

\* Mutant: those that wait are forgotten.
settleOwner(c, result) ==
    /\ pending' = [pending EXCEPT ![Kind(c)].state = "done", ![Kind(c)].result = result]
    /\ Resume({}, {c}, result)

\* The flow of connection c ends: the promise is settled for all that wait.
settle(c, result) ==
    /\ pending' = [pending EXCEPT ![Kind(c)].state = "done", ![Kind(c)].result = result]
    /\ Resume({d \in Connections : pc[d] = "waiting" /\ Kind(d) = Kind(c)}, {c}, result)

\* The finally of coordinateAuth.
forget(c) ==
    /\ pc[c] = "settling"
    /\ Resume({c}, {}, pending[Kind(c)].result)
    /\ pending' = [pending EXCEPT ![Kind(c)] = NoAuth]
    /\ UNCHANGED <<config, fetched, cache, servers, tokenVars, rejected, used>>

InFlow(c) == Kind(c) \in Types /\ pending[Kind(c)].owner = c

-----------------------------------------------------------------------------
(* OAuth authorization code, and the browser.                              *)

readAccess(c) ==
    /\ pc[c] = "readAccess"
    /\ fetched' = [fetched EXCEPT ![c].access = cache.access]
    /\ Go(c, "readRefresh")
    /\ UNCHANGED <<config, again, token, pending, cache, servers, tokenVars, loginVars>>

\* The second read, and what authenticate() does with the two tokens.
readRefresh(c) ==
    /\ pc[c] = "readRefresh"
    /\ \/ /\ fetched[c].access # 0 /\ config[c].store
          /\ settle(c, fetched[c].access)
          /\ fetched' = [fetched EXCEPT ![c] = NoTokens]
       \/ /\ ~(fetched[c].access # 0 /\ config[c].store)
          /\ LET usable == cache.refresh # 0 /\ config[c].store
             IN  /\ fetched' = [fetched EXCEPT ![c] =
                                   [access |-> 0, refresh |-> IF usable THEN cache.refresh ELSE 0]]
                 /\ Go(c, IF usable THEN "grant" ELSE "checkPort")
          /\ UNCHANGED <<again, token, pending, numRetries>>
    /\ UNCHANGED <<config, cache, servers, tokenVars, rejected, used>>

\* getAccessTokenUsingRefreshToken: the server may hand out a new refresh token, and
\* then no longer accepts the old one.
grant(c) ==
    /\ pc[c] = "grant"
    /\ \/ /\ fetched[c].refresh \in good
          /\ \/ /\ Issue(<<"access">>, {})
                /\ fetched' = [fetched EXCEPT ![c] = [access |-> Newest, refresh |-> 0]]
             \/ /\ Issue(<<"access", "refresh">>, {fetched[c].refresh})
                /\ fetched' = [fetched EXCEPT ![c] = [access |-> Newest - 1, refresh |-> Newest]]
          /\ Go(c, "writeAccess")
       \/ /\ Go(c, "evict")
          /\ UNCHANGED <<fetched, tokenVars>>
    /\ UNCHANGED <<config, again, token, pending, cache, servers, loginVars>>

\* The refresh token failed: it is removed, and the flow starts from the beginning.
evict(c) ==
    /\ pc[c] = "evict"
    /\ cache' = [cache EXCEPT !.refresh = 0]
    /\ fetched' = [fetched EXCEPT ![c] = NoTokens]
    /\ Go(c, IF InFlow(c) THEN "checkPort" ELSE "authenticate")
    /\ UNCHANGED <<config, again, token, pending, servers, tokenVars, loginVars>>

\* The tokens that were received are stored: a flow settles its promise, a
\* reauthenticate() with a refresh token goes on by itself.
Stored(c) ==
    /\ fetched' = [fetched EXCEPT ![c] = NoTokens]
    /\ IF InFlow(c) THEN settle(c, fetched[c].access)
       ELSE Resume({c}, {}, fetched[c].access) /\ UNCHANGED pending

writeAccess(c) ==
    /\ pc[c] = "writeAccess"
    /\ cache' = [cache EXCEPT !.access = fetched[c].access]
    /\ \/ fetched[c].refresh = 0 /\ Stored(c)
       \/ /\ fetched[c].refresh # 0 /\ Go(c, "writeRefresh")
          /\ UNCHANGED <<again, token, fetched, pending, numRetries>>
    /\ UNCHANGED <<config, servers, tokenVars, rejected, used>>

writeRefresh(c) ==
    /\ pc[c] = "writeRefresh"
    /\ cache' = [cache EXCEPT !.refresh = fetched[c].refresh]
    /\ Stored(c)
    /\ UNCHANGED <<config, servers, tokenVars, rejected, used>>

\* executeFullAuthorizationCodeFlow up to the port of the redirect URI: isPortOpen()
\* rejects if the port is in use, and never answers if it cannot be opened for another
\* reason.
checkPort(c) ==
    /\ pc[c] = "checkPort"
    /\ \/ /\ \E s \in {"listen", "stuck"} : Go(c, s)
          /\ UNCHANGED <<again, token, pending, numRetries>>
       \/ settle(c, 0)
    /\ UNCHANGED <<config, fetched, cache, servers, tokenVars, rejected, used>>

\* The local server that the browser is redirected to listens, and the browser opens;
\* or another process has the port.
listen(c) ==
    /\ pc[c] = "listen"
    /\ \/ /\ Go(c, "browser")
          /\ servers' = servers \cup {c}
          /\ UNCHANGED <<again, token, pending, numRetries>>
       \/ settle(c, 0) /\ UNCHANGED servers
    /\ UNCHANGED <<config, fetched, cache, tokenVars, rejected, used>>

\* The user has logged in; the server closes.  The browser brings the authorization
\* code ...
codeArrives(c) ==
    /\ pc[c] = "browser" /\ Kind(c) = "code"
    /\ servers' = servers \ {c}
    /\ Go(c, "exchange")
    /\ UNCHANGED <<config, again, token, fetched, pending, cache, tokenVars,
                   loginVars>>

\* ... or, to openBrowserAndCollectTokens, the SAML token.
samlArrives(c) ==
    /\ pc[c] = "browser" /\ Kind(c) = "web"
    /\ servers' = servers \ {c}
    /\ Issue(<<"saml">>, {})
    /\ settle(c, Newest)
    /\ UNCHANGED <<config, fetched, cache, rejected, used>>

\* An error of the identity provider, no URL to open, or the timeout.
browserFails(c) ==
    /\ pc[c] = "browser"
    /\ servers' = servers \ {c}
    /\ settle(c, 0)
    /\ UNCHANGED <<config, fetched, cache, tokenVars, rejected, used>>

\* requestToken: the authorization code for tokens.
exchange(c) ==
    /\ pc[c] = "exchange"
    /\ \/ /\ \/ /\ Issue(<<"access">>, {})
                /\ fetched' = [fetched EXCEPT ![c] = [access |-> Newest, refresh |-> 0]]
             \/ /\ Issue(<<"access", "refresh">>, {})
                /\ fetched' = [fetched EXCEPT ![c] = [access |-> Newest - 1, refresh |-> Newest]]
          /\ Go(c, "writeAccess")
          /\ UNCHANGED <<again, token, pending, numRetries>>
       \/ settle(c, 0) /\ UNCHANGED <<fetched, tokenVars>>
    /\ UNCHANGED <<config, cache, servers, rejected, used>>

-----------------------------------------------------------------------------
(* Okta, and a token of the client's own.                                  *)

\* authenticate(): the URLs, a one-time token, the SAML response and its check.
oktaAuthenticate(c) ==
    /\ pc[c] = "okta"
    /\ \/ getSAMLResponse(c) /\ Go(c, "sent")
       \/ Go(c, "failed") /\ UNCHANGED <<token, tokenVars>>
    /\ UNCHANGED <<config, again, fetched, pending, cache, servers, loginVars>>

shouldRetryOktaAuth(n) == n <= MaxLoginRetries

\* reauthenticate() before a retry of the login, one round of its loop: retries are
\* counted together with those of the login.  When they, or the time, are used up, or
\* the check of the response fails, it throws, in a callback nobody awaits.
oktaReauthenticate(c) ==
    /\ pc[c] = "oktaAgain"
    /\ \/ /\ getSAMLResponse(c) /\ Go(c, "sleep")
          /\ UNCHANGED numRetries
       \/ /\ numRetries' = [numRetries EXCEPT ![c] = @ + 1]
          /\ Go(c, IF shouldRetryOktaAuth(numRetries[c] + 1) THEN "oktaAgain" ELSE "lost")
          /\ UNCHANGED <<token, tokenVars>>
       \/ /\ Go(c, "lost") /\ UNCHANGED <<numRetries, token, tokenVars>>
    /\ UNCHANGED <<config, again, fetched, pending, cache, servers, rejected, used>>

\* Client credentials, or the attestation of a workload.
requestToken(c) ==
    /\ pc[c] = "requestToken"
    /\ \/ Obtain(c, "access") /\ Go(c, "sent")
       \/ Go(c, "failed") /\ UNCHANGED <<token, tokenVars>>
    /\ UNCHANGED <<config, again, fetched, pending, cache, servers, loginVars>>

-----------------------------------------------------------------------------
(* The login request and its answer.                                       *)

Accepted(c) == Kind(c) = "password" \/ token[c] \in good

Use(c) == used' = IF Kind(c) \in {"okta", "keypair"}
                  THEN [used EXCEPT ![c] = @ \cup {token[c]}] ELSE used

\* The answer of a login with the external browser may carry a new ID token.
loginAccepted(c) ==
    /\ pc[c] = "sent" /\ Accepted(c)
    /\ \/ /\ Kind(c) = "web" /\ config[c].store
          /\ Issue(<<"id">>, {})
          /\ fetched' = [fetched EXCEPT ![c].access = Newest]
          /\ Go(c, "writeId")
       \/ Go(c, "connected") /\ UNCHANGED <<fetched, tokenVars>>
    /\ Use(c)
    /\ UNCHANGED <<config, again, token, pending, cache, servers, numRetries, rejected>>

writeId(c) ==
    /\ pc[c] = "writeId"
    /\ cache' = [cache EXCEPT !.id = fetched[c].access]
    /\ fetched' = [fetched EXCEPT ![c] = NoTokens]
    /\ Go(c, "connected")
    /\ UNCHANGED <<config, again, token, pending, servers, tokenVars,
                   loginVars>>

\* Snowflake answers with success: false.  It is the code of the answer that tells an
\* ID token or an access token that is no longer valid from any other failure; once
\* refused, a token stays so.
loginRejected(c) ==
    LET expired == good' = good \ {token[c]}
    IN  /\ pc[c] = "sent"
        /\ Use(c)
        /\ \/ /\ Kind(c) = "code" /\ expired /\ Go(c, "clear")
              /\ rejected' = [rejected EXCEPT ![c] = @ \cup {token[c]}]
           \/ Kind(c) = "code" /\ Go(c, "clearFailed") /\ UNCHANGED <<good, rejected>>
           \/ /\ Kind(c) = "web" /\ issued[token[c]] = "id" /\ expired /\ Go(c, "removeId")
              /\ UNCHANGED rejected
           \/ Kind(c) # "code" /\ Go(c, "failed") /\ UNCHANGED <<good, rejected>>
        /\ UNCHANGED <<config, again, token, fetched, pending, cache, servers, issued,
                       numRetries>>

loginFails(c) ==
    /\ pc[c] = "sent"
    /\ Use(c)
    /\ RetryLogin(c) \/ GiveUp(c)
    /\ UNCHANGED <<config, again, fetched, pending, cache, servers, rejected>>

sleepEnds(c) ==
    /\ pc[c] = "sleep"
    /\ Go(c, "sent")
    /\ UNCHANGED <<config, again, token, fetched, pending, cache, servers, tokenVars,
                   loginVars>>

\* Mutant: leaves the access token in the cache.
clearAccessTokenCacheNot(c) ==
    /\ pc[c] \in {"clear", "clearFailed"}
    /\ Go(c, IF pc[c] = "clear" THEN "reauth" ELSE "failed")
    /\ UNCHANGED <<config, again, token, fetched, pending, cache, servers, tokenVars,
                   loginVars>>

\* Every failed answer removes the access token; only one that says the token is not
\* valid leads to reauthenticate().
clearAccessTokenCache(c) ==
    /\ pc[c] \in {"clear", "clearFailed"}
    /\ cache' = [cache EXCEPT !.access = 0]
    /\ Go(c, IF pc[c] = "clear" THEN "reauth" ELSE "failed")
    /\ UNCHANGED <<config, again, token, fetched, pending, servers, tokenVars,
                   loginVars>>

\* AuthOauthAuthorizationCode.reauthenticate: with the refresh token of the cache,
\* without the coordinator.
reauthenticate(c) ==
    /\ pc[c] = "reauth"
    /\ again' = again \cup {c}
    /\ fetched' = [fetched EXCEPT ![c] = [access |-> 0, refresh |-> cache.refresh]]
    /\ Go(c, IF cache.refresh # 0 THEN "grant" ELSE "authenticate")
    /\ UNCHANGED <<config, token, pending, cache, servers, tokenVars, loginVars>>

\* AuthIDToken.reauthenticate: removes the ID token and goes to the browser.
removeId(c) ==
    /\ pc[c] = "removeId"
    /\ again' = again \cup {c}
    /\ cache' = [cache EXCEPT !.id = 0]
    /\ Go(c, "authenticate")
    /\ UNCHANGED <<config, token, fetched, pending, servers, tokenVars, loginVars>>

Step(c) ==
    \/ authenticate(c) \/ forget(c)
    \/ readAccess(c) \/ readRefresh(c) \/ grant(c) \/ evict(c)
    \/ writeAccess(c) \/ writeRefresh(c)
    \/ checkPort(c) \/ listen(c) \/ codeArrives(c) \/ samlArrives(c)
    \/ browserFails(c) \/ exchange(c)
    \/ oktaAuthenticate(c) \/ oktaReauthenticate(c) \/ requestToken(c)
    \/ loginAccepted(c) \/ writeId(c) \/ loginRejected(c) \/ loginFails(c) \/ sleepEnds(c)
    \/ clearAccessTokenCache(c) \/ reauthenticate(c) \/ removeId(c)

Next == \E c \in Connections : connect(c) \/ Step(c)

Spec == Init /\ [][Next]_vars

\* The code goes on, a request is answered or times out, and so does the browser.
FairSpec == Spec /\ \A c \in Connections : WF_vars(Step(c))

-----------------------------------------------------------------------------
(* Properties. *)

TypeOK ==
    /\ config \in Assignments
    /\ pc \in [Connections -> States]
    /\ again \subseteq Connections /\ servers \subseteq Connections
    /\ token \in [Connections -> Tokens]
    /\ fetched \in [Connections -> [access : Tokens, refresh : Tokens]]
    /\ pending \in [Types -> [state : {"none", "running", "done"},
                             owner : Connections \cup {"none"}, result : Tokens]]
    /\ cache \in [access : Tokens, refresh : Tokens, id : Tokens]
    /\ issued \in Seq({"access", "refresh", "id", "saml", "jwt"})
    /\ good \subseteq 1 .. Len(issued) /\ Len(issued) <= MaxIssued
    /\ numRetries \in [Connections -> 0 .. MaxLoginRetries + 1]
    /\ {rejected, used} \subseteq [Connections -> SUBSET Tokens]

\* However many connections of a user authenticate at a time, and however their flows
\* end, one browser window is open for each type of authentication and one local
\* server listens for it.
OneBrowser ==
    \A t \in Types :
        /\ Cardinality({c \in servers : Kind(c) = t}) <= 1
        /\ \A c \in servers : Kind(c) = t => pending[t].owner = c /\ pc[c] = "browser"

\* A connection whose access token was refused does not get the same one again out of
\* a flow of its own (it was removed from the cache, and nobody puts it back), and a
\* retry of the login never sends a SAML response of Okta, or a signed JWT, that was
\* sent before.
NoStaleToken ==
    \A c \in Connections :
        /\ pc[c] = "settling" /\ pending[Kind(c)].result # 0 =>
              pending[Kind(c)].result \notin rejected[c]
        /\ pc[c] = "sent" /\ Kind(c) \in {"okta", "keypair"} => token[c] \notin used[c]

\* Every connect() comes to an end, with a connection or an error, unless Okta's
\* reauthenticate() throws, or the port check of a flow, its own or the one it waits
\* for, never answers.
EveryLoginEnds ==
    \A c \in Connections :
        []<>(\/ pc[c] \in {"new", "connected", "failed", "lost", "stuck"}
             \/ /\ pc[c] = "waiting" /\ pending[Kind(c)].state = "running"
                /\ pc[pending[Kind(c)].owner] = "stuck")
=============================================================================
