------------------------------ MODULE Revocation ------------------------------
(***************************************************************************)
(* The revocation check of the driver's agents (lib/agent/https_*_agent):  *)
(* CRLs when crlValidatorConfig enables them, OCSP otherwise, for every    *)
(* socket that an agent creates, with or without a proxy.                  *)
(***************************************************************************)
EXTENDS OcspCheck, CrlValidator

CONSTANT OcspHosts  \* values of isOcspValidationDisabled to try

ASSUME HostsAssumption == OcspHosts \subseteq BOOLEAN

VARIABLE ocspDisabled  \* isOcspValidationDisabled(host)

revocationVars == <<socketVars, ocspVars, crlVars, ocspDisabled>>

\* insecureConnect is set, or the host is no Snowflake host and the account's
\* parameter leaves such hosts out: constant while the sockets are opened.
ocspDisabledFor == IF isCrlValidationEnabled THEN {FALSE} ELSE OcspHosts

\* The check that is not used stays in one initial state.
OcspIdle ==
    /\ ocsp = [mode |-> "FAIL_OPEN", useCacheServer |-> FALSE,
               kind |-> [c \in Certs |-> "good"], file |-> {}]
    /\ store = NewStore({}, FALSE)

RevocationInit ==
    /\ SocketsInit
    /\ CrlInit
    /\ OcspInit
    /\ isCrlValidationEnabled => OcspIdle
    /\ ~isCrlValidationEnabled => \A u \in Urls : published[u].valid
    /\ ocspDisabled \in ocspDisabledFor

\* OCSP is not for this host: the socket is used as it is.
unsecured(s) ==
    /\ ocspDisabled /\ sock[s] = "corked"
    /\ Uncork(s)
    /\ UNCHANGED <<fresh, ocspVars, crlVars, ocspDisabled>>

\* createConnection of the agents, and connect of the proxy agent.
viaOcsp == ~isCrlValidationEnabled /\ ~ocspDisabled
viaCrl == isCrlValidationEnabled

RevocationNext ==
    \/ viaOcsp /\ OcspNext /\ UNCHANGED <<crlVars, ocspDisabled>>
    \/ viaCrl /\ CrlNext /\ UNCHANGED <<ocspVars, ocspDisabled>>
    \/ \E s \in Sockets : unsecured(s)

RevocationSpec == RevocationInit /\ [][RevocationNext]_revocationVars

-----------------------------------------------------------------------------
(* Fairness: timers fire, servers answer or the request fails, files can be *)
(* read and written.                                                        *)

CrlRest == UNCHANGED <<crlVars, ocspDisabled>>
OcspRest == UNCHANGED <<ocspVars, ocspDisabled>>

Fairness ==
    /\ WF_revocationVars(viaOcsp /\ ocspTick /\ CrlRest)
    /\ \A s \in Sockets, c \in Certs :
          WF_revocationVars(viaOcsp /\ CertEvent(s, c) /\ CrlRest)
    /\ \A s \in Sockets : WF_revocationVars(viaCrl /\ WalkStep(s) /\ OcspRest)
    /\ \A s \in Sockets : WF_revocationVars(viaCrl /\ FetchStep(s) /\ OcspRest)

RevocationFairSpec == RevocationSpec /\ Fairness

-----------------------------------------------------------------------------
(* Properties. *)

RevocationOK == SocketsOK /\ OcspOK /\ CrlOK

\* FAIL_CLOSED: what is written to a socket leaves the process only if every
\* certificate of its chain is good, or was in an answer that is cached: no failure
\* of the responder or of the cache server, and no order in which the certificates
\* and the sockets report, opens it.  Excepted is a chain with a certificate that was
\* checked twice, as its first callback counts for another one: see DecidedByTheLast.
ClosedOpensOnlyGood ==
    viaOcsp /\ ocsp.mode = "FAIL_CLOSED" =>
        \A s \in fresh : sock[s] = "open" /\ ~CheckedTwice(s) =>
            \A c \in ChainOf(s) : ocsp.kind[c] = "good" \/ c \in ocsp.file \cup ServerFile

\* The callback of validateCertChain is called "if this is the last request to
\* complete" (socket_util.js:228): no certificate of the chain is still waiting for
\* its answer then.  It is not so: completed counts a certificate whose download was
\* answered by an error status twice.
DecidedByTheLast ==
    viaOcsp =>
        \A s \in fresh : sock[s] \in {"open", "destroyed"} =>
            \A c \in ChainOf(s) : val[s][c] = "idle"

\* Every socket that is being checked is uncorked or destroyed in the end, unless
\*   - its leaf is self-signed, and OCSP has nobody to wait for;
\*   - a certificate of its chain waits for an answer of the cache server that was
\*     dropped because another download had set downloadStatus to finish
\*     (ocsp_response_cache.js:237);
\*   - an answer was cut off in its body, for which everyone may wait.
\* Nothing else makes it wait, whichever order the checks of the sockets come in.
EveryCheckEnds ==
    \A s \in Sockets :
        []<>(\/ Settled(s)
             \/ viaOcsp /\ Chain[s] = << >>
             \/ \E c \in ChainOf(s) : val[s][c] = "dropped"
             \/ \E t \in Sockets : \E c \in ChainOf(t) : val[t][c] = "cut")

\* validateCertChain calls "the callback to invoke once the validation is complete"
\* (socket_util.js:180), whatever the chain.  It does not for the empty one of a
\* self-signed leaf, even when every request is answered.
ValidationIsCompleted == \A s \in Sockets : (s \in fresh) ~> Settled(s)
=============================================================================
