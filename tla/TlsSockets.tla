------------------------------ MODULE TlsSockets ------------------------------
(***************************************************************************)
(* The TLS sockets of the driver's agents, as the two revocation checks    *)
(* see them (lib/agent/socket_util.js, lib/agent/crl_validator/index.ts).  *)
(*                                                                         *)
(* A socket is corked as soon as the agent gets it, so that nothing the    *)
(* HTTP layer writes leaves the process.  When the handshake is over the   *)
(* certificate chain is checked; the check ends by uncorking the socket or *)
(* by destroying it.                                                       *)
(***************************************************************************)
EXTENDS Integers, Sequences, FiniteSets, SequencesExt

CONSTANTS
    Sockets,  \* the connections that are opened
    Certs,    \* certificates, the self-signed roots left out
    Chain     \* per socket: its certificates, the leaf first

\* validateCertChain walks from a certificate to its issuer, up to the self-signed one;
\* the chain of a socket that TLS has authorized does not come back to a certificate.
\* It is empty when the leaf itself is self-signed (and trusted).
ASSUME ChainAssumption ==
    /\ IsFiniteSet(Certs)
    /\ Chain \in [Sockets -> Seq(Certs)]
    /\ \A s \in Sockets : IsInjective(Chain[s])

VARIABLES
    sock,  \* per socket: what the agent has done with it
    fresh  \* sockets that are not a resumed TLS session

socketVars == <<sock, fresh>>

SocketStates == {"corked", "validating", "open", "destroyed"}
ChainOf(s) == ToSet(Chain[s])
Settled(s) == sock[s] \in {"corked", "open", "destroyed"}

SocketsInit ==
    /\ sock = [s \in Sockets |-> "corked"]
    /\ fresh = {}

Uncork(s) == sock' = [sock EXCEPT ![s] = IF @ = "destroyed" THEN @ ELSE "open"]
Destroy(s) == sock' = [sock EXCEPT ![s] = "destroyed"]
StartValidation(s) ==
    /\ sock' = [sock EXCEPT ![s] = "validating"]
    /\ fresh' = fresh \cup {s}

SocketsOK == sock \in [Sockets -> SocketStates] /\ fresh \subseteq Sockets
=============================================================================
