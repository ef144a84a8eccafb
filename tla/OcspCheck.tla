------------------------------ MODULE OcspCheck ------------------------------
(***************************************************************************)
(* The OCSP check of a certificate chain: lib/agent/socket_util.js, the    *)
(* response cache with the cache server behind it                          *)
(* (lib/agent/ocsp_response_cache.js), the request to the responder        *)
(* (lib/agent/check.js) and the verdict on a response                      *)
(* (lib/agent/cert_util.js).                                               *)
(*                                                                         *)
(* The certificates of a chain are checked concurrently, and so are        *)
(* sockets; they share one response cache object, with one downloadStatus. *)
(* What the code puts off with process.nextTick runs before any other      *)
(* event: it is kept in the sequence ticks, and every event waits until it *)
(* is empty.                                                               *)
(***************************************************************************)
EXTENDS TlsSockets

CONSTANTS
    CertKinds,    \* the assignments of a kind to every certificate to try
    Files,        \* the sets of certificates whose answer the cache file may have
    ServerFile,   \* the certificates in the cache server's file
    MaxOcspFaults \* bound: requests that fail

Kinds == {"good", "revoked", "unknown", "badSignature", "noAIA", "undecodable"}

ASSUME OcspAssumption ==
    /\ CertKinds \subseteq [Certs -> Kinds]
    /\ Files \subseteq SUBSET Certs
    /\ ServerFile \subseteq Certs
    /\ MaxOcspFaults \in Nat

VARIABLES
    ocsp,       \* mode, useCacheServer, the certificates' kinds, the cache file
    store,      \* the OcspResponseCache object and its file
    val,        \* per socket and certificate: what its check waits for
    tries,      \* numRetries of check()
    completed,  \* per socket: callbacks of validateCert so far
    errors,     \* per socket and certificate: errors[index]
    ticks,      \* callbacks of process.nextTick
    late,       \* aborted downloads whose error event is still to come
    unread,     \* downloads answered by an error status, which leaves cb armed
    rerun,      \* per socket and certificate: the check that cb runs a second time
    ocspFaults  \* failures so far

ocspVars == <<ocsp, store, val, tries, completed, errors, ticks, late, unread,
              rerun, ocspFaults>>

\* An error code; "none" stands for null.  A cached response is kept as what its
\* verification yields.
Absent == "absent"
Results == {"none", "REVOKED", "UNKNOWN", "INVALID_SIGNATURE", "DECODE", "TYPE_ERROR",
            "NO_AIA", "RESPONDER"}
Waits == {"idle", "download", "wait", "request", "sleep", "dropped", "cut"}

\* The second check asks the responder; what it yields is reported or due.
Repetitions == {"none", "request", "over"}

NoResponses == [c \in Certs |-> Absent]
Cached(responses) == {c \in Certs : responses[c] # Absent}

\* The entries of a file that are loaded: those a verification has no error for.
Loaded(f) == [c \in Certs |-> IF c \in f THEN "none" ELSE Absent]

NewStore(f, expired) ==
    [status |-> "not_start", cache |-> Loaded(f), maxSize |-> Cardinality(f),
     initialized |-> f # {}, expired |-> expired, updated |-> FALSE,
     file |-> Loaded(f)]

OcspInit ==
    /\ ocsp \in [mode : {"FAIL_OPEN", "FAIL_CLOSED"}, useCacheServer : BOOLEAN,
                 kind : CertKinds, file : Files]
    /\ \E x \in BOOLEAN : (ocsp.file = {} => ~x) /\ store = NewStore(ocsp.file, x)
    /\ val = [s \in Sockets |-> [c \in Certs |-> "idle"]]
    /\ tries = [s \in Sockets |-> [c \in Certs |-> 1]]
    /\ completed = [s \in Sockets |-> 0]
    /\ errors = [s \in Sockets |-> [c \in Certs |-> "none"]]
    /\ ticks = << >>
    /\ late = {}
    /\ unread = {}
    /\ rerun = [s \in Sockets |-> [c \in Certs |-> "none"]]
    /\ ocspFaults = 0

-----------------------------------------------------------------------------
(* The response cache. *)

Expired(st) == st.initialized /\ st.expired

resetCacheStatus(st) ==
    [st EXCEPT !.status = "not_start",
               !.file = IF st.updated THEN st.cache ELSE @,
               !.updated = FALSE]

\* set: a full cache drops the least recently used entry; which one that is does
\* not matter here.
setResponse(st, c, r) ==
    LET put == [st.cache EXCEPT ![c] = r]
        full == Cardinality(Cached(put)) > st.maxSize
    IN  {[st EXCEPT !.cache = IF full THEN [put EXCEPT ![d] = Absent] ELSE put,
                    !.updated = TRUE] :
            d \in IF full THEN Cached(put) \ {c} ELSE {c}}

\* initCache makes a cache of one entry and leaves cacheInitialized alone.
initCache(st, c, r) ==
    [st EXCEPT !.cache = [NoResponses EXCEPT ![c] = r], !.maxSize = 1, !.updated = TRUE]

updateCache(st) ==
    [st EXCEPT !.cache = Loaded(ServerFile), !.maxSize = Cardinality(ServerFile),
               !.initialized = TRUE, !.expired = FALSE, !.updated = TRUE]

\* verifyOCSPResponse on the answer of the responder.
verifyOCSPResponse(c) ==
    CASE ocsp.kind[c] = "good" -> "none"
      [] ocsp.kind[c] = "revoked" -> "REVOKED"
      [] ocsp.kind[c] = "unknown" -> "UNKNOWN"
      [] ocsp.kind[c] = "badSignature" -> "INVALID_SIGNATURE"

-----------------------------------------------------------------------------
(* The verdict on a chain. *)

isValidOCSPError(err) == err \in {"REVOKED", "UNKNOWN"}

canEarlyExitForOCSP(errs) ==
    IF ocsp.mode = "FAIL_CLOSED"
    THEN \E c \in DOMAIN errs : errs[c] # "none"
    ELSE /\ \A c \in DOMAIN errs : errs[c] = "none" \/ isValidOCSPError(errs[c])
         /\ \E c \in DOMAIN errs : errs[c] = "REVOKED"

\* The callback of validateCertChain, given by secureSocket.
ChainDone(s, errs, st) ==
    /\ store' = resetCacheStatus(st)
    /\ IF canEarlyExitForOCSP(errs) THEN Destroy(s) ELSE Uncork(s)

\* Mutant: the first certificate to report decides for the chain.
CertDoneEarly(s, c, err, response) ==
    /\ completed' = [completed EXCEPT ![s] = @ + 1]
    /\ errors' = [errors EXCEPT ![s][c] = err]
    /\ IF completed'[s] = 1
       THEN ChainDone(s, [d \in ChainOf(s) |-> errors'[s][d]], store)
       ELSE UNCHANGED <<store, sock>>
    /\ UNCHANGED <<ocsp, fresh>>

\* The callback of validateCert: err, and the response if there is one.  Whether
\* all the certificates have reported is a matter of counting.
CertDone(s, c, err, response) ==
    LET keep == response # Absent /\ (response = "none" \/ isValidOCSPError(response))
        kept == CASE ~keep -> {store}
                  [] keep /\ store.initialized -> setResponse(store, c, response)
                  [] OTHER -> {initCache(store, c, response)}
    IN  /\ completed' = [completed EXCEPT ![s] = @ + 1]
        /\ errors' = [errors EXCEPT ![s][c] = err]
        /\ \E st \in kept :
              IF completed'[s] = Len(Chain[s])
              THEN ChainDone(s, [d \in ChainOf(s) |-> errors'[s][d]], st)
              ELSE store' = st /\ UNCHANGED sock
        /\ UNCHANGED <<ocsp, fresh>>

-----------------------------------------------------------------------------
(* The check of one certificate. *)

undecodable(c) == ocsp.kind[c] = "undecodable"
Tick(s, c, do, err) == [s |-> s, c |-> c, do |-> do, err |-> err]

\* buildCertId gives no key for a certificate that cannot be decoded.
Hit(c, st) == st.initialized /\ ~st.expired /\ ~undecodable(c) /\ st.cache[c] # Absent

\* check() sends a request, unless it cannot be made or nobody is to be asked.
Sends(c, st) == ~Hit(c, st) /\ ocsp.kind[c] \notin {"undecodable", "noAIA"}

\* What getOcspResonseAndVerify puts off.  An error of decode is reported, and the
\* function goes on.
Ticks(s, c, useCacheServer, st) ==
    (IF undecodable(c) THEN <<Tick(s, c, "cb", "DECODE")>> ELSE << >>) \o
    (CASE Hit(c, st) -> <<Tick(s, c, "cb", st.cache[c])>>
       [] ~Hit(c, st) /\ useCacheServer -> <<Tick(s, c, "getOcspCache", "none")>>
       [] ~Hit(c, st) /\ ~useCacheServer /\ undecodable(c) ->
             <<Tick(s, c, "cb", "TYPE_ERROR")>>
       [] ~Hit(c, st) /\ ~useCacheServer /\ ocsp.kind[c] = "noAIA" ->
             <<Tick(s, c, "cb", IF ocsp.mode = "FAIL_OPEN" THEN "none" ELSE "NO_AIA")>>
       [] OTHER -> << >>)

Looked(st) == IF Expired(st) THEN resetCacheStatus(st) ELSE st

\* getOcspResonseAndVerify(err, false), called when the download is over.
getOcspResonseAndVerify(s, c, st, rest) ==
    /\ ticks' = rest \o Ticks(s, c, FALSE, st)
    /\ store' = Looked(st)
    /\ val' = [val EXCEPT ![s][c] = IF Sends(c, st) THEN "request" ELSE "idle"]
    /\ tries' = [tries EXCEPT ![s][c] = 1]
    /\ UNCHANGED <<ocsp, completed, errors, socketVars>>

\* Mutant: does not come back when a download is under way.
getOcspCacheOnce(s, c, rest) ==
    IF store.status = "finish" THEN getOcspResonseAndVerify(s, c, store, rest)
    ELSE /\ store' = [store EXCEPT !.status = "started"]
         /\ val' = [val EXCEPT ![s][c] = IF store.status = "started" THEN "idle" ELSE "download"]
         /\ ticks' = rest
         /\ UNCHANGED <<ocsp, tries, completed, errors, socketVars>>

getOcspCache(s, c, rest) ==
    \/ /\ store.status = "started"
       /\ val' = [val EXCEPT ![s][c] = "wait"]
       /\ ticks' = rest
       /\ UNCHANGED <<ocsp, store, tries, completed, errors, socketVars>>
    \/ /\ store.status = "finish"
       /\ getOcspResonseAndVerify(s, c, store, rest)
    \/ /\ store.status = "not_start"
       /\ store' = [store EXCEPT !.status = "started"]
       /\ val' = [val EXCEPT ![s][c] = "download"]
       /\ ticks' = rest
       /\ UNCHANGED <<ocsp, tries, completed, errors, socketVars>>

\* The handshake is over, and the session is a new one: every certificate of the
\* chain is looked up in the cache at once.
validateCertChain(s) ==
    LET remote == ocsp.useCacheServer
        st == IF remote THEN store ELSE [store EXCEPT !.status = "finish"]
    IN  /\ ticks' = FlattenSeq([i \in DOMAIN Chain[s] |-> Ticks(s, Chain[s][i], remote, st)])
        /\ store' = Looked(st)
        /\ val' = [val EXCEPT ![s] =
              [c \in Certs |-> IF c \in ChainOf(s) /\ ~remote /\ Sends(c, st)
                               THEN "request" ELSE val[s][c]]]
        /\ UNCHANGED <<ocsp, tries, completed, errors>>

-----------------------------------------------------------------------------
(* Events. *)

Quiet == ticks = << >>
Fault == ocspFaults < MaxOcspFaults /\ ocspFaults' = ocspFaults + 1
NoFault == UNCHANGED ocspFaults

secureConnectFresh(s) ==
    /\ Quiet /\ sock[s] = "corked"
    /\ StartValidation(s)
    /\ validateCertChain(s)
    /\ NoFault /\ UNCHANGED <<late, unread, rerun>>

\* A resumed session is not checked again; a chain that TLS itself refuses is not
\* looked at.
secureConnectOther(s) ==
    /\ Quiet /\ sock[s] = "corked"
    /\ Uncork(s) \/ Destroy(s)
    /\ UNCHANGED <<ocspVars, fresh>>

ocspTick ==
    /\ ~Quiet
    /\ LET t == Head(ticks)
       IN  \/ /\ t.do \in {"cb", "rerun"}
              /\ CertDone(t.s, t.c, t.err, Absent)
              /\ ticks' = Tail(ticks)
              /\ UNCHANGED <<val, tries>>
           \/ /\ t.do = "getOcspCache"
              /\ getOcspCache(t.s, t.c, Tail(ticks))
    /\ NoFault /\ UNCHANGED <<late, unread, rerun>>

\* setTimeout(getOcspCache, 10)
cacheTimer(s, c) ==
    /\ Quiet /\ val[s][c] = "wait"
    /\ getOcspCache(s, c, << >>)
    /\ NoFault /\ UNCHANGED <<late, unread, rerun>>

Finish(st) == [st EXCEPT !.status = "finish"]

\* checkOCSPResponse: an answer that comes when downloadStatus is finish already is
\* dropped, with its callback.  An error status leaves the response unread and cb
\* armed, other than a body that is no JSON.
Armed(s, c) == unread' = unread \cup {<<s, c>>}

downloadResponse(s, c) ==
    /\ Quiet /\ val[s][c] = "download"
    /\ IF store.status = "finish"
       THEN /\ val' = [val EXCEPT ![s][c] = "dropped"]
            /\ (NoFault /\ UNCHANGED unread) \/ (Fault /\ Armed(s, c))
            /\ UNCHANGED <<ocsp, store, tries, completed, errors, ticks, socketVars>>
       ELSE \/ /\ NoFault /\ UNCHANGED unread
               /\ getOcspResonseAndVerify(s, c, Finish(updateCache(store)), << >>)
            \/ /\ Fault /\ (UNCHANGED unread \/ Armed(s, c))
               /\ getOcspResonseAndVerify(s, c, Finish(store), << >>)
    /\ UNCHANGED <<late, rerun>>

\* The 'timeout' or 'error' event of a request whose response lies unread: cb is
\* called, and that is the second time unless the answer was dropped.  The callbacks
\* that the second check puts off are marked; its retries are left out, as nothing
\* tells them from a responder that is slow.
Rerun(q) == [i \in DOMAIN q |-> [q[i] EXCEPT !.do = "rerun"]]

responseUnread(s, c) ==
    /\ Quiet /\ <<s, c>> \in unread
    /\ unread' = unread \ {<<s, c>>}
    /\ \/ /\ val[s][c] = "dropped"
          /\ getOcspResonseAndVerify(s, c, Finish(store), << >>)
          /\ UNCHANGED rerun
       \/ /\ val[s][c] # "dropped"
          /\ rerun' = [rerun EXCEPT ![s][c] =
                          IF Sends(c, Finish(store)) THEN "request" ELSE "over"]
          /\ ticks' = Rerun(Ticks(s, c, FALSE, Finish(store)))
          /\ store' = Looked(Finish(store))
          /\ UNCHANGED <<ocsp, val, tries, completed, errors, socketVars>>
    /\ NoFault /\ UNCHANGED late

\* The second check has the responder's answer, or none.
secondAnswer(s, c) ==
    /\ Quiet /\ rerun[s][c] = "request"
    /\ rerun' = [rerun EXCEPT ![s][c] = "over"]
    /\ \/ NoFault /\ CertDone(s, c, verifyOCSPResponse(c), verifyOCSPResponse(c))
       \/ Fault /\ CertDone(s, c, "RESPONDER", Absent)
    /\ UNCHANGED <<val, tries, ticks, late, unread>>

\* The request fails.  After a timeout it is aborted, and the error that follows
\* from this finds no callback but sets downloadStatus once more.
downloadError(s, c) ==
    /\ Quiet /\ val[s][c] = "download" /\ Fault
    /\ getOcspResonseAndVerify(s, c, Finish(store), << >>)
    /\ late' \in {late, late \cup {<<s, c>>}}
    /\ UNCHANGED <<unread, rerun>>

abortedError ==
    /\ Quiet
    /\ \E p \in late : late' = late \ {p}
    /\ store' = Finish(store)
    /\ NoFault
    /\ UNCHANGED <<ocsp, val, tries, completed, errors, ticks, unread, rerun, socketVars>>

\* The connection closes in the middle of the body: the response has no end event,
\* and the request that has a response has no error event.
answerCut(s, c) ==
    /\ Quiet /\ val[s][c] \in {"download", "request"} /\ Fault
    /\ val' = [val EXCEPT ![s][c] = "cut"]
    /\ UNCHANGED <<ocsp, store, tries, completed, errors, ticks, late, unread, rerun, socketVars>>

maxNumRetries == IF ocsp.mode = "FAIL_CLOSED" THEN 2 ELSE 1

responderAnswers(s, c) ==
    /\ Quiet /\ val[s][c] = "request"
    /\ CertDone(s, c, verifyOCSPResponse(c), verifyOCSPResponse(c))
    /\ val' = [val EXCEPT ![s][c] = "idle"]
    /\ NoFault /\ UNCHANGED <<tries, ticks, late, unread, rerun>>

\* A timeout, or a status that is worth another try, is retried after a pause, as
\* often as the mode allows; another error is final at once.
responderFails(s, c) ==
    /\ Quiet /\ val[s][c] = "request" /\ Fault
    /\ \/ /\ tries[s][c] < maxNumRetries
          /\ tries' = [tries EXCEPT ![s][c] = @ + 1]
          /\ val' = [val EXCEPT ![s][c] = "sleep"]
          /\ UNCHANGED <<ocsp, store, completed, errors, socketVars>>
       \/ /\ CertDone(s, c, "RESPONDER", Absent)
          /\ val' = [val EXCEPT ![s][c] = "idle"]
          /\ UNCHANGED tries
    /\ UNCHANGED <<ticks, late, unread, rerun>>

retryTimer(s, c) ==
    /\ Quiet /\ val[s][c] = "sleep"
    /\ val' = [val EXCEPT ![s][c] = "request"]
    /\ UNCHANGED <<ocsp, store, tries, completed, errors, ticks, late, unread, rerun,
                   ocspFaults, socketVars>>

\* maxAgeSec passes since the oldest entry of the cache was written.
cacheAges ==
    /\ Quiet /\ store.initialized /\ ~store.expired
    /\ store' = [store EXCEPT !.expired = TRUE]
    /\ UNCHANGED <<ocsp, val, tries, completed, errors, ticks, late, unread, rerun, ocspFaults,
                   socketVars>>

CertEvent(s, c) ==
    \/ cacheTimer(s, c) \/ downloadResponse(s, c) \/ downloadError(s, c)
    \/ responderAnswers(s, c) \/ responderFails(s, c) \/ retryTimer(s, c)

OcspNext ==
    \/ \E s \in Sockets : secureConnectFresh(s) \/ secureConnectOther(s)
    \/ ocspTick
    \/ \E s \in Sockets : \E c \in ChainOf(s) :
          CertEvent(s, c) \/ answerCut(s, c) \/ responseUnread(s, c) \/ secondAnswer(s, c)
    \/ abortedError
    \/ cacheAges

-----------------------------------------------------------------------------
(* Properties. *)

\* A certificate of the socket was checked a second time.
CheckedTwice(s) == \E c \in ChainOf(s) : rerun[s][c] # "none"

Responses == [Certs -> Results \cup {Absent}]
AnyStore ==
    [status : {"not_start", "started", "finish"}, cache : Responses, maxSize : Nat,
     initialized : BOOLEAN, expired : BOOLEAN, updated : BOOLEAN, file : Responses]
AnyTick ==
    [s : Sockets, c : Certs, do : {"cb", "getOcspCache", "rerun"}, err : Results]

OcspOK ==
    /\ ocsp \in [mode : {"FAIL_OPEN", "FAIL_CLOSED"}, useCacheServer : BOOLEAN,
                 kind : [Certs -> Kinds], file : SUBSET Certs]
    /\ store \in AnyStore
    /\ Cardinality(Cached(store.cache)) <= store.maxSize
    /\ val \in [Sockets -> [Certs -> Waits]]
    /\ tries \in [Sockets -> [Certs -> 1 .. maxNumRetries]]
    /\ completed \in [Sockets -> Nat]
    /\ errors \in [Sockets -> [Certs -> Results]]
    /\ ticks \in Seq(AnyTick) /\ \A i \in DOMAIN ticks : ticks[i].c \in ChainOf(ticks[i].s)
    /\ late \subseteq Sockets \X Certs
    /\ unread \subseteq Sockets \X Certs
    /\ rerun \in [Sockets -> [Certs -> Repetitions]]
    /\ ocspFaults \in 0 .. MaxOcspFaults
=============================================================================
