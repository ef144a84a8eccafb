----------------------------- MODULE HttpRequests -----------------------------
(***************************************************************************)
(* HTTP requests and their retries: the HTTP client (lib/http/base.js),    *)
(* the retry middleware of axios (lib/http/axios_instance.ts) and, on top  *)
(* of the client, the download of chunks (lib/services/large_result_set.js)*)
(* and the requests of the session service (sendHttpRequest of             *)
(* lib/services/sf.js).                                                    *)
(*                                                                         *)
(* Each of the layers may send a request again, and each answers the one   *)
(* above it with a callback or a promise.                                  *)
(***************************************************************************)
EXTENDS Naturals, FiniteSets

CONSTANTS
    Requests,     \* requests that are made
    Uses,         \* the kinds of requests to try, a subset of AnyUse
    MaxRetries,   \* maxRetries of the middleware
    MaxNumRetries,\* getRetryLargeResultSetMaxNumRetries
    MaxRenewals   \* bound: how often the server refuses the token of a request

\* chunk: getObject; session: sendHttpRequest, the only one whose callers ask for the
\* middleware (the requests of a statement do); promise: post, get, head and put.
AnyUse == {u \in [layer : {"chunk", "session", "promise"}, middleware : BOOLEAN] :
              u.middleware => u.layer = "session"}

ASSUME HttpAssumption ==
    /\ Uses \subseteq AnyUse
    /\ MaxRetries \in Nat /\ MaxNumRetries \in Nat /\ MaxRenewals \in Nat

VARIABLES
    use,        \* per request: its kind
    pc,         \* per request: where it is
    aborted,    \* requests that abort() has canceled
    numRetries, \* per request: retries of the middleware, since it was made anew
    again,      \* per request: retries of getObject
    renewals,   \* per request: how often it was made anew with another token
    sent,       \* per request: HTTP requests sent
    answer,     \* per request: the last answer of the server
    calls,      \* per request: results handed to the caller, in number
    result,     \* per request: the last of them
    threw       \* requests whose caller threw out of its callback

vars == <<use, pc, aborted, numRetries, again, renewals, sent, answer, calls, result, threw>>

\* 200; 200 with an XML error of S3; 200 with a body that is no JSON; 5xx, 408 or
\* 429; 403; another status; a status, or one of 5xx, without a body; no answer; 200
\* with the code of an ID token or OAuth token that the server does not take.
Answers == {"ok", "xml", "badJson", "busy", "403", "other", "partial", "partialBusy",
            "network", "refused"}
States == {"new", "tick", "sent", "backoff", "pause", "reauth", "done", "crashed"}

Init ==
    /\ use \in [Requests -> Uses]
    /\ pc = [r \in Requests |-> "new"]
    /\ aborted = {}
    /\ numRetries = [r \in Requests |-> 0]
    /\ again = [r \in Requests |-> 0]
    /\ renewals = [r \in Requests |-> 0]
    /\ sent = [r \in Requests |-> 0]
    /\ answer = [r \in Requests |-> "none"]
    /\ calls = [r \in Requests |-> 0]
    /\ result = [r \in Requests |-> "none"]
    /\ threw = {}

\* request() sends on the next tick, requestAsync() at once.
issue(r) ==
    /\ pc[r] = "new"
    /\ IF use[r].layer = "promise"
       THEN pc' = [pc EXCEPT ![r] = "sent"] /\ sent' = [sent EXCEPT ![r] = @ + 1]
       ELSE pc' = [pc EXCEPT ![r] = "tick"] /\ UNCHANGED sent
    /\ UNCHANGED <<use, aborted, numRetries, again, renewals, answer, calls, result, threw>>

-----------------------------------------------------------------------------
(* The layers above: what becomes of an answer.                            *)

isRetryableHttpError(a, retry403) ==
    a \in {"busy", "partialBusy"} \/ (retry403 /\ a = "403")

\* The client hands a response with a body on as a response, whatever its status;
\* everything else is an error.
IsError(a) == a \in {"badJson", "partial", "partialBusy", "network", "canceled"}

Report(r, outcome, n) ==
    /\ pc' = [pc EXCEPT ![r] = "done"]
    /\ calls' = [calls EXCEPT ![r] = @ + n]
    /\ result' = [result EXCEPT ![r] = outcome]

\* requestAsync: the promise is fulfilled or rejected.
settlePromise(r, a) ==
    /\ use[r].layer = "promise"
    /\ Report(r, IF a \in {"ok", "xml"} THEN "success" ELSE "error", 1)
    /\ UNCHANGED <<again, threw>>

\* The callback of getObject.
isUnsuccessfulResponse(a) == ~IsError(a) /\ a # "ok"
isRetryableClientError(a) == IsError(a) /\ a # "canceled"
isRetryableError(a) == isRetryableHttpError(a, TRUE) \/ isRetryableClientError(a)

\* Mutant: goes on for ever.
getObjectAlways(r, a) ==
    /\ use[r].layer = "chunk"
    /\ IF a = "ok" THEN Report(r, "success", 1) /\ UNCHANGED again
       ELSE /\ pc' = [pc EXCEPT ![r] = "pause"]
            /\ UNCHANGED <<again, calls, result>>
    /\ UNCHANGED threw

\* Mutant: takes every response with status 200 for the chunk.
getObjectAnyBody(r, a) ==
    /\ use[r].layer = "chunk"
    /\ Report(r, IF a \in {"ok", "xml"} THEN "success" ELSE "error", 1)
    /\ UNCHANGED <<again, threw>>

getObject(r, a) ==
    /\ use[r].layer = "chunk"
    /\ IF (IsError(a) \/ isUnsuccessfulResponse(a)) /\ again[r] < MaxNumRetries
          /\ isRetryableError(a)
       THEN /\ again' = [again EXCEPT ![r] = @ + 1]
            /\ pc' = [pc EXCEPT ![r] = "pause"]
            /\ UNCHANGED <<calls, result>>
       ELSE /\ Report(r, IF a = "ok" THEN "success" ELSE "error", 1)
            /\ UNCHANGED again
    /\ UNCHANGED threw

\* The callback of sendHttpRequest, and the caller's callback below it.  It is called
\* in the then() of the request, and if it throws there (in the caller's code) once
\* more in the catch() behind it, with the error; if it throws in the catch() nobody
\* handles the rejection.  When the token is refused it is not called: the callback
\* awaits the re-authentication, which takes the token from its cache first.
sendHttpRequest(r, a) ==
    LET outcome == IF a = "ok" THEN "success" ELSE "error"
    IN  /\ use[r].layer = "session"
        /\ \/ /\ a = "refused"
              /\ pc' = [pc EXCEPT ![r] = "reauth"]
              /\ UNCHANGED <<calls, result, threw>>
           \/ a # "refused" /\ Report(r, outcome, 1) /\ UNCHANGED threw
           \/ /\ a \in {"ok", "xml"}
              /\ Report(r, "error", 2)
              /\ threw' = threw \cup {r}
           \/ /\ a # "refused"
              /\ pc' = [pc EXCEPT ![r] = "crashed"]
              /\ calls' = [calls EXCEPT ![r] = @ + (IF a \in {"ok", "xml"} THEN 2 ELSE 1)]
              /\ result' = [result EXCEPT ![r] = "error"]
              /\ threw' = threw \cup {r}
        /\ UNCHANGED again

\* The request is made anew, with retries of its own and without a count; or the
\* re-authentication throws, and the catch() of the client reports that.
reauthenticated(r) ==
    /\ pc[r] = "reauth"
    /\ \/ /\ renewals' = [renewals EXCEPT ![r] = @ + 1]
          /\ numRetries' = [numRetries EXCEPT ![r] = 0]
          /\ pc' = [pc EXCEPT ![r] = "tick"]
          /\ UNCHANGED <<calls, result, threw>>
       \/ /\ Report(r, "error", 1)
          /\ UNCHANGED <<renewals, numRetries, threw>>
       \/ /\ pc' = [pc EXCEPT ![r] = "crashed"]
          /\ calls' = [calls EXCEPT ![r] = @ + 1]
          /\ result' = [result EXCEPT ![r] = "error"]
          /\ threw' = threw \cup {r}
          /\ UNCHANGED <<renewals, numRetries>>
    /\ UNCHANGED <<use, aborted, again, sent, answer>>

Deliver(r, a) == settlePromise(r, a) \/ getObject(r, a) \/ sendHttpRequest(r, a)

-----------------------------------------------------------------------------
(* The request on the wire.                                                 *)

\* process.nextTick(sendRequest): axios looks at the signal before it sends.
nextTick(r) ==
    /\ pc[r] = "tick"
    /\ IF r \in aborted
       THEN /\ answer' = [answer EXCEPT ![r] = "canceled"]
            /\ Deliver(r, "canceled")
            /\ UNCHANGED sent
       ELSE /\ pc' = [pc EXCEPT ![r] = "sent"]
            /\ sent' = [sent EXCEPT ![r] = @ + 1]
            /\ UNCHANGED <<again, answer, calls, result, threw>>
    /\ UNCHANGED <<use, aborted, numRetries, renewals>>

\* The caller of a request of the session service may abort it; a request that is on
\* its way is rejected at once.  That is true of the request that was made first: the
\* object of one that is made anew nobody gets.
abort(r) ==
    /\ use[r].layer = "session" /\ r \notin aborted /\ renewals[r] = 0
    /\ pc[r] \in {"tick", "sent", "backoff"}
    /\ aborted' = aborted \cup {r}
    /\ IF pc[r] = "sent"
       THEN answer' = [answer EXCEPT ![r] = "canceled"] /\ Deliver(r, "canceled")
       ELSE UNCHANGED <<pc, again, answer, calls, result, threw>>
    /\ UNCHANGED <<use, numRetries, renewals, sent>>

\* The interceptor: an error with a response is retryable by its status, one without
\* unless the client canceled it.
isRetryable(a) == a = "network" \/ isRetryableHttpError(a, FALSE)

retriesLeft(r) == numRetries[r] < MaxRetries

interceptor(r, a) ==
    IF use[r].middleware /\ isRetryable(a) /\ retriesLeft(r)
    THEN /\ numRetries' = [numRetries EXCEPT ![r] = @ + 1]
         /\ pc' = [pc EXCEPT ![r] = "backoff"]
         /\ UNCHANGED <<again, calls, result, threw>>
    ELSE Deliver(r, a) /\ UNCHANGED numRetries

answers(r) ==
    /\ pc[r] = "sent"
    /\ \E a \in Answers :
          /\ a = "refused" => use[r].layer = "session" /\ renewals[r] < MaxRenewals
          /\ answer' = [answer EXCEPT ![r] = a]
          /\ interceptor(r, a)
    /\ UNCHANGED <<use, aborted, renewals, sent>>

\* Mutant: sends without a look at the signal.
backoffEndsBlindly(r) ==
    /\ pc[r] = "backoff"
    /\ pc' = [pc EXCEPT ![r] = "sent"]
    /\ sent' = [sent EXCEPT ![r] = @ + 1]
    /\ UNCHANGED <<use, aborted, numRetries, again, renewals, answer, calls, result, threw>>

\* After the sleep of the middleware, which an abort does not cut short.
backoffEnds(r) ==
    /\ pc[r] = "backoff"
    /\ IF r \in aborted
       THEN /\ answer' = [answer EXCEPT ![r] = "canceled"]
            /\ Deliver(r, "canceled")
            /\ UNCHANGED sent
       ELSE /\ pc' = [pc EXCEPT ![r] = "sent"]
            /\ sent' = [sent EXCEPT ![r] = @ + 1]
            /\ UNCHANGED <<again, answer, calls, result, threw>>
    /\ UNCHANGED <<use, aborted, numRetries, renewals>>

\* Mutant: only the first retry has a timer.
pauseEndsOnce(r) ==
    /\ pc[r] = "pause" /\ again[r] = 1
    /\ pc' = [pc EXCEPT ![r] = "tick"]
    /\ UNCHANGED <<use, aborted, numRetries, again, renewals, sent, answer, calls, result,
                   threw>>

\* After the sleep of getObject: a new request.
pauseEnds(r) ==
    /\ pc[r] = "pause"
    /\ pc' = [pc EXCEPT ![r] = "tick"]
    /\ UNCHANGED <<use, aborted, numRetries, again, renewals, sent, answer, calls, result,
                   threw>>

Step(r) ==
    \/ issue(r) \/ nextTick(r) \/ answers(r)
    \/ backoffEnds(r) \/ pauseEnds(r) \/ reauthenticated(r)

Next == \E r \in Requests : Step(r) \/ abort(r)

Spec == Init /\ [][Next]_vars

\* Timers fire, a request that gets no answer times out, and a re-authentication ends.
FairSpec == Spec /\ \A r \in Requests : WF_vars(Step(r))

-----------------------------------------------------------------------------
(* Properties. *)

TypeOK ==
    /\ use \in [Requests -> Uses]
    /\ pc \in [Requests -> States]
    /\ aborted \subseteq Requests /\ threw \subseteq Requests
    /\ numRetries \in [Requests -> 0 .. MaxRetries]
    /\ again \in [Requests -> 0 .. MaxNumRetries]
    /\ renewals \in [Requests -> 0 .. MaxRenewals]
    /\ sent \in [Requests -> Nat] /\ calls \in [Requests -> Nat]
    /\ answer \in [Requests -> Answers \cup {"none", "canceled"}]
    /\ result \in [Requests -> {"none", "success", "error"}]

\* However often a request is sent, its caller gets one result, after which nothing
\* of the request is left; only a caller that throws gets a second one, with the
\* error it threw.  The result is that of the last answer: getObject and the session
\* service report a success only if it was one, and an error only if it was none or
\* the callback threw.
OneResult ==
    \A r \in Requests :
        /\ calls[r] <= IF r \in threw THEN 2 ELSE 1
        /\ calls[r] > 0 <=> pc[r] \in {"done", "crashed"}
        /\ use[r].layer # "promise" /\ result[r] = "success" => answer[r] = "ok"
        /\ use[r].layer # "promise" /\ result[r] = "error" => answer[r] # "ok" \/ r \in threw

\* How often one of the layers may send a request that is made once.
Budget(r) ==
    1 + (IF use[r].layer = "chunk" THEN MaxNumRetries
         ELSE IF use[r].middleware THEN MaxRetries ELSE 0)

\* The retries of the layers do not multiply: a request is sent as often as one of
\* them allows, each time that it is made.  It is made anew once for each token that
\* the server refuses, and the code sets no limit to that.
SentBounded == \A r \in Requests : sent[r] <= (1 + renewals[r]) * Budget(r)

\* A request that was aborted is not sent again, whatever it was waiting for.
NotSentAfterAbort == [][\A r \in aborted : sent'[r] = sent[r]]_vars

\* Every request that was made ends, if the server does not refuse its tokens for ever.
EveryRequestEnds == \A r \in Requests : []<>(pc[r] \in {"new", "done", "crashed"})
=============================================================================
