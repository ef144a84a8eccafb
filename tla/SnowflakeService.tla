-------------------------- MODULE SnowflakeService --------------------------
(***************************************************************************)
(* The session state machine of lib/services/sf.js: the five states, the   *)
(* operation queue, the login with its retries and re-authentications, the *)
(* renewal of the session token and the deletion of the session.           *)
(*                                                                         *)
(* JavaScript runs one callback at a time, so every action below is one    *)
(* callback, or one API call made by the application.  Between two of them *)
(* any response, timer or API call may come: a session has any number of   *)
(* requests in flight and their responses arrive in any order.             *)
(*                                                                         *)
(* One operation (a connect(), request() or destroy() call) is identified  *)
(* with its options object, hence with its callback.                       *)
(***************************************************************************)
EXTENDS Naturals, Sequences, Functions

CONSTANTS
    Connects,          \* the connect() calls the application may make
    Requests,          \* the request() calls
    Destroys,          \* the destroy() calls
    Authenticators,    \* the authenticators a connection may be configured with
    SleepSigns,        \* the signs the jittered login sleep may have
    MaxLoginRetries,   \* parameter sfRetryMaxLoginRetries
    MaxRejections      \* bound: how often the server says "token expired"

AuthenticatorKinds == {"password", "okta", "keypair", "idtoken", "oauth"}

ASSUME OperationsDisjoint ==
    /\ Connects \cap Requests = {}
    /\ Connects \cap Destroys = {}
    /\ Requests \cap Destroys = {}

ASSUME ConstantsAssumption ==
    /\ Authenticators \subseteq AuthenticatorKinds
    /\ SleepSigns \subseteq {"positive", "nonpositive"}
    /\ MaxLoginRetries \in Nat
    /\ MaxRejections \in Nat

Operations == Connects \cup Requests \cup Destroys

VARIABLES
    config,      \* [auth, keepAlive, resume]: what the connection was built with
    state,       \* currentState
    tokens,      \* TRUE iff tokenInfo holds a session and a master token
    queue,       \* operationQueue
    issued,      \* the operations the application has asked for
    sent,        \* per operation: its HTTP request in flight, and the token it carries
    ticks,       \* operations whose error callback is scheduled by process.nextTick
    calls,       \* how many times each operation's callback has been invoked
    login,       \* where the asynchronous login started by StateConnecting.enter is
    connector,   \* the connect() operation that login belongs to, as a set of at most one
    numRetries,  \* numRetries of the login
    renewals,    \* how many token renewals are in flight, by the token they carry
    drainDue,    \* the connect callback is running; drainOperationQueue comes next
    rejections   \* how often the server has rejected a token so far

opVars    == <<queue, issued, sent, ticks, calls>>
loginVars == <<login, connector, numRetries>>
vars      == <<config, state, tokens, opVars, loginVars, renewals, drainDue, rejections>>

States   == {"Pristine", "Connecting", "Connected", "Renewing", "Disconnected"}
Tokens   == {"authorized", "undefined"}
HttpKind == {"none"} \cup Tokens
LoginAt  == {"idle", "sent", "rejected", "storing", "reauth", "sleeping", "over", "lost"}

\* The Authorization header of a request: 'Snowflake Token="undefined"' when
\* tokenInfo is empty.
TokenOf(tok) == IF tok THEN "authorized" ELSE "undefined"

\* Renewals in flight.
Renewals == renewals["authorized"] + renewals["undefined"]

InFlight == {op \in Operations : sent[op] # "none"}

\* The login is between its first request and its final callback.
LoginActive == login \in {"sent", "rejected", "storing", "reauth", "sleeping"}

-----------------------------------------------------------------------------
(* Init: the constructor starts out Connected when it is given tokens.     *)

Init ==
    /\ config \in [auth : Authenticators, keepAlive : BOOLEAN, resume : BOOLEAN]
    /\ state = IF config.resume THEN "Connected" ELSE "Pristine"
    /\ tokens = config.resume
    /\ queue = <<>>
    /\ issued = {}
    /\ sent = [op \in Operations |-> "none"]
    /\ ticks = {}
    /\ calls = [op \in Operations |-> 0]
    /\ login = "idle"
    /\ connector = {}
    /\ numRetries = 0
    /\ renewals = [token \in Tokens |-> 0]
    /\ drainDue = FALSE
    /\ rejections = 0

-----------------------------------------------------------------------------
(* Executing an operation in a state.  drainOperationQueue executes the    *)
(* queue from its head; the only operation that changes the state while it *)
(* runs is a destroy() with serverSessionKeepAlive, which disconnects at   *)
(* once, so that what stands behind it in the queue meets Disconnected.    *)

\* The state the i-th operation of q meets when the drain starts in s.
StateAt(s, q, i) ==
    IF s = "Connected" /\ config.keepAlive /\ \E j \in 1..(i - 1) : q[j] \in Destroys
    THEN "Disconnected"
    ELSE s

\* Operations of q that StateConnected sends out.
Sends(s, q) ==
    {q[i] : i \in {k \in DOMAIN q : /\ StateAt(s, q, k) = "Connected"
                                    /\ q[k] \in Requests \/ ~config.keepAlive}}

\* Operations of q that answer themselves at once: StateConnected.destroy with
\* serverSessionKeepAlive.
Answers(s, q) ==
    {q[i] : i \in {k \in DOMAIN q : /\ StateAt(s, q, k) = "Connected"
                                    /\ q[k] \in Destroys
                                    /\ config.keepAlive}}

\* Operations of q that StateDisconnected fails on the next tick.
Fails(s, q) ==
    {q[i] : i \in {k \in DOMAIN q : StateAt(s, q, k) = "Disconnected"}}

\* Mutant: the queue is not emptied after it has been executed.
drainKeepingQueue(s, tok, q, sentNow) ==
    /\ queue' = q
    /\ sent' = [op \in Operations |-> IF op \in Sends(s, q) THEN TokenOf(tok) ELSE sentNow[op]]
    /\ ticks' = ticks \cup Fails(s, q)
    /\ calls' = [op \in Operations |-> IF op \in Answers(s, q) THEN calls[op] + 1 ELSE calls[op]]
    /\ state' = IF Answers(s, q) # {} THEN "Disconnected" ELSE s
    /\ tokens' = (tok /\ Answers(s, q) = {})

\* Runs the whole of q in state s with tokens tok, then empties the queue.  An
\* operation executed in Connecting or Renewing would be appended to the array
\* that is truncated right after the loop.
drainOperationQueue(s, tok, q, sentNow) ==
    /\ queue' = <<>>
    /\ sent' = [op \in Operations |-> IF op \in Sends(s, q) THEN TokenOf(tok) ELSE sentNow[op]]
    /\ ticks' = ticks \cup Fails(s, q)
    /\ calls' = [op \in Operations |-> IF op \in Answers(s, q) THEN calls[op] + 1 ELSE calls[op]]
    /\ state' = IF Answers(s, q) # {} THEN "Disconnected" ELSE s
    /\ tokens' = (tok /\ Answers(s, q) = {})

-----------------------------------------------------------------------------
(* API calls.  They are made by the application, also from within the      *)
(* connect callback, while drainDue holds.                                 *)

FailOnNextTick(op) ==
    /\ ticks' = ticks \cup {op}
    /\ UNCHANGED <<state, tokens, queue, sent, calls, loginVars, renewals>>

Enqueue(op) ==
    /\ queue' = Append(queue, op)
    /\ UNCHANGED <<state, tokens, sent, ticks, calls, loginVars, renewals>>

\* Mutant: a disconnected service can be connected again.
connectAgain(c) ==
    /\ c \in Connects \ issued
    /\ issued' = issued \cup {c}
    /\ \/ /\ state \in {"Pristine", "Disconnected"}
          /\ state' = "Connecting"
          /\ login' = "sent"
          /\ connector' = {c}
          /\ numRetries' = 0
          /\ UNCHANGED <<tokens, queue, sent, ticks, calls, renewals>>
       \/ /\ state \notin {"Pristine", "Disconnected"}
          /\ FailOnNextTick(c)
    /\ UNCHANGED <<config, drainDue, rejections>>

\* StatePristine.connect enters Connecting, whose enter() sends the login.
connect(c) ==
    /\ c \in Connects \ issued
    /\ issued' = issued \cup {c}
    /\ \/ /\ state = "Pristine"
          /\ state' = "Connecting"
          /\ login' = "sent"
          /\ connector' = {c}
          /\ numRetries' = 0
          /\ UNCHANGED <<tokens, queue, sent, ticks, calls, renewals>>
       \/ /\ state # "Pristine"
          /\ FailOnNextTick(c)
    /\ UNCHANGED <<config, drainDue, rejections>>

request(r) ==
    /\ r \in Requests \ issued
    /\ issued' = issued \cup {r}
    /\ \/ /\ state \in {"Pristine", "Disconnected"}
          /\ FailOnNextTick(r)
       \/ /\ state \in {"Connecting", "Renewing"}
          /\ Enqueue(r)
       \/ /\ state = "Connected"
          /\ sent' = [sent EXCEPT ![r] = TokenOf(tokens)]
          /\ UNCHANGED <<state, tokens, queue, ticks, calls, loginVars, renewals>>
    /\ UNCHANGED <<config, drainDue, rejections>>

destroy(d) ==
    /\ d \in Destroys \ issued
    /\ issued' = issued \cup {d}
    /\ \/ /\ state \in {"Pristine", "Disconnected"}
          /\ FailOnNextTick(d)
       \/ /\ state \in {"Connecting", "Renewing"}
          /\ Enqueue(d)
       \/ /\ state = "Connected"
          /\ config.keepAlive
          /\ state' = "Disconnected"
          /\ tokens' = FALSE
          /\ calls' = [calls EXCEPT ![d] = @ + 1]
          /\ UNCHANGED <<queue, sent, ticks, loginVars, renewals>>
       \/ /\ state = "Connected"
          /\ ~config.keepAlive
          /\ sent' = [sent EXCEPT ![d] = TokenOf(tokens)]
          /\ UNCHANGED <<state, tokens, queue, ticks, calls, loginVars, renewals>>
    /\ UNCHANGED <<config, drainDue, rejections>>

\* process.nextTick: the error callback of an operation refused by its state.
nextTick(op) ==
    /\ ~drainDue
    /\ op \in ticks
    /\ ticks' = ticks \ {op}
    /\ calls' = [calls EXCEPT ![op] = @ + 1]
    /\ UNCHANGED <<config, state, tokens, queue, issued, sent, loginVars, renewals,
                   drainDue, rejections>>

-----------------------------------------------------------------------------
(* The login: StateConnecting.continue and its requestCallback.  A retry   *)
(* re-authenticates first for Okta and key pair; a rejected ID or OAuth    *)
(* token is renewed by sendHttpRequest, which then repeats the request.    *)

\* The last part of requestCallback: the connect callback, then the drain.  The
\* callback is application code, which may call the API before the drain.
InvokeConnectCallback(s, tok) ==
    /\ state' = s
    /\ tokens' = tok
    /\ login' = "over"
    /\ calls' = [op \in Operations |-> IF op \in connector THEN calls[op] + 1 ELSE calls[op]]
    /\ drainDue' = TRUE
    /\ UNCHANGED <<config, queue, issued, sent, ticks, connector, numRetries, renewals, rejections>>

\* A successful response updates tokenInfo, then awaits the credential manager.
loginSucceeded ==
    /\ ~drainDue
    /\ login = "sent"
    /\ tokens' = TRUE
    /\ login' = "storing"
    /\ UNCHANGED <<config, state, opVars, connector, numRetries, renewals, drainDue, rejections>>

\* The MFA or ID token is stored (or there was none to store).
credentialStored ==
    /\ ~drainDue
    /\ login = "storing"
    /\ InvokeConnectCallback("Connected", TRUE)

\* A login request has failed with a network error or an HTTP error status that
\* isRetryableError lets pass, and retries and time are left: count the retry,
\* draw the jittered sleep, re-authenticate or arm the timer.  A sleep that is
\* not positive disconnects, and still retries.
RetryLogin ==
    /\ numRetries < MaxLoginRetries
    /\ numRetries' = numRetries + 1
    /\ \/ /\ "positive" \in SleepSigns
          /\ UNCHANGED <<state, tokens>>
       \/ /\ "nonpositive" \in SleepSigns
          /\ state' = "Disconnected"
          /\ tokens' = FALSE
    /\ login' = IF config.auth \in {"okta", "keypair"} THEN "reauth" ELSE "sleeping"
    /\ UNCHANGED <<config, opVars, connector, renewals, drainDue, rejections>>

\* Any other failure, or no retries or no time left.
GiveUpLogin == InvokeConnectCallback("Disconnected", FALSE)

loginFailed ==
    /\ ~drainDue
    /\ login = "sent"
    /\ RetryLogin \/ GiveUpLogin

\* The credential manager's write rejects: HttpClient.request passes a rejection
\* of its callback to the same callback as a network error.
credentialStoreFailed ==
    /\ ~drainDue
    /\ login = "storing"
    /\ RetryLogin \/ GiveUpLogin

\* GS answers that the ID token or the OAuth token is invalid or expired.
loginTokenRejected ==
    /\ ~drainDue
    /\ login = "sent"
    /\ config.auth \in {"idtoken", "oauth"}
    /\ rejections < MaxRejections
    /\ rejections' = rejections + 1
    /\ login' = "rejected"
    /\ UNCHANGED <<config, state, tokens, opVars, connector, numRetries, renewals, drainDue>>

\* auth.reauthenticate has a new token: the same login request is sent again.
tokenReplaced ==
    /\ ~drainDue
    /\ login = "rejected"
    /\ login' = "sent"
    /\ UNCHANGED <<config, state, tokens, opVars, connector, numRetries, renewals,
                   drainDue, rejections>>

\* auth.reauthenticate rejects inside the callback of a received response.
tokenNotReplaced ==
    /\ ~drainDue
    /\ login = "rejected"
    /\ RetryLogin \/ GiveUpLogin

\* auth.reauthenticate before a retry: Okta's has retries of its own, counted
\* together with those of the login.
reauthenticated ==
    /\ ~drainDue
    /\ login = "reauth"
    /\ \/ /\ config.auth = "okta"
          /\ numRetries' \in numRetries..MaxLoginRetries
       \/ /\ config.auth = "keypair"
          /\ UNCHANGED numRetries
    /\ login' = "sleeping"
    /\ UNCHANGED <<config, state, tokens, opVars, connector, renewals, drainDue, rejections>>

\* Okta's reauthenticate throws once its time or its retries are used up.  The
\* request failed, so this runs in the callback that HttpClient.request's catch
\* handler does not await: nothing receives the rejection.
reauthenticationThrows ==
    /\ ~drainDue
    /\ login = "reauth"
    /\ config.auth = "okta"
    /\ login' = "lost"
    /\ UNCHANGED <<config, state, tokens, opVars, connector, numRetries, renewals,
                   drainDue, rejections>>

\* The retry timer fires.
sendLoginAgain ==
    /\ ~drainDue
    /\ login = "sleeping"
    /\ login' = "sent"
    /\ UNCHANGED <<config, state, tokens, opVars, connector, numRetries, renewals,
                   drainDue, rejections>>

\* The connect callback has returned: all queued operations are free to go.
drainAfterLogin ==
    /\ drainDue
    /\ drainDue' = FALSE
    /\ drainOperationQueue(state, tokens, queue, sent)
    /\ UNCHANGED <<config, issued, loginVars, renewals, rejections>>

-----------------------------------------------------------------------------
(* Responses to requests sent by StateConnected.request.  The server does  *)
(* not find a token expired that it was not given.                         *)

\* Success, or a failure that says nothing about the session.
requestAnswered(r) ==
    /\ ~drainDue
    /\ r \in Requests
    /\ sent[r] # "none"
    /\ sent' = [sent EXCEPT ![r] = "none"]
    /\ calls' = [calls EXCEPT ![r] = @ + 1]
    /\ UNCHANGED <<config, state, tokens, queue, issued, ticks, loginVars, renewals,
                   drainDue, rejections>>

\* Entering Renewing sends a master token request; re-entering it does nothing.
transitionToRenewing ==
    /\ state' = "Renewing"
    /\ renewals' = IF state = "Renewing" THEN renewals
                   ELSE [renewals EXCEPT ![TokenOf(tokens)] = @ + 1]

\* Mutant: a request whose token has expired during a renewal is not queued.
tokenExpiredUnlessRenewing(r) ==
    /\ ~drainDue
    /\ r \in Requests
    /\ sent[r] = "authorized"
    /\ rejections < MaxRejections
    /\ rejections' = rejections + 1
    /\ sent' = [sent EXCEPT ![r] = "none"]
    /\ queue' = IF state = "Renewing" THEN queue ELSE Append(queue, r)
    /\ transitionToRenewing
    /\ UNCHANGED <<config, tokens, issued, ticks, calls, loginVars, drainDue>>

\* SESSION_TOKEN_EXPIRED: queue the request again and renew the token.
sessionTokenExpired(r) ==
    /\ ~drainDue
    /\ r \in Requests
    /\ sent[r] = "authorized"
    /\ rejections < MaxRejections
    /\ rejections' = rejections + 1
    /\ sent' = [sent EXCEPT ![r] = "none"]
    /\ queue' = Append(queue, r)
    /\ transitionToRenewing
    /\ UNCHANGED <<config, tokens, issued, ticks, calls, loginVars, drainDue>>

\* SESSION_TOKEN_INVALID or GONE_SESSION: queue, disconnect, drain.
sessionGone(r) ==
    /\ ~drainDue
    /\ r \in Requests
    /\ sent[r] # "none"
    /\ drainOperationQueue("Disconnected", FALSE, Append(queue, r), [sent EXCEPT ![r] = "none"])
    /\ UNCHANGED <<config, issued, loginVars, renewals, drainDue, rejections>>

\* The session was deleted, or is gone or expired already.
destroySucceeded(d) ==
    /\ ~drainDue
    /\ d \in Destroys
    /\ sent[d] # "none"
    /\ sent' = [sent EXCEPT ![d] = "none"]
    /\ calls' = [calls EXCEPT ![d] = @ + 1]
    /\ state' = "Disconnected"
    /\ tokens' = FALSE
    /\ UNCHANGED <<config, queue, issued, ticks, loginVars, renewals, drainDue, rejections>>

\* Any other failure leaves the session as it is.
destroyFailed(d) ==
    /\ ~drainDue
    /\ d \in Destroys
    /\ sent[d] # "none"
    /\ sent' = [sent EXCEPT ![d] = "none"]
    /\ calls' = [calls EXCEPT ![d] = @ + 1]
    /\ UNCHANGED <<config, state, tokens, queue, issued, ticks, loginVars, renewals,
                   drainDue, rejections>>

-----------------------------------------------------------------------------
(* Responses to the master token request of StateRenewing.enter.  They are *)
(* handled whatever the state has become in the meantime.                  *)

\* Leaves Renewing for s and drains the queue there.
FinishRenewal(token, s, tok) ==
    /\ ~drainDue
    /\ renewals[token] > 0
    /\ renewals' = [renewals EXCEPT ![token] = @ - 1]
    /\ drainOperationQueue(s, tok, queue, sent)
    /\ UNCHANGED <<config, issued, loginVars, drainDue, rejections>>

renewalSucceeded == FinishRenewal("authorized", "Connected", TRUE)

\* Mutant: after a network error the queue is not drained.
networkErrorWithoutDrain(token) ==
    /\ ~drainDue
    /\ renewals[token] > 0
    /\ renewals' = [renewals EXCEPT ![token] = @ - 1]
    /\ state' = "Connected"
    /\ UNCHANGED <<config, tokens, opVars, loginVars, drainDue, rejections>>

\* Back to Connected with the tokens as they are: the next request finds out.
renewalNetworkError(token) == FinishRenewal(token, "Connected", tokens)

\* MASTER_TOKEN_EXPIRED or any other failure.
renewalFailed(token) == FinishRenewal(token, "Disconnected", FALSE)

-----------------------------------------------------------------------------

ApiCall ==
    \/ \E c \in Connects : connect(c)
    \/ \E r \in Requests : request(r)
    \/ \E d \in Destroys : destroy(d)

LoginStep ==
    \/ loginSucceeded
    \/ credentialStored
    \/ loginFailed
    \/ credentialStoreFailed
    \/ loginTokenRejected
    \/ tokenReplaced
    \/ tokenNotReplaced
    \/ reauthenticated
    \/ reauthenticationThrows
    \/ sendLoginAgain
    \/ drainAfterLogin

RequestResponse ==
    \E r \in Requests :
        \/ requestAnswered(r)
        \/ sessionTokenExpired(r)
        \/ sessionGone(r)

DestroyResponse ==
    \E d \in Destroys :
        \/ destroySucceeded(d)
        \/ destroyFailed(d)

RenewalResponse ==
    \/ renewalSucceeded
    \/ \E token \in Tokens :
        \/ renewalNetworkError(token)
        \/ renewalFailed(token)

Tick == \E op \in Operations : nextTick(op)

Next == ApiCall \/ LoginStep \/ RequestResponse \/ DestroyResponse \/ RenewalResponse \/ Tick

Spec == Init /\ [][Next]_vars

-----------------------------------------------------------------------------
(* Fairness.  Every HTTP request ends, with a response or with the network *)
(* error of its timeout, and its callback runs; so do timers, awaited      *)
(* promises and next-tick callbacks.  Nothing is assumed of which response *)
(* comes, nor of the application.                                          *)

ResponseTo(op) ==
    \/ requestAnswered(op) \/ sessionTokenExpired(op) \/ sessionGone(op)
    \/ destroySucceeded(op) \/ destroyFailed(op)

Fairness ==
    /\ WF_vars(LoginStep)
    /\ WF_vars(RenewalResponse)
    /\ \A op \in Operations : WF_vars(nextTick(op)) /\ WF_vars(ResponseTo(op))

FairSpec == Spec /\ Fairness

-----------------------------------------------------------------------------
(* Properties                                                              *)

TypeOK ==
    /\ config \in [auth : Authenticators, keepAlive : BOOLEAN, resume : BOOLEAN]
    /\ state \in States
    /\ tokens \in BOOLEAN
    /\ queue \in Seq(Requests \cup Destroys)
    /\ issued \subseteq Operations
    /\ sent \in [Operations -> HttpKind]
    /\ ticks \subseteq Operations
    /\ calls \in [Operations -> Nat]
    /\ login \in LoginAt
    /\ connector \subseteq Connects
    /\ numRetries \in 0..MaxLoginRetries
    /\ renewals \in [Tokens -> Nat]
    /\ drainDue \in BOOLEAN
    /\ rejections \in 0..MaxRejections

\* The connect() call whose login has not come to its callback.
LoggingIn == IF LoginActive \/ login = "lost" THEN connector ELSE {}

Answered == {op \in Operations : calls[op] > 0}

\* No operation is lost and none is handled twice: an operation the application
\* asked for is in exactly one place (the queue, once; in flight; waiting for
\* its next tick; the login that is running; answered), and an operation it did
\* not ask for is in none.  The queue is executed and emptied in the callbacks of
\* the login, of a renewal and of a failed request, in whatever order they come.
Accounted ==
    /\ issued = Range(queue) \cup InFlight \cup ticks \cup LoggingIn \cup Answered
    /\ \A i, j \in DOMAIN queue : queue[i] = queue[j] => i = j
    /\ Range(queue) \cap (InFlight \cup ticks \cup Answered) = {}
    /\ InFlight \cap (ticks \cup Answered) = {}
    /\ ticks \cap Answered = {}
    /\ LoggingIn \cap (InFlight \cup ticks \cup Answered) = {}

\* A callback is invoked at most once, whether the operation was refused, queued,
\* repeated with a new token or failed by the loss of the session.
AtMostOneCall == \A op \in Operations : calls[op] <= 1

\* A queued operation always has somebody who will drain the queue: a login that
\* runs, a connect callback about to return, or a renewal in flight.  Okta's
\* re-authentication that throws is the exception.
QueueHasDrainer ==
    queue # <<>> =>
        \/ LoginActive
        \/ drainDue
        \/ Renewals > 0
        \/ login = "lost"

\* transitionToDisconnected clears the tokens so that getConfig() cannot hand
\* them out: no order of logins, renewals and destroys leaves a disconnected
\* service, whose login is not running, with tokens.
NoTokensWhenDisconnected ==
    state = "Disconnected" /\ login \in {"idle", "over"} => ~tokens

\* Once the service is disconnected and nothing is in flight, it stays
\* disconnected: no API call revives it.
QuietDisconnectIsFinal ==
    [][ /\ state = "Disconnected"
        /\ InFlight = {}
        /\ Renewals = 0
        /\ login \in {"idle", "over"}
        => state' = "Disconnected" ]_vars

\* The operations the service still works on, by where they are: in the queue, in
\* an HTTP request, waiting for the next tick, or logging in.
Working ==
    Range(queue) \cup InFlight \cup ticks \cup (IF LoginActive THEN connector ELSE {})

\* The session state machine implements the contract of its API.  A callback
\* invoked a second time, or for an operation the service does not work on, and an
\* operation that leaves the service's structures without its callback (a drain, a
\* renewal or a late response that loses it) are steps the contract does not have.
\* What the code may drop is the connect() of an Okta login.
Contract == INSTANCE ApiContract WITH
    forgettable <- IF config.auth = "okta" THEN Connects ELSE {},
    accepted    <- issued,
    pending     <- Working,
    answers     <- calls

ImplementsContract == Contract!Spec

\* Every operation is answered in the end, however often tokens expire within the
\* bound and whatever else fails, unless Okta's re-authentication throws: nobody is
\* left then to call back, for the connect() call or what is queued behind it.
EveryOperationAnswered ==
    \A op \in Operations : op \in issued ~> calls[op] = 1 \/ login = "lost"

=============================================================================
