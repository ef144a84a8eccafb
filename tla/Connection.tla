------------------------------ MODULE Connection ------------------------------
(***************************************************************************)
(* The connection object of lib/connection/connection.js, the process-wide *)
(* parameters of lib/parameters.js, and of the session service             *)
(* (SnowflakeService) what its callers see: whether it is connected, and   *)
(* that it answers every call once.                                        *)
(*                                                                         *)
(* Several connections live in one process.  connect() reads stored        *)
(* credentials, authenticates and logs in, with an await between all of    *)
(* these; a login that the session parameters tell to keep alive starts a  *)
(* heartbeat timer, which only the callback of destroy() stops.            *)
(* getResultsFromQueryId() polls the status of a query.                    *)
(***************************************************************************)
EXTENDS Naturals, Sequences, FiniteSets

CONSTANTS
    Conns,          \* connections of the process
    Connects,       \* connect() calls
    Destroys,       \* destroy() calls
    Polls,          \* getResultsFromQueryId() calls
    Stores,         \* the connections that store a token if the login brings one
    KeepAlives,     \* values of CLIENT_SESSION_KEEP_ALIVE in login responses
    Throwing,       \* whether the callbacks given to connect() throw
    NoDataMaxRetry, \* asyncNoDataMaxRetry
    Patterns,       \* length of asyncRetryPattern
    MaxRunning      \* bound: answers that a query is still running

ASSUME ConnectionAssumption ==
    /\ Stores \subseteq Conns
    /\ KeepAlives \subseteq BOOLEAN
    /\ Throwing \subseteq BOOLEAN
    /\ NoDataMaxRetry \in Nat
    /\ Patterns \in Nat \ {0}
    /\ MaxRunning \in Nat

VARIABLES
    keepAlive,  \* parameter CLIENT_SESSION_KEEP_ALIVE, one for the process
    throws,     \* the callbacks of connect() throw
    session,    \* per connection: state of its service
    timers,     \* per connection: intervals that call heartbeat()
    beating,    \* per connection: a heartbeat is on its way
    agents,     \* per connection: its HTTP agents are there
    connects,   \* per connect() call: where it is
    destroys,   \* per destroy() call: where it is, and if it came before, during or
                \* after what connect() awaits before the login
    polls       \* per getResultsFromQueryId() call: where it is

connectionVars == <<keepAlive, throws, session, timers, beating, agents, connects,
                    destroys, polls>>

\* A poll that is not under way has no local variables.
NewPoll(phase) == [phase |-> phase, noData |-> 0, pos |-> 1, running |-> 0]

ConnectionInit ==
    /\ keepAlive = FALSE
    /\ throws \in Throwing
    /\ session = [c \in Conns |-> "pristine"]
    /\ timers = [c \in Conns |-> 0]
    /\ beating = [c \in Conns |-> FALSE]
    /\ agents = [c \in Conns |-> TRUE]
    /\ connects \in [Connects -> {[conn |-> c, phase |-> "idle", calls |-> 0, promise |-> "pending"] :
                                     c \in Conns}]
    /\ destroys \in [Destroys -> {[conn |-> c, phase |-> "idle", came |-> "before"] : c \in Conns}]
    /\ polls = [p \in Polls |-> NewPoll("idle")]

-----------------------------------------------------------------------------
(* connect()                                                               *)

\* connectAsync up to the first await: the stored tokens are read, the authenticator
\* is made, logging is set up.
connectAsync(k) ==
    /\ connects[k].phase = "idle"
    /\ connects' = [connects EXCEPT ![k].phase = "preparing"]
    /\ UNCHANGED <<keepAlive, throws, session, timers, beating, agents, destroys, polls>>

prepared(k) ==
    /\ connects[k].phase = "preparing"
    /\ connects' = [connects EXCEPT ![k].phase = "authenticating"]
    /\ UNCHANGED <<keepAlive, throws, session, timers, beating, agents, destroys, polls>>

\* One of these throws: the promise is rejected, and connect() passes it to the callback.
preparationFails(k) ==
    /\ connects[k].phase = "preparing"
    /\ connects' = [connects EXCEPT ![k].phase = "done", ![k].calls = @ + 1,
                                    ![k].promise = "rejected"]
    /\ UNCHANGED <<keepAlive, throws, session, timers, beating, agents, destroys, polls>>

\* Mutant: the timer is started whatever the outcome.
StartTimerAlways(c, ok) ==
    IF keepAlive' THEN [timers EXCEPT ![c] = @ + 1] ELSE timers

\* connectCallback: after a login the process-wide parameter tells whether to start a
\* heartbeat timer.
StartTimer(c, ok) ==
    IF ok /\ keepAlive' THEN [timers EXCEPT ![c] = @ + 1] ELSE timers

\* Mutant: the error of an authentication is thrown as well as passed on.
AuthErrorCallsTwice(op) == [op EXCEPT !.phase = "done", !.calls = @ + 2, !.promise = "rejected"]

\* An authentication that failed is passed to the callback; if that throws, the promise
\* is rejected and connect() calls it again.
AuthErrorCalls(op) ==
    [op EXCEPT !.phase = "done", !.calls = IF throws THEN @ + 2 ELSE @ + 1,
               !.promise = IF throws THEN "rejected" ELSE "resolved"]

authenticationFails(k) ==
    /\ connects[k].phase = "authenticating"
    /\ connects' = [connects EXCEPT ![k] = AuthErrorCalls(@)]
    /\ UNCHANGED <<keepAlive, throws, session, timers, beating, agents, destroys, polls>>

\* authenticate() has ended: services.sf.connect, which only a pristine service accepts.
authenticated(k) ==
    LET c == connects[k].conn
    IN  /\ connects[k].phase = "authenticating"
        /\ session' = [session EXCEPT ![c] = IF @ = "pristine" THEN "connecting" ELSE @]
        /\ connects' = [connects EXCEPT ![k].phase =
                           IF session[c] = "pristine" THEN "login" ELSE "refused"]
        /\ UNCHANGED <<keepAlive, throws, timers, beating, agents, destroys,
                       polls>>

\* The service's callback of connect(): if the caller's callback throws, the promise of
\* connectAsync() is never settled.
ServiceCallback(op) ==
    [op EXCEPT !.phase = "done", !.calls = @ + 1, !.promise = IF throws THEN "pending" ELSE "resolved"]

connectRefused(k) ==
    /\ connects[k].phase = "refused"
    /\ UNCHANGED <<keepAlive, throws, session, beating, agents, destroys, polls>>
    /\ connects' = [connects EXCEPT ![k] = ServiceCallback(@)]
    /\ timers' = StartTimer(connects[k].conn, FALSE)

\* Mutant: the queue is worked off after a login that succeeded.
DrainIfConnected(c) ==
    [d \in Destroys |->
        IF destroys[d].conn = c /\ destroys[d].phase = "queued" /\ ~throws /\ session'[c] = "connected"
        THEN [destroys[d] EXCEPT !.phase = "sent"]
        ELSE destroys[d]]

\* The service works off the calls that came while it was connecting, unless the
\* callback of connect() has thrown.
Drain(c) ==
    [d \in Destroys |->
        IF destroys[d].conn = c /\ destroys[d].phase = "queued" /\ ~throws
        THEN [destroys[d] EXCEPT !.phase = IF session'[c] = "connected" THEN "sent" ELSE "refused"]
        ELSE destroys[d]]

\* The end of a login: callback, then the queue.
LoginDone(c, ok) ==
    /\ connects' = [k \in Connects |->
           IF connects[k].conn = c /\ connects[k].phase = "login" THEN ServiceCallback(connects[k])
           ELSE connects[k]]
    /\ timers' = StartTimer(c, ok)
    /\ destroys' = Drain(c)

\* The login response sets the parameters of the process; if it brings a token that is
\* to be stored, this is done before anything else.
loginAnswered(c, keep) ==
    /\ session[c] = "connecting"
    /\ keepAlive' = keep
    /\ \/ /\ c \in Stores
          /\ session' = [session EXCEPT ![c] = "storing"]
          /\ UNCHANGED <<connects, timers, destroys>>
       \/ /\ session' = [session EXCEPT ![c] = "connected"]
          /\ LoginDone(c, TRUE)
    /\ UNCHANGED <<throws, beating, agents, polls>>

credentialStored(c) ==
    /\ session[c] = "storing"
    /\ session' = [session EXCEPT ![c] = "connected"]
    /\ UNCHANGED <<keepAlive, throws, beating, agents, polls>>
    /\ LoginDone(c, TRUE)

loginFailed(c) ==
    /\ session[c] = "connecting"
    /\ session' = [session EXCEPT ![c] = "disconnected"]
    /\ UNCHANGED <<keepAlive, throws, beating, agents, polls>>
    /\ LoginDone(c, FALSE)

\* The responses to statements, and the logins of connections that are not modelled,
\* update the parameters of the process as well.
parametersUpdated(keep) ==
    /\ keep # keepAlive
    /\ keepAlive' = keep
    /\ UNCHANGED <<throws, session, timers, beating, agents, connects, destroys, polls>>

-----------------------------------------------------------------------------
(* destroy() and heartbeats                                                *)

\* What becomes of a call of the service: queued while it connects, sent while it is
\* connected, refused otherwise.
PhaseOfCall(c) ==
    CASE session[c] \in {"connecting", "storing"} -> "queued"
      [] session[c] = "connected"                 -> "sent"
      [] OTHER                                    -> "refused"

\* When a call of destroy() comes: a pristine service refuses it, also while a connect()
\* reads credentials or authenticates.  The properties alone ask for it.
TimeOfCall(c) ==
    CASE session[c] # "pristine" -> "after"
      [] session[c] = "pristine" /\ \E k \in Connects : /\ connects[k].conn = c
             /\ connects[k].phase \in {"preparing", "authenticating"} -> "during"
      [] OTHER -> "before"

destroy(d) ==
    /\ destroys[d].phase = "idle"
    /\ destroys' = [destroys EXCEPT ![d].phase = PhaseOfCall(destroys[d].conn),
                                    ![d].came = TimeOfCall(destroys[d].conn)]
    /\ UNCHANGED <<keepAlive, throws, session, timers, beating, agents, connects, polls>>

\* The interval that keepalive refers to is cleared, with or without an error.
StopTimer(c, ok) == [timers EXCEPT ![c] = IF @ > 0 THEN @ - 1 ELSE 0]

DestroyCallback(d, ok) ==
    /\ timers' = StopTimer(destroys[d].conn, ok)
    /\ agents' = [agents EXCEPT ![destroys[d].conn] = FALSE]
    /\ destroys' = [destroys EXCEPT ![d].phase = IF ok THEN "done" ELSE "failed"]

\* The logout is answered, or fails and leaves the session as it is.
destroyAnswered(d, ok) ==
    LET c == destroys[d].conn
    IN  /\ destroys[d].phase = "sent"
        /\ session' = [session EXCEPT ![c] = IF ok THEN "disconnected" ELSE @]
        /\ DestroyCallback(d, ok)
        /\ UNCHANGED <<keepAlive, throws, beating, connects, polls>>

destroyRefused(d) ==
    /\ destroys[d].phase = "refused"
    /\ DestroyCallback(d, FALSE)
    /\ UNCHANGED <<keepAlive, throws, session, beating, connects, polls>>

\* The timer calls heartbeat(), as isValidAsync() does; without a session the call just
\* fails.
heartbeat(c) ==
    /\ timers[c] > 0
    /\ session[c] = "connected"
    /\ ~beating[c]
    /\ beating' = [beating EXCEPT ![c] = TRUE]
    /\ UNCHANGED <<keepAlive, throws, session, timers, agents, connects, destroys, polls>>

\* The answer may tell that the session is gone.
heartbeatAnswered(c, gone) ==
    /\ beating[c]
    /\ beating' = [beating EXCEPT ![c] = FALSE]
    /\ session' = [session EXCEPT ![c] = IF gone THEN "disconnected" ELSE @]
    /\ UNCHANGED <<keepAlive, throws, timers, agents, connects, destroys, polls>>

-----------------------------------------------------------------------------
(* getResultsFromQueryId()                                                 *)

getResultsFromQueryId(p) ==
    /\ polls[p].phase = "idle"
    /\ polls' = [polls EXCEPT ![p].phase = "asking"]
    /\ UNCHANGED <<keepAlive, throws, session, timers, beating, agents, connects, destroys>>

\* The status of the query: it is waited for while it runs, or while there is no data
\* about it.
statusAnswered(p, status) ==
    /\ polls[p].phase = "asking"
    /\ status = "running" => polls[p].running < MaxRunning
    /\ polls' = [polls EXCEPT ![p] =
           CASE status = "running" -> [@ EXCEPT !.phase = "sleeping", !.running = @ + 1]
             [] status = "noData"  -> [@ EXCEPT !.phase = "sleepingNoData"]
             [] status = "success" -> NewPoll("fetched")
             [] OTHER              -> NewPoll("threw")]
    /\ UNCHANGED <<keepAlive, throws, session, timers, beating, agents, connects, destroys>>

\* Mutant: answers without data are not counted.
NoDataUncounted(st) == st.noData

\* Answers without data so far, after a sleep.
NoDataCount(st) == IF st.phase = "sleepingNoData" THEN st.noData + 1 ELSE st.noData

\* The position in the retry pattern: its last entry is used for all later delays.
NextDelay(pos) == IF pos < Patterns THEN pos + 1 ELSE pos

\* The delay is over: too many answers without data are an error.
delayOver(p) ==
    LET st == polls[p]
        n  == NoDataCount(st)
    IN  /\ st.phase \in {"sleeping", "sleepingNoData"}
        /\ polls' = [polls EXCEPT ![p] =
               IF n > NoDataMaxRetry THEN NewPoll("threw")
               ELSE [st EXCEPT !.phase = "asking", !.noData = n, !.pos = NextDelay(@)]]
        /\ UNCHANGED <<keepAlive, throws, session, timers, beating, agents, connects, destroys>>

Statuses == {"running", "noData", "noQueryData", "success", "error", "unknown"}

Login(c) ==
    \/ \E keep \in KeepAlives : loginAnswered(c, keep)
    \/ credentialStored(c)
    \/ loginFailed(c)

Connecting(k) ==
    \/ prepared(k) \/ preparationFails(k)
    \/ authenticated(k) \/ authenticationFails(k)
    \/ connectRefused(k)

Destroying(d) == (\E ok \in BOOLEAN : destroyAnswered(d, ok)) \/ destroyRefused(d)

Polling(p) == (\E s \in Statuses : statusAnswered(p, s)) \/ delayOver(p)

Beating(c) == heartbeat(c) \/ \E gone \in BOOLEAN : heartbeatAnswered(c, gone)

ConnectionNext ==
    \/ \E k \in Connects : connectAsync(k) \/ Connecting(k)
    \/ \E d \in Destroys : destroy(d) \/ Destroying(d)
    \/ \E p \in Polls : getResultsFromQueryId(p) \/ Polling(p)
    \/ \E c \in Conns : Login(c) \/ Beating(c)
    \/ \E keep \in KeepAlives : parametersUpdated(keep)

ConnectionSpec == ConnectionInit /\ [][ConnectionNext]_connectionVars

\* Logins, logouts and status requests are answered or fail (the service bounds its own
\* retries), promises settle and the delays of a poll end, whatever else the process
\* does; nobody need call anything.
ConnectionFairSpec ==
    /\ ConnectionSpec
    /\ \A k \in Connects : WF_connectionVars(Connecting(k))
    /\ \A d \in Destroys : WF_connectionVars(Destroying(d))
    /\ \A p \in Polls : WF_connectionVars(Polling(p))
    /\ \A c \in Conns : WF_connectionVars(Login(c))

-----------------------------------------------------------------------------
SessionStates == {"pristine", "connecting", "storing", "connected", "disconnected"}

ConnectionOK ==
    /\ keepAlive \in BOOLEAN /\ throws \in BOOLEAN
    /\ session \in [Conns -> SessionStates]
    /\ timers \in [Conns -> Nat]
    /\ beating \in [Conns -> BOOLEAN]
    /\ agents \in [Conns -> BOOLEAN]
    /\ connects \in [Connects -> [conn : Conns, calls : Nat,
           phase : {"idle", "preparing", "authenticating", "login", "refused", "done"},
           promise : {"pending", "resolved", "rejected"}]]
    /\ destroys \in [Destroys -> [conn : Conns, came : {"before", "during", "after"},
           phase : {"idle", "queued", "sent", "refused", "done", "failed"}]]
    /\ polls \in [Polls -> [noData : 0..NoDataMaxRetry, pos : 1..Patterns, running : Nat,
           phase : {"idle", "asking", "sleeping", "sleepingNoData", "fetched", "threw"}]]

\* However its connect() calls race, a connection never has two heartbeat timers: the
\* second would replace the only reference to the first, and nothing could stop that.
\* And there are no heartbeats after a destroy() that is answered without an error, or
\* that came when the login had been sent, whatever its answer: even if it was queued
\* behind the login, or the session was lost already.  What is left, the error that a
\* pristine service answers, is the case of DestroyTerminates.
TimerStops ==
    /\ \A c \in Conns : timers[c] <= 1
    /\ \A d \in Destroys :
          \/ destroys[d].phase = "done"
          \/ destroys[d].phase = "failed" /\ destroys[d].came = "after"
              => timers[destroys[d].conn] = 0

\* destroy() "immediately terminates the connection" (its comment): once it is answered,
\* a connect() that was under way when it came leaves no heartbeats.
DestroyTerminates ==
    \A d \in Destroys :
        destroys[d].phase \in {"done", "failed"} /\ destroys[d].came # "before"
            => timers[destroys[d].conn] = 0

\* The callback given to connect() is called at most once, on whichever of the paths
\* (thrown, passed to it, refused, answered) an error takes, unless it throws itself,
\* and before the promise of connectAsync() is settled.
CallbackOnce ==
    \A k \in Connects :
        /\ throws \/ connects[k].calls <= 1
        /\ connects[k].promise # "pending" => connects[k].calls >= 1

\* Every connect() and destroy() is answered, unless a callback throws: then what was
\* queued behind the login is never worked off.
EveryCallAnswered ==
    []<>(throws \/ (/\ \A k \in Connects : connects[k].phase = "idle" \/ connects[k].promise # "pending"
                    /\ \A d \in Destroys : destroys[d].phase \in {"idle", "done", "failed"}))

\* getResultsFromQueryId() ends, even if the server never has data about the query.
EveryPollEnds == []<>(\A p \in Polls : polls[p].phase \in {"idle", "fetched", "threw"})

=============================================================================
