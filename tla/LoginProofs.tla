----------------------------- MODULE LoginProofs -----------------------------
(***************************************************************************)
(* The connection object and the authentication behind its connect(), for  *)
(* any number of connections and of calls on each of them, in any order.   *)
(*                                                                         *)
(* Connection: heartbeat timers and the callbacks of connect().            *)
(* Authentication: one browser for each type of authentication, and no     *)
(* token that was refused or used up.                                      *)
(***************************************************************************)
EXTENDS Connection, Authentication, FiniteSetTheorems, TLAPS

-----------------------------------------------------------------------------
(* Connection: the invariant                                               *)

ConnectPhases == {"idle", "preparing", "authenticating", "login", "refused", "done"}
DestroyPhases == {"idle", "queued", "sent", "refused", "done", "failed"}
ConnectType == [conn : Conns, calls : Nat, phase : ConnectPhases,
                promise : {"pending", "resolved", "rejected"}]
Times == {"before", "during", "after"}
DestroyType == [conn : Conns, came : Times, phase : DestroyPhases]

\* The part of ConnectionOK that timers and callbacks depend on.
Typed ==
    /\ throws \in BOOLEAN
    /\ session \in [Conns -> SessionStates]
    /\ timers \in [Conns -> Nat]
    /\ connects \in [Connects -> ConnectType]
    /\ destroys \in [Destroys -> DestroyType]

Past == {"connected", "disconnected"}

\* A timer is started by the one login of a connection: before it there is none.
TimerInv(c) == timers[c] <= 1 /\ (session[c] \notin Past => timers[c] = 0)

\* A destroy() that came after the login was sent is handled when the login is over, so
\* that no timer is started behind it.  One that came earlier is answered by an error.
DestroyInv(d) ==
    /\ destroys[d].came = "after" =>
          /\ destroys[d].phase \notin {"idle", "queued"} => session[destroys[d].conn] \in Past
          /\ destroys[d].phase \in {"done", "failed"} => timers[destroys[d].conn] = 0
    /\ destroys[d].came # "after" => destroys[d].phase \in {"idle", "refused", "failed"}

\* A connect() that is under way has called nobody.
ConnectInv(k) ==
    /\ connects[k].phase # "done" => connects[k].calls = 0 /\ connects[k].promise = "pending"
    /\ throws \/ connects[k].calls <= 1
    /\ connects[k].promise # "pending" => connects[k].calls >= 1

ConnectionInv ==
    /\ Typed
    /\ \A c \in Conns : TimerInv(c)
    /\ \A d \in Destroys : DestroyInv(d)
    /\ \A k \in Connects : ConnectInv(k)

LEMMA ConnectionInitInv == ConnectionInit => ConnectionInv
<1> SUFFICES ASSUME ConnectionInit PROVE ConnectionInv
  OBVIOUS
<1>1. Typed
  <2>1. throws \in BOOLEAN /\ session \in [Conns -> SessionStates] /\ timers \in [Conns -> Nat]
    BY ConnectionAssumption DEF ConnectionInit, SessionStates
  <2>2. {[conn |-> c, phase |-> "idle", calls |-> 0, promise |-> "pending"] : c \in Conns}
            \subseteq ConnectType
    BY DEF ConnectType, ConnectPhases
  <2>3. {[conn |-> c, phase |-> "idle", came |-> "before"] : c \in Conns} \subseteq DestroyType
    <3>1. "idle" \in DestroyPhases /\ "before" \in Times
      BY DEF DestroyPhases, Times
    <3>2. ASSUME NEW c \in Conns
          PROVE  [conn |-> c, phase |-> "idle", came |-> "before"] \in DestroyType
      BY <3>1, Zenon DEF DestroyType
    <3> QED
      BY <3>2, Zenon
  <2>4. connects \in [Connects -> ConnectType]
    BY <2>2 DEF ConnectionInit
  <2>5. destroys \in [Destroys -> DestroyType]
    BY <2>3 DEF ConnectionInit
  <2> QED
    BY <2>1, <2>4, <2>5 DEF Typed
<1>2. ASSUME NEW c \in Conns PROVE TimerInv(c)
  BY DEF ConnectionInit, TimerInv
<1>3. ASSUME NEW d \in Destroys PROVE DestroyInv(d)
  BY DEF ConnectionInit, DestroyInv
<1>4. ASSUME NEW k \in Connects PROVE ConnectInv(k)
  BY DEF ConnectionInit, ConnectInv
<1> QED
  BY <1>1, <1>2, <1>3, <1>4 DEF ConnectionInv

\* A step that leaves timers and destroy() calls alone and takes no session back to
\* where it may log in again.
LEMMA ConnectChanges ==
    ASSUME ConnectionInv, UNCHANGED <<throws, timers, destroys>>,
           session' \in [Conns -> SessionStates],
           \A c \in Conns : session[c] \in Past => session'[c] \in Past,
           \A c \in Conns : session'[c] \notin Past => session[c] \notin Past,
           connects' \in [Connects -> ConnectType],
           \A k \in Connects : ConnectInv(k)'
    PROVE  ConnectionInv'
<1>1. Typed'
  BY DEF ConnectionInv, Typed
<1>2. ASSUME NEW c \in Conns PROVE TimerInv(c)'
  BY DEF ConnectionInv, TimerInv
<1>3. ASSUME NEW d \in Destroys PROVE DestroyInv(d)'
  BY DEF ConnectionInv, DestroyInv, Typed, DestroyType
<1> QED
  BY <1>1, <1>2, <1>3 DEF ConnectionInv

\* A connect() that has called back is still one, whether or not the callback throws.
LEMMA CallbackTypes ==
    ASSUME NEW op \in ConnectType
    PROVE  AuthErrorCalls(op) \in ConnectType /\ ServiceCallback(op) \in ConnectType
<1>1. ASSUME NEW n \in Nat, NEW p \in {"pending", "resolved", "rejected"}
      PROVE  [op EXCEPT !.phase = "done", !.calls = n, !.promise = p] \in ConnectType
  BY DEF ConnectType, ConnectPhases
<1>2. op.calls + 1 \in Nat /\ op.calls + 2 \in Nat
  BY DEF ConnectType
<1>3. CASE throws
  <2>1. /\ AuthErrorCalls(op) = [op EXCEPT !.phase = "done", !.calls = op.calls + 2,
                                          !.promise = "rejected"]
        /\ ServiceCallback(op) = [op EXCEPT !.phase = "done", !.calls = op.calls + 1,
                                           !.promise = "pending"]
    BY <1>3 DEF AuthErrorCalls, ServiceCallback
  <2>2. [op EXCEPT !.phase = "done", !.calls = op.calls + 2, !.promise = "rejected"] \in ConnectType
    BY <1>1, <1>2
  <2>3. [op EXCEPT !.phase = "done", !.calls = op.calls + 1, !.promise = "pending"] \in ConnectType
    BY <1>1, <1>2
  <2> QED
    BY <2>1, <2>2, <2>3, Zenon
<1>4. CASE ~throws
  <2>1. /\ AuthErrorCalls(op) = [op EXCEPT !.phase = "done", !.calls = op.calls + 1,
                                          !.promise = "resolved"]
        /\ ServiceCallback(op) = [op EXCEPT !.phase = "done", !.calls = op.calls + 1,
                                           !.promise = "resolved"]
    BY <1>4 DEF AuthErrorCalls, ServiceCallback
  <2>2. [op EXCEPT !.phase = "done", !.calls = op.calls + 1, !.promise = "resolved"] \in ConnectType
    BY <1>1, <1>2
  <2> QED
    BY <2>1, <2>2, Zenon
<1> QED
  BY <1>3, <1>4

\* The steps of one connect() that do not end its login.
LEMMA ConnectingKeeps ==
    ASSUME ConnectionInv, NEW k \in Connects, connectAsync(k) \/ Connecting(k)
    PROVE  ConnectionInv'
<1> USE DEF ConnectionInv, Typed, ConnectType, ConnectPhases
<1> DEFINE Same == UNCHANGED <<throws, timers, destroys>>
<1>1. CASE connectAsync(k)
  <2>1. /\ Same /\ UNCHANGED session
        /\ connects' = [connects EXCEPT ![k].phase = "preparing"]
    BY <1>1 DEF connectAsync
  <2>2. \A j \in Connects : ConnectInv(j)'
    BY <1>1, <2>1 DEF connectAsync, ConnectInv
  <2> QED
    BY <2>1, <2>2, ConnectChanges
<1>2. CASE prepared(k)
  <2>1. /\ Same /\ UNCHANGED session
        /\ connects' = [connects EXCEPT ![k].phase = "authenticating"]
    BY <1>2 DEF prepared
  <2>2. \A j \in Connects : ConnectInv(j)'
    BY <1>2, <2>1 DEF prepared, ConnectInv
  <2> QED
    BY <2>1, <2>2, ConnectChanges
<1>3. CASE preparationFails(k)
  <2>1. /\ Same /\ UNCHANGED session
        /\ connects' = [connects EXCEPT ![k].phase = "done", ![k].calls = @ + 1,
                                        ![k].promise = "rejected"]
    BY <1>3 DEF preparationFails
  <2>2. \A j \in Connects : ConnectInv(j)'
    BY <1>3, <2>1 DEF preparationFails, ConnectInv
  <2> QED
    BY <2>1, <2>2, ConnectChanges
<1>4. CASE authenticationFails(k)
  <2>1. /\ Same /\ UNCHANGED session
        /\ connects' = [connects EXCEPT ![k] = AuthErrorCalls(connects[k])]
    BY <1>4 DEF authenticationFails
  <2>2. \A j \in Connects : ConnectInv(j)'
    BY <1>4, <2>1 DEF authenticationFails, AuthErrorCalls, ConnectInv
  <2>3. AuthErrorCalls(connects[k]) \in ConnectType
    BY CallbackTypes
  <2> QED
    BY <2>1, <2>2, <2>3, ConnectChanges
<1>5. CASE authenticated(k)
  <2>1. /\ Same /\ session' \in [Conns -> SessionStates]
        /\ \A c \in Conns : session[c] \in Past <=> session'[c] \in Past
    BY <1>5 DEF authenticated, Past, SessionStates
  <2>2. \E p \in {"login", "refused"} : connects' = [connects EXCEPT ![k].phase = p]
    BY <1>5 DEF authenticated
  <2>3. \A j \in Connects : ConnectInv(j)'
    BY <1>5, <2>1, <2>2 DEF authenticated, ConnectInv
  <2> QED
    BY <2>1, <2>2, <2>3, ConnectChanges
<1>6. CASE connectRefused(k)
  <2>1. /\ Same /\ UNCHANGED session
        /\ connects' = [connects EXCEPT ![k] = ServiceCallback(connects[k])]
    BY <1>6 DEF connectRefused, StartTimer
  <2>2. \A j \in Connects : ConnectInv(j)'
    BY <1>6, <2>1 DEF connectRefused, ServiceCallback, ConnectInv
  <2>3. ServiceCallback(connects[k]) \in ConnectType
    BY CallbackTypes
  <2> QED
    BY <2>1, <2>2, <2>3, ConnectChanges
<1> QED
  BY <1>1, <1>2, <1>3, <1>4, <1>5, <1>6 DEF Connecting

\* The end of a login: one timer at most, and none behind a destroy().
LEMMA LoginDoneKeeps ==
    ASSUME ConnectionInv, NEW c \in Conns, session[c] \notin Past, NEW ok \in BOOLEAN,
           session' = [session EXCEPT ![c] = IF ok THEN "connected" ELSE "disconnected"],
           UNCHANGED throws, LoginDone(c, ok)
    PROVE  ConnectionInv'
<1> USE DEF ConnectionInv, Typed, ConnectType, DestroyType, ConnectPhases, DestroyPhases
<1>1. session' \in [Conns -> SessionStates] /\ session'[c] \in Past
  BY DEF SessionStates, Past
<1>2. timers' \in [Conns -> Nat] /\ timers'[c] \in {0, 1}
      /\ \A e \in Conns \ {c} : timers'[e] = timers[e] /\ session'[e] = session[e]
  BY DEF LoginDone, StartTimer, TimerInv
<1>3. connects' \in [Connects -> ConnectType]
  <2>1. ASSUME NEW k \in Connects PROVE ServiceCallback(connects[k]) \in ConnectType
    BY CallbackTypes
  <2> QED
    BY <2>1 DEF LoginDone
<1>4. destroys' \in [Destroys -> DestroyType]
  BY DEF LoginDone, Drain
<1>5. ASSUME NEW e \in Conns PROVE TimerInv(e)'
  BY <1>1, <1>2 DEF TimerInv
<1>6. ASSUME NEW d \in Destroys PROVE DestroyInv(d)'
  <2>1. /\ destroys'[d].conn = destroys[d].conn /\ destroys'[d].came = destroys[d].came
        /\ \/ destroys'[d].phase = destroys[d].phase
           \/ /\ destroys[d].conn = c /\ destroys[d].phase = "queued"
              /\ destroys'[d].phase \in {"sent", "refused"}
    BY DEF LoginDone, Drain
  <2>2. CASE destroys[d].conn = c
    <3>1. destroys[d].came # "after" \/ destroys[d].phase \in {"idle", "queued"}
      BY <2>2 DEF DestroyInv
    <3> QED
      BY <1>1, <2>1, <2>2, <3>1 DEF DestroyInv
  <2>3. CASE destroys[d].conn # c
    BY <1>2, <2>1, <2>3 DEF DestroyInv
  <2> QED
    BY <2>2, <2>3
<1>7. ASSUME NEW k \in Connects PROVE ConnectInv(k)'
  <2>1. connects'[k] = connects[k] \/ (/\ connects[k].phase = "login"
                                      /\ connects'[k] = ServiceCallback(connects[k]))
    BY DEF LoginDone
  <2>2. connects[k] \in ConnectType /\ ConnectInv(k)
    OBVIOUS
  <2>3. CASE connects'[k] = connects[k]
    BY <2>2, <2>3 DEF ConnectInv
  <2>4. CASE connects[k].phase = "login" /\ connects'[k] = ServiceCallback(connects[k])
    BY <2>2, <2>4 DEF ConnectInv, ServiceCallback
  <2> QED
    BY <2>1, <2>3, <2>4
<1> QED
  BY <1>1, <1>2, <1>3, <1>4, <1>5, <1>6, <1>7

LEMMA LoginKeeps ==
    ASSUME ConnectionInv, NEW c \in Conns, Login(c)
    PROVE  ConnectionInv'
<1>1. ASSUME NEW keep \in KeepAlives, loginAnswered(c, keep) PROVE ConnectionInv'
  <2>1. session[c] = "connecting" /\ UNCHANGED throws
    BY <1>1 DEF loginAnswered
  <2>2. CASE /\ session' = [session EXCEPT ![c] = "storing"]
             /\ UNCHANGED <<connects, timers, destroys>>
    <3>1. /\ session' \in [Conns -> SessionStates]
          /\ \A e \in Conns : session[e] \in Past <=> session'[e] \in Past
      BY <2>1, <2>2 DEF ConnectionInv, Typed, Past, SessionStates
    <3>2. \A k \in Connects : ConnectInv(k)'
      BY <2>1, <2>2 DEF ConnectionInv, ConnectInv
    <3> QED
      BY <2>1, <2>2, <3>1, <3>2, ConnectChanges DEF ConnectionInv, Typed
  <2>3. CASE session' = [session EXCEPT ![c] = "connected"] /\ LoginDone(c, TRUE)
    BY <2>1, <2>3, LoginDoneKeeps DEF Past
  <2> QED
    BY <1>1, <2>2, <2>3 DEF loginAnswered
<1>2. CASE credentialStored(c)
  BY <1>2, LoginDoneKeeps DEF credentialStored, Past
<1>3. CASE loginFailed(c)
  BY <1>3, LoginDoneKeeps DEF loginFailed, Past
<1> QED
  BY <1>1, <1>2, <1>3 DEF Login

\* A destroy() and its callback, which stops the timer whatever the answer.
LEMMA DestroyingKeeps ==
    ASSUME ConnectionInv, NEW d \in Destroys, destroy(d) \/ Destroying(d)
    PROVE  ConnectionInv'
<1> USE DEF ConnectionInv, Typed, DestroyType, DestroyPhases
<1> DEFINE c == destroys[d].conn
<1>0. c \in Conns
  OBVIOUS
<1>1. CASE destroy(d)
  <2>1. /\ UNCHANGED <<throws, session, timers, connects>>
        /\ destroys' = [destroys EXCEPT ![d].phase = PhaseOfCall(c),
                                        ![d].came = TimeOfCall(c)]
    BY <1>1 DEF destroy
  <2>2. PhaseOfCall(c) \in {"queued", "sent", "refused"}
    BY DEF PhaseOfCall
  <2>3. /\ TimeOfCall(c) \in Times
        /\ TimeOfCall(c) = "after" /\ PhaseOfCall(c) # "queued" => session[c] \in Past
        /\ TimeOfCall(c) # "after" => PhaseOfCall(c) = "refused"
    BY <1>0 DEF TimeOfCall, PhaseOfCall, SessionStates, Past, Times
  <2>4. Typed'
    <3>1. ASSUME NEW p \in DestroyPhases, NEW b \in Times, NEW o \in DestroyType
          PROVE  [o EXCEPT !.phase = p, !.came = b] \in DestroyType
      OBVIOUS
    <3>2. /\ destroys[d] \in DestroyType /\ PhaseOfCall(c) \in DestroyPhases
          /\ TimeOfCall(c) \in Times
      BY <2>2, <2>3
    <3> DEFINE p == PhaseOfCall(c)
               b == TimeOfCall(c)
               o == [destroys[d] EXCEPT !.phase = p, !.came = b]
    <3> HIDE DEF p, b
    <3>3. p \in DestroyPhases /\ b \in Times
      BY <3>2 DEF p, b
    <3>4. destroys' = [destroys EXCEPT ![d] = o]
      BY <2>1 DEF p, b
    <3> HIDE DEF DestroyType, DestroyPhases
    <3>5. o \in DestroyType
      BY <3>1, <3>2, <3>3, Zenon
    <3> HIDE DEF o
    <3>6. destroys' \in [Destroys -> DestroyType]
      BY <3>4, <3>5
    <3> QED
      BY <2>1, <3>6
  <2>5. ASSUME NEW e \in Destroys PROVE DestroyInv(e)'
    BY <1>1, <2>1, <2>2, <2>3 DEF DestroyInv, destroy
  <2>6. (\A e \in Conns : TimerInv(e)') /\ (\A k \in Connects : ConnectInv(k)')
    BY <2>1 DEF TimerInv, ConnectInv
  <2> QED
    BY <2>4, <2>5, <2>6
<1>2. ASSUME NEW ok \in BOOLEAN, DestroyCallback(d, ok), UNCHANGED <<throws, connects>>,
             destroys[d].phase = "sent" \/ (~ok /\ destroys[d].phase = "refused"),
             session' = [session EXCEPT ![c] = IF ok THEN "disconnected" ELSE @]
      PROVE  ConnectionInv'
  <2>1. /\ timers' \in [Conns -> Nat] /\ timers'[c] = 0
        /\ \A e \in Conns \ {c} : timers'[e] = timers[e] /\ session'[e] = session[e]
    BY <1>0, <1>2 DEF DestroyCallback, StopTimer, TimerInv
  <2>2. /\ session' \in [Conns -> SessionStates]
        /\ session[c] \in Past => session'[c] \in Past
    BY <1>0, <1>2 DEF SessionStates, Past
  <2>3. destroys' = [destroys EXCEPT ![d].phase = IF ok THEN "done" ELSE "failed"]
    BY <1>2 DEF DestroyCallback
  <2>4. Typed'
    BY <1>2, <2>1, <2>2, <2>3
  <2>5. ASSUME NEW e \in Conns PROVE TimerInv(e)'
    BY <1>0, <2>1, <2>2 DEF TimerInv
  <2>6. ASSUME NEW e \in Destroys PROVE DestroyInv(e)'
    BY <1>0, <1>2, <2>1, <2>2, <2>3 DEF DestroyInv
  <2>7. \A k \in Connects : ConnectInv(k)'
    BY <1>2 DEF ConnectInv
  <2> QED
    BY <2>4, <2>5, <2>6, <2>7
<1>3. ASSUME NEW ok \in BOOLEAN, destroyAnswered(d, ok) PROVE ConnectionInv'
  BY <1>2, <1>3 DEF destroyAnswered
<1>4. CASE destroyRefused(d)
  BY <1>0, <1>2, <1>4 DEF destroyRefused
<1> QED
  BY <1>1, <1>3, <1>4 DEF Destroying

\* Everything else: polls, heartbeats, parameters of the process.
LEMMA OthersKeep ==
    ASSUME ConnectionInv,
           \/ \E p \in Polls : getResultsFromQueryId(p) \/ Polling(p)
           \/ \E c \in Conns : Beating(c)
           \/ \E keep \in KeepAlives : parametersUpdated(keep)
           \/ UNCHANGED connectionVars
    PROVE  ConnectionInv'
<1> DEFINE Apart == /\ UNCHANGED <<throws, timers, connects, destroys>>
                    /\ \/ UNCHANGED session
                       \/ \E c \in Conns : session' = [session EXCEPT ![c] = "disconnected"]
<1>1. Apart
  <2>1. ASSUME NEW p \in Polls, getResultsFromQueryId(p) \/ Polling(p) PROVE Apart
    BY <2>1 DEF getResultsFromQueryId, Polling, statusAnswered, delayOver
  <2>2. ASSUME NEW c \in Conns, heartbeat(c) PROVE Apart
    BY <2>2 DEF heartbeat
  <2>3. ASSUME NEW c \in Conns, NEW gone \in BOOLEAN, heartbeatAnswered(c, gone) PROVE Apart
    <3>1. session \in [Conns -> SessionStates]
      BY DEF ConnectionInv, Typed
    <3> QED
      BY <2>3, <3>1 DEF heartbeatAnswered
  <2>4. ASSUME NEW keep \in KeepAlives, parametersUpdated(keep) PROVE Apart
    BY <2>4 DEF parametersUpdated
  <2>5. CASE UNCHANGED connectionVars
    BY <2>5 DEF connectionVars
  <2> QED
    BY <2>1, <2>2, <2>3, <2>4, <2>5 DEF Beating
<1>3. /\ session' \in [Conns -> SessionStates]
      /\ \A c \in Conns : session[c] \in Past => session'[c] \in Past
      /\ \A c \in Conns : session'[c] \notin Past => session[c] \notin Past
  BY <1>1 DEF ConnectionInv, Typed, SessionStates, Past
<1>4. \A k \in Connects : ConnectInv(k)'
  BY <1>1 DEF ConnectionInv, ConnectInv
<1> QED
  BY <1>1, <1>3, <1>4, ConnectChanges DEF ConnectionInv, Typed

LEMMA ConnectionNextInv == ConnectionInv /\ [ConnectionNext]_connectionVars => ConnectionInv'
<1> SUFFICES ASSUME ConnectionInv, [ConnectionNext]_connectionVars PROVE ConnectionInv'
  OBVIOUS
<1>1. CASE \E k \in Connects : connectAsync(k) \/ Connecting(k)
  BY <1>1, ConnectingKeeps
<1>2. CASE \E d \in Destroys : destroy(d) \/ Destroying(d)
  BY <1>2, DestroyingKeeps
<1>3. CASE \E c \in Conns : Login(c)
  BY <1>3, LoginKeeps
<1> QED
  BY <1>1, <1>2, <1>3, OthersKeep DEF ConnectionNext

\* However connect() and destroy() calls on a connection interleave, with whatever
\* answers, it never has two heartbeat timers (connection.js, connectCallback), and
\* none after a destroy() that was answered without an error or came when the login had
\* been sent.  A destroy() that a pristine service refuses leaves the timer of the login
\* that goes on (DestroyTerminates, which does not hold).
THEOREM HeartbeatsStop == ConnectionSpec => []TimerStops
<1>1. ConnectionInv => TimerStops
  BY DEF ConnectionInv, TimerInv, DestroyInv, TimerStops
<1> QED
  BY <1>1, ConnectionInitInv, ConnectionNextInv, PTL DEF ConnectionSpec

\* On each of the paths an error of connect() may take, the callback is called once,
\* unless it throws, and before the promise of connectAsync() is settled.
THEOREM ConnectCallsBackOnce == ConnectionSpec => []CallbackOnce
<1>1. ConnectionInv => CallbackOnce
  BY DEF ConnectionInv, ConnectInv, CallbackOnce
<1> QED
  BY <1>1, ConnectionInitInv, ConnectionNextInv, PTL DEF ConnectionSpec

-----------------------------------------------------------------------------
(* Authentication: the invariant                                           *)

\* Where a connection runs the flow of the coordinator, and where it is on its own
\* after a refresh token, inside the flow or without it.
FlowPcs == {"readAccess", "readRefresh", "checkPort", "listen", "stuck", "browser", "exchange",
            "settling"}
GrantPcs == {"grant", "evict", "writeAccess", "writeRefresh"}
RefusedPcs == {"clear", "clearFailed", "reauth"}

\* Only the kinds with a flow get into it; Okta's retries end.
KindInv(c) ==
    /\ pc[c] \in FlowPcs \cup GrantPcs \cup RefusedPcs \cup {"waiting"} => Kind(c) \in Types
    /\ pc[c] = "oktaAgain" => numRetries[c] <= MaxLoginRetries

\* Who runs a flow is the owner of the entry in PENDING_AUTHS.
Flows(c) ==
    /\ pc[c] \in FlowPcs => pending[Kind(c)].owner = c
    /\ c \in servers => pc[c] = "browser"

\* The owner of an entry runs the flow, and the entry is done when it settles.
Owned(t) ==
    /\ pending[t].owner = "none" <=> pending[t].state = "none"
    /\ pending[t].owner # "none" =>
          /\ Kind(pending[t].owner) = t
          /\ pc[pending[t].owner] \in FlowPcs \cup GrantPcs
          /\ pending[t].state = "done" <=> pc[pending[t].owner] = "settling"

\* A token that can be used once was not used when it is about to be sent.
OneTime(c) ==
    Kind(c) \in {"okta", "keypair"} /\ pc[c] \in {"sent", "sleep"} => token[c] \notin used[c]

\* The tokens a connection was refused with are out of the cache as soon as it has
\* cleared it, and a flow of its own does not come by them.
Refused(c) == rejected[c] \ {0}
Clean(c) ==
    /\ pc[c] # "clear" => cache.access \notin Refused(c)
    /\ pc[c] \in {"readRefresh", "writeRefresh"} => fetched[c].access \notin Refused(c)
    /\ pc[c] = "settling" => pending[Kind(c)].result \notin Refused(c)

\* Nobody else has seen an access token before it is written to the cache: what is
\* written was refused to nobody.
Unseen(d) ==
    pc[d] = "writeAccess" =>
        /\ fetched[d].access \notin {0, cache.access, cache.id}
        /\ \A t \in Types : fetched[d].access # pending[t].result
        /\ \A c \in Connections :
              /\ fetched[d].access \notin rejected[c]
              /\ fetched[d].access # token[c]
              /\ c # d => fetched[d].access # fetched[c].access

LoginInv(c) == KindInv(c) /\ Flows(c) /\ OneTime(c) /\ Clean(c) /\ Unseen(c)

AuthenticationInv ==
    /\ TypeOK
    /\ \A c \in Connections : LoginInv(c)
    /\ \A t \in Types : Owned(t)

-----------------------------------------------------------------------------
(* What a step of connection c does to the others                          *)

\* What c may hand on: nothing, what is in the cache, what it holds itself, the results
\* of flows, and tokens that are issued now.
Mine(c) ==
    {0, cache.access, cache.id, fetched[c].access, pending["code"].result, pending["web"].result}
        \cup {n \in Nat : n > Len(issued)}

\* c leaves the others alone, but for those that wait for it.
OthersStay(c) ==
    \A e \in Connections \ {c} :
        /\ fetched'[e] = fetched[e] /\ rejected'[e] = rejected[e] /\ used'[e] = used[e]
        /\ e \in servers' <=> e \in servers
        /\ \/ pc'[e] = pc[e] /\ token'[e] = token[e] /\ numRetries'[e] = numRetries[e]
           \/ pc[e] = "waiting" /\ pc'[e] \in {"sent", "sleep", "failed"}

\* c changes an entry of PENDING_AUTHS only if it is its own or nobody's.
EntriesStay(c) ==
    \A t \in Types :
        t # Kind(c) \/ pending[t].owner \notin {"none", c} => pending'[t] = pending[t]

\* The tokens that change hands.
HandsOn(c) ==
    /\ \/ cache'.access \in {cache.access, 0}
       \/ cache'.access = fetched[c].access /\ pc[c] = "writeAccess"
    /\ cache'.id \in {cache.id, 0, fetched[c].access}
    /\ \A t \in Types : pending'[t].result \in {pending[t].result} \cup Mine(c)
    /\ \A e \in Connections : token'[e] \in {token[e]} \cup Mine(c)
    /\ fetched'[c].access \in Mine(c)
    /\ rejected'[c] \subseteq rejected[c] \cup {token[c]}

LEMMA MineUnseen ==
    ASSUME AuthenticationInv, NEW c \in Connections, NEW d \in Connections, d # c, pc[d] = "writeAccess",
           NEW x \in Mine(c)
    PROVE  x # fetched[d].access
<1>1. fetched[d].access \in 0 .. Len(issued) /\ Len(issued) \in Nat
  BY DEF AuthenticationInv, TypeOK, Tokens
<1>2. Unseen(d)
  BY DEF AuthenticationInv, LoginInv
<1>3. CASE x \in Nat /\ x > Len(issued)
  BY <1>1, <1>3
<1>4. "code" \in Types /\ "web" \in Types
  BY DEF Types
<1> QED
  BY <1>2, <1>3, <1>4 DEF Mine, Unseen

LEMMA OthersKept ==
    ASSUME AuthenticationInv, NEW c \in Connections, OthersStay(c), EntriesStay(c), HandsOn(c),
           config' = config, TypeOK'
    PROVE  \A e \in Connections \ {c} : LoginInv(e)'
<1> SUFFICES ASSUME NEW e \in Connections, e # c PROVE LoginInv(e)'
  OBVIOUS
<1>1. LoginInv(e) /\ LoginInv(c)
  BY DEF AuthenticationInv
<1>2. /\ fetched'[e] = fetched[e] /\ rejected'[e] = rejected[e] /\ used'[e] = used[e]
      /\ e \in servers' <=> e \in servers
      /\ \/ pc'[e] = pc[e] /\ token'[e] = token[e] /\ numRetries'[e] = numRetries[e]
         \/ pc[e] = "waiting" /\ pc'[e] \in {"sent", "sleep", "failed"}
  BY DEF OthersStay
<1>3. Kind(e)' = Kind(e)
  BY DEF Kind
<1>4. KindInv(e)'
  BY <1>1, <1>2, <1>3 DEF LoginInv, KindInv, FlowPcs, GrantPcs, RefusedPcs
<1>5. Flows(e)'
  <2>1. e # "none"
    BY AuthenticationAssumption
  <2>2. CASE pc'[e] \in FlowPcs
    <3>1. pc'[e] = pc[e] /\ Kind(e) \in Types /\ pending[Kind(e)].owner = e
      BY <1>1, <1>2, <2>2 DEF LoginInv, KindInv, Flows, FlowPcs
    <3>2. pending'[Kind(e)] = pending[Kind(e)]
      BY <2>1, <3>1 DEF EntriesStay
    <3> QED
      BY <1>1, <1>2, <1>3, <3>1, <3>2 DEF LoginInv, Flows
  <2>3. CASE pc'[e] \notin FlowPcs
    BY <1>1, <1>2, <2>3 DEF LoginInv, Flows, FlowPcs
  <2> QED
    BY <2>2, <2>3
<1>6. OneTime(e)'
  BY <1>1, <1>2, <1>3 DEF LoginInv, OneTime, KindInv, Types
<1>7. Clean(e)'
  <2>1. Refused(e)' = Refused(e)
    BY <1>2 DEF Refused
  <2>2. pc'[e] # "clear" => cache'.access \notin Refused(e)
    <3>1. pc'[e] # "clear" => pc[e] # "clear"
      BY <1>2
    <3>2. pc[c] = "writeAccess" => fetched[c].access \notin Refused(e)
      BY <1>1 DEF LoginInv, Unseen, Refused
    <3> QED
      BY <1>1, <3>1, <3>2 DEF LoginInv, Clean, HandsOn, Refused
  <2>3. pc'[e] \in {"readRefresh", "writeRefresh"} => fetched'[e].access \notin Refused(e)
    BY <1>1, <1>2 DEF LoginInv, Clean
  <2>4. pc'[e] = "settling" => pending'[Kind(e)].result \notin Refused(e)
    <3>1. e # "none"
      BY AuthenticationAssumption
    <3>2. pc'[e] = "settling" =>
             pc[e] = "settling" /\ Kind(e) \in Types /\ pending[Kind(e)].owner = e
      BY <1>1, <1>2 DEF LoginInv, KindInv, Flows, FlowPcs
    <3>3. pc'[e] = "settling" => pending'[Kind(e)] = pending[Kind(e)]
      BY <3>1, <3>2 DEF EntriesStay
    <3> QED
      BY <1>1, <3>2, <3>3 DEF LoginInv, Clean
  <2> QED
    BY <1>3, <2>1, <2>2, <2>3, <2>4 DEF Clean
<1>8. Unseen(e)'
  <2> SUFFICES ASSUME pc'[e] = "writeAccess" PROVE Unseen(e)'
    BY DEF Unseen
  <2>1. pc[e] = "writeAccess"
    BY <1>2
  <2>2. \A x \in Mine(c) : x # fetched[e].access
    BY <2>1, MineUnseen
  <2>3. Unseen(e)
    BY <1>1 DEF LoginInv
  <2>4. fetched[e].access \notin {0, cache'.access, cache'.id}
    BY <2>1, <2>2, <2>3 DEF HandsOn, Unseen, Mine
  <2>5. \A t \in Types : fetched[e].access # pending'[t].result
    BY <2>1, <2>2, <2>3 DEF HandsOn, Unseen
  <2>6. ASSUME NEW f \in Connections
        PROVE  /\ fetched[e].access \notin rejected'[f]
               /\ fetched[e].access # token'[f]
               /\ f # e => fetched[e].access # fetched'[f].access
    <3>1. fetched[e].access # token'[f]
      BY <2>1, <2>2, <2>3 DEF HandsOn, Unseen
    <3>2. CASE f = c
      BY <2>1, <2>2, <2>3, <3>1, <3>2 DEF HandsOn, Unseen
    <3>3. CASE f # c
      BY <2>1, <2>3, <3>1, <3>3 DEF OthersStay, Unseen
    <3> QED
      BY <3>2, <3>3
  <2> QED
    BY <1>2, <2>4, <2>5, <2>6 DEF Unseen
<1> QED
  BY <1>4, <1>5, <1>6, <1>7, <1>8 DEF LoginInv

\* An entry that is not touched is still that of its owner.
LEMMA EntriesKept ==
    ASSUME AuthenticationInv, NEW c \in Connections, OthersStay(c), EntriesStay(c), config' = config,
           NEW t \in Types, pending[t].owner # c, pending'[t] = pending[t]
    PROVE  Owned(t)'
<1>1. Owned(t) /\ pending[t].owner \in Connections \cup {"none"}
  BY DEF AuthenticationInv, TypeOK
<1>2. CASE pending[t].owner = "none"
  BY <1>1, <1>2 DEF Owned
<1>3. CASE pending[t].owner # "none"
  <2> PICK o \in Connections : o = pending[t].owner
    BY <1>1, <1>3
  <2>1. /\ Kind(o) = t /\ pc[o] \in FlowPcs \cup GrantPcs
        /\ pending[t].state = "done" <=> pc[o] = "settling"
        /\ pending[t].state # "none"
    BY <1>1, <1>3 DEF Owned
  <2>2. pc'[o] = pc[o]
    BY <2>1 DEF OthersStay, FlowPcs, GrantPcs
  <2>3. Kind(o)' = t
    BY <2>1 DEF Kind
  <2> QED
    BY <1>3, <2>1, <2>2, <2>3 DEF Owned, Kind
<1> QED
  BY <1>2, <1>3

\* What is left to show of a step: the connection itself, and its entry.
LEMMA StepKeeps ==
    ASSUME AuthenticationInv, NEW c \in Connections, OthersStay(c), EntriesStay(c), HandsOn(c),
           config' = config, TypeOK', LoginInv(c)',
           \A t \in Types : t = Kind(c) /\ (pending[t].owner = c \/ pending' # pending) => Owned(t)'
    PROVE  AuthenticationInv'
<1>1. \A e \in Connections : LoginInv(e)'
  BY OthersKept
<1>2. ASSUME NEW t \in Types PROVE Owned(t)'
  <2>1. CASE t = Kind(c) /\ (pending[t].owner = c \/ pending' # pending)
    BY <2>1
  <2>2. CASE t = Kind(c) /\ pending[t].owner # c /\ pending' = pending
    BY <2>2, EntriesKept
  <2>3. CASE t # Kind(c)
    <3>1. pending[t].owner # c
      <4>1. Owned(t) /\ c # "none"
        BY AuthenticationAssumption DEF AuthenticationInv
      <4> QED
        BY <2>3, <4>1 DEF Owned
    <3>2. pending'[t] = pending[t]
      BY <2>3 DEF EntriesStay
    <3> QED
      BY <2>3, <3>1, <3>2, EntriesKept
  <2> QED
    BY <2>1, <2>2, <2>3
<1> QED
  BY <1>1, <1>2 DEF AuthenticationInv

-----------------------------------------------------------------------------
(* Steps of one connection, and of a flow                                  *)

\* The step is c's own: it changes nothing of the others, nor PENDING_AUTHS.
Own(c) ==
    /\ config' = config /\ pending' = pending
    /\ pc' = [pc EXCEPT ![c] = pc'[c]]
    /\ token' = [token EXCEPT ![c] = token'[c]]
    /\ fetched' = [fetched EXCEPT ![c] = fetched'[c]]
    /\ numRetries' = [numRetries EXCEPT ![c] = numRetries'[c]]
    /\ rejected' = [rejected EXCEPT ![c] = rejected'[c]]
    /\ used' = [used EXCEPT ![c] = used'[c]]
    /\ servers' \ {c} = servers \ {c}

\* Servers only add to the tokens that were issued.
Grows ==
    /\ issued' \in Seq({"access", "refresh", "id", "saml", "jwt"})
    /\ Len(issued) <= Len(issued') /\ Len(issued') <= MaxIssued
    /\ good' \subseteq 1 .. Len(issued')

\* The types of what c's step changes.
OwnTypes(c) ==
    /\ pc'[c] \in States
    /\ token'[c] \in Tokens'
    /\ fetched'[c] \in [access : Tokens', refresh : Tokens']
    /\ numRetries'[c] \in 0 .. MaxLoginRetries + 1
    /\ rejected'[c] \subseteq Tokens' /\ used'[c] \subseteq Tokens'
    /\ again' \subseteq Connections /\ servers' \subseteq Connections
    /\ cache' \in [access : Tokens', refresh : Tokens', id : Tokens']

LEMMA TokensGrow ==
    ASSUME TypeOK, Grows
    PROVE  Tokens \subseteq Tokens' /\ Len(issued) \in Nat /\ Len(issued') \in Nat
BY DEF TypeOK, Grows, Tokens

LEMMA OwnStepTypes ==
    ASSUME AuthenticationInv, NEW c \in Connections, Own(c), Grows, OwnTypes(c)
    PROVE  TypeOK'
<1>1. TypeOK
  BY DEF AuthenticationInv
<1>2. Tokens \subseteq Tokens'
  BY <1>1, TokensGrow
<1>3. config' \in Assignments /\ pc' \in [Connections -> States]
  BY <1>1 DEF TypeOK, Own, OwnTypes
<1>4. token' \in [Connections -> Tokens'] /\ numRetries' \in [Connections -> 0 .. MaxLoginRetries + 1]
  BY <1>1, <1>2 DEF TypeOK, Own, OwnTypes
<1>5. fetched' \in [Connections -> [access : Tokens', refresh : Tokens']]
  <2>1. \A g \in [access : Tokens, refresh : Tokens] : g \in [access : Tokens', refresh : Tokens']
    BY <1>2
  <2> QED
    BY <1>1, <2>1 DEF TypeOK, Own, OwnTypes
<1>6. rejected' \in [Connections -> SUBSET Tokens'] /\ used' \in [Connections -> SUBSET Tokens']
  <2>1. /\ rejected \in [Connections -> SUBSET Tokens']
        /\ used \in [Connections -> SUBSET Tokens']
    BY <1>1, <1>2 DEF TypeOK
  <2> QED
    BY <2>1 DEF Own, OwnTypes
<1>7. pending' \in [Types -> [state : {"none", "running", "done"},
                              owner : Connections \cup {"none"}, result : Tokens']]
  <2>1. \A p \in [state : {"none", "running", "done"}, owner : Connections \cup {"none"},
                  result : Tokens] :
            p \in [state : {"none", "running", "done"}, owner : Connections \cup {"none"},
                   result : Tokens']
    BY <1>2
  <2> QED
    BY <1>1, <2>1 DEF TypeOK, Own
<1> QED
  BY <1>3, <1>4, <1>5, <1>6, <1>7 DEF TypeOK, OwnTypes, Grows

\* The tokens that c comes by, or puts into the cache.
Gets(c) ==
    /\ \/ cache'.access \in {cache.access, 0}
       \/ cache'.access = fetched[c].access /\ pc[c] = "writeAccess"
    /\ cache'.id \in {cache.id, 0, fetched[c].access}
    /\ token'[c] \in {token[c]} \cup Mine(c)
    /\ fetched'[c].access \in Mine(c)
    /\ rejected'[c] \subseteq rejected[c] \cup {token[c]}

LEMMA OwnStep ==
    ASSUME AuthenticationInv, NEW c \in Connections, Own(c), Grows, OwnTypes(c), Gets(c), LoginInv(c)',
           Kind(c) \in Types /\ pending[Kind(c)].owner = c =>
               pc[c] # "settling" /\ pc'[c] \in (FlowPcs \cup GrantPcs) \ {"settling"}
    PROVE  AuthenticationInv'
<1>1. TypeOK'
  BY OwnStepTypes
<1>2. OthersStay(c)
  BY DEF Own, OthersStay, AuthenticationInv, TypeOK
<1>3. EntriesStay(c) /\ pending' = pending /\ config' = config
  BY DEF Own, EntriesStay
<1>4. ASSUME NEW t \in Types, t = Kind(c), pending[t].owner = c
      PROVE  Owned(t)'
  <2>1. Owned(t) /\ c # "none"
    BY AuthenticationAssumption DEF AuthenticationInv
  <2>2. pc[c] # "settling" /\ pc'[c] \in (FlowPcs \cup GrantPcs) \ {"settling"}
    BY <1>4
  <2>3. Kind(c)' = t
    BY <1>3, <1>4 DEF Kind
  <2> QED
    BY <1>3, <1>4, <2>1, <2>2, <2>3 DEF Owned, Kind
<1>5. HandsOn(c)
  <2>1. \A e \in Connections : token'[e] \in {token[e]} \cup Mine(c)
    BY DEF Own, Gets, AuthenticationInv, TypeOK
  <2> QED
    BY <1>3, <2>1 DEF Gets, HandsOn
<1> QED
  BY <1>1, <1>2, <1>3, <1>4, <1>5, StepKeeps

\* What Resume() does to each connection.
LEMMA ResumeFacts ==
    ASSUME TypeOK, NEW cs \in SUBSET Connections, NEW owner \in SUBSET Connections, NEW r,
           Resume(cs, owner, r)
    PROVE  /\ pc' \in [Connections -> States] /\ again' \subseteq Connections
           /\ numRetries' \in [Connections -> 0 .. MaxLoginRetries + 1]
           /\ token' = [c \in Connections |-> token'[c]]
           /\ \A e \in Connections :
                 /\ e \in owner => pc'[e] = "settling"
                 /\ e \in cs /\ e \notin owner => pc'[e] \in {"sent", "sleep", "failed"}
                 /\ e \notin cs =>
                       token'[e] = token[e] /\ numRetries'[e] = numRetries[e]
                 /\ e \notin cs \cup owner => pc'[e] = pc[e]
                 /\ token'[e] \in {token[e], r}
<1> PICK retryable \in BOOLEAN :
      LET q == {c \in cs \cap again : r = 0 /\ retryable /\ numRetries[c] < MaxLoginRetries}
      IN  /\ pc' = [c \in Connections |->
                       IF c \in owner THEN "settling"
                       ELSE IF c \notin cs THEN pc[c]
                       ELSE IF r # 0 THEN "sent"
                       ELSE IF c \in q THEN "sleep" ELSE "failed"]
          /\ token' = [c \in Connections |-> IF c \in cs /\ r # 0 THEN r ELSE token[c]]
          /\ numRetries' = [c \in Connections |->
                               IF c \in q THEN numRetries[c] + 1 ELSE numRetries[c]]
          /\ again' = again \ cs
  BY DEF Resume
<1> PICK retried :
      retried = {c \in cs \cap again : r = 0 /\ retryable /\ numRetries[c] < MaxLoginRetries}
  OBVIOUS
<1>a. \A e \in retried : e \in cs /\ numRetries[e] < MaxLoginRetries
  OBVIOUS
<1>b. pc' = [c \in Connections |->
                IF c \in owner THEN "settling"
                ELSE IF c \notin cs THEN pc[c]
                ELSE IF r # 0 THEN "sent"
                ELSE IF c \in retried THEN "sleep" ELSE "failed"]
  OBVIOUS
<1>c. /\ token' = [c \in Connections |-> IF c \in cs /\ r # 0 THEN r ELSE token[c]]
      /\ numRetries' = [c \in Connections |->
                           IF c \in retried THEN numRetries[c] + 1 ELSE numRetries[c]]
      /\ again' = again \ cs
  OBVIOUS
<1>1. pc \in [Connections -> States] /\ again \subseteq Connections
      /\ numRetries \in [Connections -> 0 .. MaxLoginRetries + 1] /\ MaxLoginRetries \in Nat
  BY AuthenticationAssumption DEF TypeOK
<1>2. pc' \in [Connections -> States]
  BY <1>1, <1>b DEF States
<1>3. numRetries' \in [Connections -> 0 .. MaxLoginRetries + 1]
  BY <1>1, <1>a, <1>c
<1> QED
  BY <1>1, <1>2, <1>3, <1>a, <1>b, <1>c

\* What a step does beside settling or being resumed.
Beside(c) ==
    /\ config' = config /\ rejected' = rejected /\ used' = used /\ servers' = servers \ {c}
    /\ fetched' = [fetched EXCEPT ![c] = fetched'[c]]
    /\ fetched'[c] \in [access : Tokens', refresh : Tokens']
    /\ fetched'[c].access \in Mine(c)
    /\ cache' \in [access : Tokens', refresh : Tokens', id : Tokens']
    /\ \/ cache'.access \in {cache.access, 0}
       \/ cache'.access = fetched[c].access /\ pc[c] = "writeAccess"
    /\ cache'.access \notin Refused(c)
    /\ cache'.id \in {cache.id, 0, fetched[c].access}
    /\ Grows

LEMMA ResumeTypes ==
    ASSUME AuthenticationInv, NEW c \in Connections, Beside(c),
           NEW cs \in SUBSET Connections, NEW owner \in SUBSET Connections, NEW r \in Tokens',
           Resume(cs, owner, r),
           pending' \in [Types -> [state : {"none", "running", "done"},
                                  owner : Connections \cup {"none"}, result : Tokens']]
    PROVE  TypeOK'
<1>1. TypeOK
  BY DEF AuthenticationInv
<1>2. Tokens \subseteq Tokens'
  BY <1>1, TokensGrow DEF Beside
<1>3. /\ pc' \in [Connections -> States] /\ again' \subseteq Connections
      /\ numRetries' \in [Connections -> 0 .. MaxLoginRetries + 1]
      /\ token' = [e \in Connections |-> token'[e]]
      /\ \A e \in Connections : token'[e] \in {token[e], r}
  BY <1>1, ResumeFacts
<1>4. token' \in [Connections -> Tokens']
  <2>1. \A e \in Connections : token'[e] \in Tokens'
    BY <1>1, <1>2, <1>3 DEF TypeOK
  <2> QED
    BY <1>3, <2>1
<1>5. fetched' \in [Connections -> [access : Tokens', refresh : Tokens']]
  <2>1. \A g \in [access : Tokens, refresh : Tokens] : g \in [access : Tokens', refresh : Tokens']
    BY <1>2
  <2> QED
    BY <1>1, <2>1 DEF TypeOK, Beside
<1>6. rejected' \in [Connections -> SUBSET Tokens'] /\ used' \in [Connections -> SUBSET Tokens']
  BY <1>1, <1>2 DEF TypeOK, Beside
<1>7. servers' \subseteq Connections /\ config' \in Assignments
  BY <1>1 DEF TypeOK, Beside
<1> QED
  BY <1>3, <1>4, <1>5, <1>6, <1>7 DEF TypeOK, Beside, Grows

\* A flow that settles its promise.
LEMMA SettleStep ==
    ASSUME AuthenticationInv, NEW c \in Connections, Beside(c), Kind(c) \in Types,
           pending[Kind(c)].owner = c, pc[c] \in (FlowPcs \cup GrantPcs) \ {"settling"},
           NEW r \in Mine(c), r \in Tokens', r \notin Refused(c), settle(c, r)
    PROVE  AuthenticationInv'
<1>1. TypeOK /\ LoginInv(c)
  BY DEF AuthenticationInv
<1> PICK t \in Types : t = Kind(c)
  OBVIOUS
<1>cs. PICK cs : cs = {d \in Connections : pc[d] = "waiting" /\ Kind(d) = Kind(c)}
  OBVIOUS
<1>2. Resume(cs, {c}, r) /\ pending' = [pending EXCEPT ![t].state = "done", ![t].result = r]
  BY <1>cs DEF settle
<1>3. /\ \A e \in Connections : e \in cs => pc[e] = "waiting"
      /\ c \notin cs /\ cs \in SUBSET Connections
  BY <1>cs DEF FlowPcs, GrantPcs
<1>4. /\ pc'[c] = "settling"
      /\ \A e \in Connections :
            /\ e \in cs => pc'[e] \in {"sent", "sleep", "failed"}
            /\ e \notin cs => token'[e] = token[e] /\ numRetries'[e] = numRetries[e]
            /\ e \notin cs /\ e # c => pc'[e] = pc[e]
            /\ token'[e] \in {token[e], r}
  <2>o. PICK o : o = {c}
    OBVIOUS
  <2>1. /\ TypeOK
        /\ cs \in SUBSET Connections
        /\ o \in SUBSET Connections
        /\ Resume(cs, o, r)
    BY <1>1, <1>2, <1>3, <2>o
  <2>2. \A e \in Connections :
           /\ e \in o => pc'[e] = "settling"
           /\ e \in cs /\ e \notin o => pc'[e] \in {"sent", "sleep", "failed"}
           /\ e \notin cs => token'[e] = token[e] /\ numRetries'[e] = numRetries[e]
           /\ e \notin cs \cup o => pc'[e] = pc[e]
           /\ token'[e] \in {token[e], r}
    BY ONLY <2>1, ResumeFacts
  <2>3. pc'[c] = "settling"
    BY <2>2, <2>o
  <2>4. ASSUME NEW e \in Connections
        PROVE  /\ e \in cs => pc'[e] \in {"sent", "sleep", "failed"}
               /\ e \notin cs => token'[e] = token[e] /\ numRetries'[e] = numRetries[e]
               /\ e \notin cs /\ e # c => pc'[e] = pc[e]
               /\ token'[e] \in {token[e], r}
    <3>1. e \in cs => e # c
      BY <1>3
    <3> QED
      BY <2>2, <2>o, <3>1
  <2> QED
    BY <2>3, <2>4
<1>5. Kind(c)' = t /\ config' = config
  BY DEF Beside, Kind
<1>6. /\ pending'[t].state = "done" /\ pending'[t].owner = c /\ pending'[t].result = r
      /\ \A u \in Types : u # t => pending'[u] = pending[u]
  BY <1>1, <1>2 DEF TypeOK
<1>7. pending' \in [Types -> [state : {"none", "running", "done"},
                              owner : Connections \cup {"none"}, result : Tokens']]
  <2>1. Tokens \subseteq Tokens'
    BY <1>1, TokensGrow DEF Beside
  <2>2. pending \in [Types -> [state : {"none", "running", "done"},
                              owner : Connections \cup {"none"}, result : Tokens']]
    BY <1>1, <2>1 DEF TypeOK
  <2>3. pending'[t] = [state |-> "done", owner |-> c, result |-> r]
    <3> PICK p \in [state : {"none", "running", "done"}, owner : Connections \cup {"none"},
                    result : Tokens'] : p = pending[t]
      BY <2>2
    <3>1. pending'[t] = [p EXCEPT !.state = "done", !.result = r] /\ p.owner = c
      BY <1>2, <2>2
    <3> QED
      BY <3>1
  <2>4. pending' = [u \in Types |-> pending'[u]]
    BY <1>1, <1>2 DEF TypeOK
  <2>5. ASSUME NEW u \in Types
        PROVE  pending'[u] \in [state : {"none", "running", "done"},
                               owner : Connections \cup {"none"}, result : Tokens']
    BY <1>6, <2>2, <2>3
  <2> QED
    BY <2>4, <2>5
<1>8. TypeOK'
  <2>1. {c} \in SUBSET Connections
    OBVIOUS
  <2> QED
    BY <1>2, <1>3, <1>7, <2>1, ResumeTypes
<1>9. OthersStay(c)
  BY <1>1, <1>3, <1>4 DEF OthersStay, Beside, TypeOK
<1>10. EntriesStay(c)
  BY <1>6 DEF EntriesStay
<1>11. HandsOn(c)
  <2>1. rejected'[c] \subseteq rejected[c] \cup {token[c]}
    BY DEF Beside
  <2>2. \A u \in Types : pending'[u].result \in {pending[u].result} \cup Mine(c)
    BY <1>6
  <2>3. \A e \in Connections : token'[e] \in {token[e]} \cup Mine(c)
    BY <1>4
  <2> QED
    BY <2>1, <2>2, <2>3 DEF HandsOn, Beside
<1>12. LoginInv(c)'
  <2>1. KindInv(c)' /\ OneTime(c)' /\ Unseen(c)'
    BY <1>4, <1>5 DEF KindInv, OneTime, Unseen
  <2>2. Flows(c)'
    BY <1>4, <1>5, <1>6 DEF Flows, Beside
  <2>3. Clean(c)'
    BY <1>4, <1>5, <1>6 DEF Clean, Refused, Beside
  <2> QED
    BY <2>1, <2>2, <2>3 DEF LoginInv
<1>13. Owned(t)'
  <2>1. c # "none"
    BY AuthenticationAssumption
  <2> QED
    BY <1>4, <1>5, <1>6, <2>1 DEF Owned, Kind, FlowPcs
<1> QED
  BY <1>5, <1>8, <1>9, <1>10, <1>11, <1>12, <1>13, StepKeeps

\* One connection goes on with the result of a promise.
LEMMA ResumeStep ==
    ASSUME AuthenticationInv, NEW c \in Connections, Beside(c), Kind(c) \in Types,
           NEW r \in Mine(c), r \in Tokens', Resume({c}, {}, r),
           \/ pending' = pending /\ pending[Kind(c)].owner # c
           \/ pending' = [pending EXCEPT ![Kind(c)] = NoAuth] /\ pending[Kind(c)].owner = c
    PROVE  AuthenticationInv'
<1>1. TypeOK /\ LoginInv(c)
  BY DEF AuthenticationInv
<1> PICK t \in Types : t = Kind(c)
  OBVIOUS
<1>2. {c} \in SUBSET Connections /\ {} \in SUBSET Connections
  OBVIOUS
<1>3. /\ pc'[c] \in {"sent", "sleep", "failed"}
      /\ \A e \in Connections :
            /\ e # c => pc'[e] = pc[e] /\ token'[e] = token[e] /\ numRetries'[e] = numRetries[e]
            /\ token'[e] \in {token[e], r}
  <2>1. \A e \in Connections :
           /\ e \in {} => pc'[e] = "settling"
           /\ e \in {c} /\ e \notin {} => pc'[e] \in {"sent", "sleep", "failed"}
           /\ e \notin {c} => token'[e] = token[e] /\ numRetries'[e] = numRetries[e]
           /\ e \notin {c} \cup {} => pc'[e] = pc[e]
           /\ token'[e] \in {token[e], r}
    BY <1>1, <1>2, ResumeFacts
  <2> QED
    BY <2>1
<1>4. Kind(c)' = t /\ config' = config
  BY DEF Beside, Kind
<1>5. \A u \in Types : u # t => pending'[u] = pending[u]
  BY <1>1 DEF TypeOK
<1>6. \/ pending' = pending /\ pending[t].owner # c
      \/ pending[t].owner = c /\ pending'[t] = NoAuth
  BY <1>1 DEF TypeOK
<1>7. pending' \in [Types -> [state : {"none", "running", "done"},
                              owner : Connections \cup {"none"}, result : Tokens']]
  <2>1. Tokens \subseteq Tokens' /\ 0 \in Tokens'
    <3>1. Len(issued') \in Nat
      BY <1>1, TokensGrow DEF Beside
    <3> QED
      BY <1>1, <3>1, TokensGrow DEF Beside, Tokens
  <2>2. pending \in [Types -> [state : {"none", "running", "done"},
                              owner : Connections \cup {"none"}, result : Tokens']]
    BY <1>1, <2>1 DEF TypeOK
  <2>3. NoAuth \in [state : {"none", "running", "done"},
                   owner : Connections \cup {"none"}, result : Tokens']
    BY <2>1 DEF NoAuth
  <2> HIDE DEF NoAuth
  <2> QED
    BY <2>2, <2>3
<1>8. TypeOK'
  BY <1>2, <1>7, ResumeTypes
<1>9. OthersStay(c)
  BY <1>1, <1>3 DEF OthersStay, Beside, TypeOK
<1>10. EntriesStay(c)
  BY <1>5, <1>6 DEF EntriesStay
<1>11. HandsOn(c)
  <2>1. rejected'[c] \subseteq rejected[c] \cup {token[c]}
    BY DEF Beside
  <2>2. \A u \in Types : pending'[u].result \in {pending[u].result} \cup Mine(c)
    BY <1>5, <1>6 DEF NoAuth, Mine
  <2>3. \A e \in Connections : token'[e] \in {token[e]} \cup Mine(c)
    BY <1>3
  <2> QED
    BY <2>1, <2>2, <2>3 DEF HandsOn, Beside
<1>12. LoginInv(c)'
  <2>1. KindInv(c)' /\ OneTime(c)' /\ Unseen(c)'
    BY <1>3, <1>4 DEF KindInv, OneTime, Unseen, FlowPcs, GrantPcs, RefusedPcs, Types
  <2>2. Flows(c)'
    BY <1>3, <1>4 DEF Flows, Beside, FlowPcs
  <2>3. Clean(c)'
    BY <1>3, <1>4 DEF Clean, Refused, Beside
  <2> QED
    BY <2>1, <2>2, <2>3 DEF LoginInv
<1>13. pending[t].owner = c \/ pending' # pending => Owned(t)'
  <2>1. pending'[t] = NoAuth => Owned(t)'
    BY DEF Owned, NoAuth
  <2> QED
    BY <1>6, <2>1
<1> QED
  BY <1>4, <1>8, <1>9, <1>10, <1>11, <1>12, <1>13, StepKeeps

-----------------------------------------------------------------------------
(* The steps                                                               *)

LEMMA IssueFacts ==
    ASSUME TypeOK, NEW types \in Seq({"access", "refresh", "id", "saml", "jwt"}), NEW spent,
           Issue(types, spent)
    PROVE  Grows /\ Newest = Len(issued) + Len(types) /\ Len(issued) \in Nat
<1>1. /\ issued \in Seq({"access", "refresh", "id", "saml", "jwt"})
      /\ good \subseteq 1 .. Len(issued) /\ Len(issued) \in Nat /\ Len(types) \in Nat
  BY DEF TypeOK
<1>2. /\ issued' \in Seq({"access", "refresh", "id", "saml", "jwt"})
      /\ Len(issued') = Len(issued) + Len(types)
  BY <1>1 DEF Issue
<1>3. good' \subseteq 1 .. Len(issued')
  <2> PICK l \in Nat, m \in Nat : l = Len(issued) /\ m = Len(types)
    BY <1>1
  <2>1. \A x \in good' : x \in good \/ x \in l + 1 .. l + m
    BY DEF Issue
  <2>2. good \subseteq 1 .. l
    BY <1>1
  <2>3. ASSUME NEW x \in good' PROVE x \in 1 .. l + m
    <3>1. CASE x \in good
      <4>1. x \in 1 .. l
        BY <2>2, <3>1
      <4> QED
        BY ONLY <4>1, l \in Nat, m \in Nat
    <3>2. CASE x \in l + 1 .. l + m
      BY ONLY <3>2, l \in Nat, m \in Nat
    <3> QED
      BY <2>1, <3>1, <3>2
  <2> QED
    BY <1>2, <2>3
<1> QED
  BY <1>1, <1>2, <1>3 DEF Issue, Grows, Newest

\* One token: it is new.
LEMMA IssueOne ==
    ASSUME TypeOK, NEW x \in {"access", "refresh", "id", "saml", "jwt"}, NEW spent,
           Issue(<<x>>, spent)
    PROVE  Grows /\ Newest \in Tokens' /\ Newest = Len(issued) + 1 /\ Len(issued) \in Nat
<1>1. <<x>> \in Seq({"access", "refresh", "id", "saml", "jwt"}) /\ Len(<<x>>) = 1
  OBVIOUS
<1>2. Grows /\ Newest = Len(issued) + Len(<<x>>) /\ Len(issued) \in Nat
  BY <1>1, IssueFacts
<1> QED
  BY <1>1, <1>2 DEF Newest, Tokens

\* An access and a refresh token.
LEMMA IssueTwo ==
    ASSUME TypeOK, NEW spent, Issue(<<"access", "refresh">>, spent)
    PROVE  /\ Grows /\ Newest \in Tokens' /\ Newest - 1 \in Tokens'
           /\ Newest = Len(issued) + 2 /\ Len(issued) \in Nat
<1>1. /\ <<"access", "refresh">> \in Seq({"access", "refresh", "id", "saml", "jwt"})
      /\ Len(<<"access", "refresh">>) = 2
  OBVIOUS
<1>2. Grows /\ Newest = Len(issued) + Len(<<"access", "refresh">>) /\ Len(issued) \in Nat
  BY <1>1, IssueFacts
<1> QED
  BY <1>1, <1>2 DEF Newest, Tokens

LEMMA IssueNone ==
    ASSUME TypeOK, UNCHANGED tokenVars
    PROVE  Grows /\ Tokens' = Tokens /\ 0 \in Tokens
BY DEF TypeOK, tokenVars, Grows, Tokens

\* A token that is issued now is one nobody has seen.
LEMMA NewTokens ==
    ASSUME TypeOK, NEW c \in Connections, NEW n \in Nat, n > Len(issued)
    PROVE  /\ n \in Mine(c) /\ n # 0 /\ n \notin Refused(c)
           /\ n \notin rejected[c] /\ n \notin used[c] /\ n # token[c]
           /\ n # fetched[c].access /\ n # cache.access /\ n # cache.id
           /\ \A t \in Types : n # pending[t].result
<1>1. Len(issued) \in Nat /\ \A m \in Tokens : n # m
  BY DEF TypeOK, Tokens
<1>2. n \in Mine(c) /\ n # 0
  BY <1>1 DEF Mine
<1>3. n \notin rejected[c] /\ n \notin used[c]
  BY <1>1 DEF TypeOK
<1>4. n # token[c] /\ n # fetched[c].access /\ n # cache.access /\ n # cache.id
  BY <1>1 DEF TypeOK
<1>5. \A t \in Types : n # pending[t].result
  BY <1>1 DEF TypeOK
<1> QED
  BY <1>2, <1>3, <1>4, <1>5 DEF Refused

\* Outside of a flow, c owns no entry.
LEMMA NotOwner ==
    ASSUME AuthenticationInv, NEW c \in Connections, pc[c] \notin FlowPcs \cup GrantPcs, Kind(c) \in Types
    PROVE  pending[Kind(c)].owner # c
<1>1. Owned(Kind(c)) /\ c # "none"
  BY AuthenticationAssumption DEF AuthenticationInv
<1> QED
  BY <1>1 DEF Owned

\* What a step leaves alone, it leaves alone at c.
LEMMA Same ==
    ASSUME TypeOK, NEW c \in Connections
    PROVE  /\ pc = [pc EXCEPT ![c] = pc[c]] /\ token = [token EXCEPT ![c] = token[c]]
           /\ fetched = [fetched EXCEPT ![c] = fetched[c]]
           /\ numRetries = [numRetries EXCEPT ![c] = numRetries[c]]
           /\ rejected = [rejected EXCEPT ![c] = rejected[c]]
           /\ used = [used EXCEPT ![c] = used[c]]
BY DEF TypeOK

\* The types of what is left alone.
LEMMA OldTypes ==
    ASSUME TypeOK, Grows, NEW c \in Connections
    PROVE  /\ token[c] \in Tokens' /\ fetched[c] \in [access : Tokens', refresh : Tokens']
           /\ numRetries[c] \in 0 .. MaxLoginRetries + 1
           /\ rejected[c] \subseteq Tokens' /\ used[c] \subseteq Tokens'
           /\ again \subseteq Connections /\ servers \subseteq Connections
           /\ cache \in [access : Tokens', refresh : Tokens', id : Tokens']
           /\ 0 \in Tokens' /\ NoTokens \in [access : Tokens', refresh : Tokens']
<1>1. Tokens \subseteq Tokens' /\ 0 \in Tokens'
  <2>1. Tokens \subseteq Tokens' /\ Len(issued') \in Nat
    BY TokensGrow
  <2> QED
    BY <2>1 DEF Tokens
<1>2. /\ token[c] \in Tokens /\ fetched[c] \in [access : Tokens, refresh : Tokens]
      /\ numRetries[c] \in 0 .. MaxLoginRetries + 1
      /\ rejected[c] \subseteq Tokens /\ used[c] \subseteq Tokens
      /\ again \subseteq Connections /\ servers \subseteq Connections
      /\ cache \in [access : Tokens, refresh : Tokens, id : Tokens]
  BY DEF TypeOK
<1> QED
  BY <1>1, <1>2 DEF NoTokens

LEMMA ConnectStep ==
    ASSUME AuthenticationInv, NEW c \in Connections, connect(c)
    PROVE  AuthenticationInv'
<1>1. TypeOK /\ LoginInv(c) /\ c # "none"
  BY AuthenticationAssumption DEF AuthenticationInv
<1>2. Own(c)
  BY <1>1, Same DEF connect, Own, Go, TypeOK, loginVars
<1>3. Grows
  BY <1>1, IssueNone DEF connect
<1>5. OwnTypes(c)
  BY <1>1, <1>2, <1>3, OldTypes DEF connect, Go, OwnTypes, States, TypeOK, loginVars
<1>6. Gets(c)
  BY <1>1, <1>3 DEF connect, Gets, Mine, Go, TypeOK, loginVars
<1>7. LoginInv(c)'
  <2>1. Kind(c)' = Kind(c)
    BY DEF connect, Kind
  <2>2. KindInv(c)'
    BY <1>1, <2>1 DEF connect, Go, TypeOK, LoginInv, KindInv, FlowPcs, GrantPcs, RefusedPcs
  <2>3. Flows(c)'
    BY <1>1, <2>1 DEF connect, Go, TypeOK, LoginInv, Flows, FlowPcs
  <2>4. OneTime(c)'
    BY <1>1, <2>1 DEF connect, Go, TypeOK, LoginInv, OneTime, loginVars, KindInv, Types
  <2>5. Clean(c)'
    BY <1>1, <2>1 DEF connect, Go, TypeOK, LoginInv, Clean, Refused, loginVars
  <2>6. Unseen(c)'
    BY <1>1, <2>1 DEF connect, Go, TypeOK, Unseen
  <2> QED
    BY <2>2, <2>3, <2>4, <2>5, <2>6 DEF LoginInv
<1>8. Kind(c) \in Types /\ pending[Kind(c)].owner = c =>
         pc[c] # "settling" /\ pc'[c] \in (FlowPcs \cup GrantPcs) \ {"settling"}
  BY NotOwner DEF connect, FlowPcs, GrantPcs
<1> QED
  BY <1>2, <1>3, <1>5, <1>6, <1>7, <1>8, OwnStep

LEMMA ReadAccessStep ==
    ASSUME AuthenticationInv, NEW c \in Connections, readAccess(c)
    PROVE  AuthenticationInv'
<1>1. TypeOK /\ LoginInv(c) /\ c # "none"
  BY AuthenticationAssumption DEF AuthenticationInv
<1>2. Own(c)
  BY <1>1, Same DEF readAccess, Own, Go, TypeOK, loginVars
<1>3. Grows
  BY <1>1, IssueNone DEF readAccess
<1>5. OwnTypes(c)
  BY <1>1, <1>2, <1>3, OldTypes DEF readAccess, Go, OwnTypes, States, TypeOK, loginVars
<1>6. Gets(c)
  BY <1>1, <1>3 DEF readAccess, Gets, Mine, Go, TypeOK, loginVars
<1>7. LoginInv(c)'
  <2>1. Kind(c)' = Kind(c)
    BY DEF readAccess, Kind
  <2>2. KindInv(c)'
    BY <1>1, <2>1 DEF readAccess, Go, TypeOK, LoginInv, KindInv, FlowPcs, GrantPcs, RefusedPcs
  <2>3. Flows(c)'
    BY <1>1, <2>1 DEF readAccess, Go, TypeOK, LoginInv, Flows, FlowPcs
  <2>4. OneTime(c)'
    BY <1>1, <2>1 DEF readAccess, Go, TypeOK, LoginInv, OneTime, loginVars
  <2>5. Clean(c)'
    BY <1>1, <2>1 DEF readAccess, Go, TypeOK, LoginInv, Clean, Refused, loginVars
  <2>6. Unseen(c)'
    BY <1>1, <2>1 DEF readAccess, Go, TypeOK, Unseen
  <2> QED
    BY <2>2, <2>3, <2>4, <2>5, <2>6 DEF LoginInv
<1>8. Kind(c) \in Types /\ pending[Kind(c)].owner = c =>
         pc[c] # "settling" /\ pc'[c] \in (FlowPcs \cup GrantPcs) \ {"settling"}
  BY <1>1 DEF readAccess, Go, TypeOK, FlowPcs, GrantPcs
<1> QED
  BY <1>2, <1>3, <1>5, <1>6, <1>7, <1>8, OwnStep

LEMMA CodeArrivesStep ==
    ASSUME AuthenticationInv, NEW c \in Connections, codeArrives(c)
    PROVE  AuthenticationInv'
<1>1. TypeOK /\ LoginInv(c) /\ c # "none"
  BY AuthenticationAssumption DEF AuthenticationInv
<1>2. Own(c)
  BY <1>1, Same DEF codeArrives, Own, Go, TypeOK, loginVars
<1>3. Grows
  BY <1>1, IssueNone DEF codeArrives
<1>5. OwnTypes(c)
  BY <1>1, <1>2, <1>3, OldTypes DEF codeArrives, Go, OwnTypes, States, TypeOK, loginVars
<1>6. Gets(c)
  BY <1>1, <1>3 DEF codeArrives, Gets, Mine, Go, TypeOK, loginVars
<1>7. LoginInv(c)'
  <2>1. Kind(c)' = Kind(c)
    BY DEF codeArrives, Kind
  <2>2. KindInv(c)'
    BY <1>1, <2>1 DEF codeArrives, Go, TypeOK, LoginInv, KindInv, FlowPcs, GrantPcs, RefusedPcs
  <2>3. Flows(c)'
    BY <1>1, <2>1 DEF codeArrives, Go, TypeOK, LoginInv, Flows, FlowPcs
  <2>4. OneTime(c)'
    BY <1>1, <2>1 DEF codeArrives, Go, TypeOK, LoginInv, OneTime, loginVars
  <2>5. Clean(c)'
    BY <1>1, <2>1 DEF codeArrives, Go, TypeOK, LoginInv, Clean, Refused, loginVars
  <2>6. Unseen(c)'
    BY <1>1, <2>1 DEF codeArrives, Go, TypeOK, Unseen
  <2> QED
    BY <2>2, <2>3, <2>4, <2>5, <2>6 DEF LoginInv
<1>8. Kind(c) \in Types /\ pending[Kind(c)].owner = c =>
         pc[c] # "settling" /\ pc'[c] \in (FlowPcs \cup GrantPcs) \ {"settling"}
  BY <1>1 DEF codeArrives, Go, TypeOK, FlowPcs, GrantPcs
<1> QED
  BY <1>2, <1>3, <1>5, <1>6, <1>7, <1>8, OwnStep

LEMMA SleepEndsStep ==
    ASSUME AuthenticationInv, NEW c \in Connections, sleepEnds(c)
    PROVE  AuthenticationInv'
<1>1. TypeOK /\ LoginInv(c) /\ c # "none"
  BY AuthenticationAssumption DEF AuthenticationInv
<1>2. Own(c)
  BY <1>1, Same DEF sleepEnds, Own, Go, TypeOK, loginVars
<1>3. Grows
  BY <1>1, IssueNone DEF sleepEnds
<1>5. OwnTypes(c)
  BY <1>1, <1>2, <1>3, OldTypes DEF sleepEnds, Go, OwnTypes, States, TypeOK, loginVars
<1>6. Gets(c)
  BY <1>1, <1>3 DEF sleepEnds, Gets, Mine, Go, TypeOK, loginVars
<1>7. LoginInv(c)'
  <2>1. Kind(c)' = Kind(c)
    BY DEF sleepEnds, Kind
  <2>2. KindInv(c)'
    BY <1>1, <2>1 DEF sleepEnds, Go, TypeOK, LoginInv, KindInv, FlowPcs, GrantPcs, RefusedPcs
  <2>3. Flows(c)'
    BY <1>1, <2>1 DEF sleepEnds, Go, TypeOK, LoginInv, Flows, FlowPcs
  <2>4. OneTime(c)'
    BY <1>1, <2>1 DEF sleepEnds, Go, TypeOK, LoginInv, OneTime, loginVars
  <2>5. Clean(c)'
    BY <1>1, <2>1 DEF sleepEnds, Go, TypeOK, LoginInv, Clean, Refused, loginVars
  <2>6. Unseen(c)'
    BY <1>1, <2>1 DEF sleepEnds, Go, TypeOK, Unseen
  <2> QED
    BY <2>2, <2>3, <2>4, <2>5, <2>6 DEF LoginInv
<1>8. Kind(c) \in Types /\ pending[Kind(c)].owner = c =>
         pc[c] # "settling" /\ pc'[c] \in (FlowPcs \cup GrantPcs) \ {"settling"}
  BY NotOwner DEF sleepEnds, FlowPcs, GrantPcs
<1> QED
  BY <1>2, <1>3, <1>5, <1>6, <1>7, <1>8, OwnStep

LEMMA ClearStep ==
    ASSUME AuthenticationInv, NEW c \in Connections, clearAccessTokenCache(c)
    PROVE  AuthenticationInv'
<1>1. TypeOK /\ LoginInv(c) /\ c # "none"
  BY AuthenticationAssumption DEF AuthenticationInv
<1>2. Own(c)
  BY <1>1, Same DEF clearAccessTokenCache, Own, Go, TypeOK, loginVars
<1>3. Grows
  BY <1>1, IssueNone DEF clearAccessTokenCache
<1>5. OwnTypes(c)
  BY <1>1, <1>2, <1>3, OldTypes DEF clearAccessTokenCache, Go, OwnTypes, States, TypeOK,
     loginVars
<1>6. Gets(c)
  BY <1>1, <1>3 DEF clearAccessTokenCache, Gets, Mine, Go, TypeOK, loginVars
<1>7. LoginInv(c)'
  <2>1. Kind(c)' = Kind(c)
    BY DEF clearAccessTokenCache, Kind
  <2>2. KindInv(c)'
    BY <1>1, <2>1 DEF clearAccessTokenCache, Go, TypeOK, LoginInv, KindInv, FlowPcs, GrantPcs,
       RefusedPcs
  <2>3. Flows(c)'
    BY <1>1, <2>1 DEF clearAccessTokenCache, Go, TypeOK, LoginInv, Flows, FlowPcs
  <2>4. OneTime(c)'
    BY <1>1, <2>1 DEF clearAccessTokenCache, Go, TypeOK, LoginInv, OneTime, loginVars
  <2>5. Clean(c)'
    BY <1>1, <2>1 DEF clearAccessTokenCache, Go, TypeOK, LoginInv, Clean, Refused, loginVars
  <2>6. Unseen(c)'
    BY <1>1, <2>1 DEF clearAccessTokenCache, Go, TypeOK, Unseen
  <2> QED
    BY <2>2, <2>3, <2>4, <2>5, <2>6 DEF LoginInv
<1>8. Kind(c) \in Types /\ pending[Kind(c)].owner = c =>
         pc[c] # "settling" /\ pc'[c] \in (FlowPcs \cup GrantPcs) \ {"settling"}
  BY NotOwner DEF clearAccessTokenCache, FlowPcs, GrantPcs
<1> QED
  BY <1>2, <1>3, <1>5, <1>6, <1>7, <1>8, OwnStep

LEMMA ReauthenticateStep ==
    ASSUME AuthenticationInv, NEW c \in Connections, reauthenticate(c)
    PROVE  AuthenticationInv'
<1>1. TypeOK /\ LoginInv(c) /\ c # "none"
  BY AuthenticationAssumption DEF AuthenticationInv
<1>2. Own(c)
  BY <1>1, Same DEF reauthenticate, Own, Go, TypeOK, loginVars
<1>3. Grows
  BY <1>1, IssueNone DEF reauthenticate
<1>5. OwnTypes(c)
  BY <1>1, <1>2, <1>3, OldTypes DEF reauthenticate, Go, OwnTypes, States, TypeOK, loginVars
<1>6. Gets(c)
  BY <1>1, <1>3 DEF reauthenticate, Gets, Mine, Go, TypeOK, loginVars
<1>7. LoginInv(c)'
  <2>1. Kind(c)' = Kind(c)
    BY DEF reauthenticate, Kind
  <2>2. KindInv(c)'
    BY <1>1, <2>1 DEF reauthenticate, Go, TypeOK, LoginInv, KindInv, FlowPcs, GrantPcs,
       RefusedPcs
  <2>3. Flows(c)'
    BY <1>1, <2>1 DEF reauthenticate, Go, TypeOK, LoginInv, Flows, FlowPcs
  <2>4. OneTime(c)'
    BY <1>1, <2>1 DEF reauthenticate, Go, TypeOK, LoginInv, OneTime, loginVars
  <2>5. Clean(c)'
    BY <1>1, <2>1 DEF reauthenticate, Go, TypeOK, LoginInv, Clean, Refused, loginVars
  <2>6. Unseen(c)'
    BY <1>1, <2>1 DEF reauthenticate, Go, TypeOK, Unseen
  <2> QED
    BY <2>2, <2>3, <2>4, <2>5, <2>6 DEF LoginInv
<1>8. Kind(c) \in Types /\ pending[Kind(c)].owner = c =>
         pc[c] # "settling" /\ pc'[c] \in (FlowPcs \cup GrantPcs) \ {"settling"}
  BY NotOwner DEF reauthenticate, FlowPcs, GrantPcs
<1> QED
  BY <1>2, <1>3, <1>5, <1>6, <1>7, <1>8, OwnStep

LEMMA RemoveIdStep ==
    ASSUME AuthenticationInv, NEW c \in Connections, removeId(c)
    PROVE  AuthenticationInv'
<1>1. TypeOK /\ LoginInv(c) /\ c # "none"
  BY AuthenticationAssumption DEF AuthenticationInv
<1>2. Own(c)
  BY <1>1, Same DEF removeId, Own, Go, TypeOK, loginVars
<1>3. Grows
  BY <1>1, IssueNone DEF removeId
<1>5. OwnTypes(c)
  BY <1>1, <1>2, <1>3, OldTypes DEF removeId, Go, OwnTypes, States, TypeOK, loginVars
<1>6. Gets(c)
  BY <1>1, <1>3 DEF removeId, Gets, Mine, Go, TypeOK, loginVars
<1>7. LoginInv(c)'
  <2>1. Kind(c)' = Kind(c)
    BY DEF removeId, Kind
  <2>2. KindInv(c)'
    BY <1>1, <2>1 DEF removeId, Go, TypeOK, LoginInv, KindInv, FlowPcs, GrantPcs, RefusedPcs
  <2>3. Flows(c)'
    BY <1>1, <2>1 DEF removeId, Go, TypeOK, LoginInv, Flows, FlowPcs
  <2>4. OneTime(c)'
    BY <1>1, <2>1 DEF removeId, Go, TypeOK, LoginInv, OneTime, loginVars
  <2>5. Clean(c)'
    BY <1>1, <2>1 DEF removeId, Go, TypeOK, LoginInv, Clean, Refused, loginVars
  <2>6. Unseen(c)'
    BY <1>1, <2>1 DEF removeId, Go, TypeOK, Unseen
  <2> QED
    BY <2>2, <2>3, <2>4, <2>5, <2>6 DEF LoginInv
<1>8. Kind(c) \in Types /\ pending[Kind(c)].owner = c =>
         pc[c] # "settling" /\ pc'[c] \in (FlowPcs \cup GrantPcs) \ {"settling"}
  BY NotOwner DEF removeId, FlowPcs, GrantPcs
<1> QED
  BY <1>2, <1>3, <1>5, <1>6, <1>7, <1>8, OwnStep

LEMMA WriteIdStep ==
    ASSUME AuthenticationInv, NEW c \in Connections, writeId(c)
    PROVE  AuthenticationInv'
<1>1. TypeOK /\ LoginInv(c) /\ c # "none"
  BY AuthenticationAssumption DEF AuthenticationInv
<1>2. Own(c)
  BY <1>1, Same DEF writeId, Own, Go, TypeOK, loginVars
<1>3. Grows
  BY <1>1, IssueNone DEF writeId
<1>5. OwnTypes(c)
  BY <1>1, <1>2, <1>3, OldTypes DEF writeId, Go, OwnTypes, States, TypeOK, loginVars
<1>6. Gets(c)
  BY <1>1, <1>3 DEF writeId, Gets, Mine, NoTokens, Go, TypeOK, loginVars
<1>7. LoginInv(c)'
  <2>1. Kind(c)' = Kind(c)
    BY DEF writeId, Kind
  <2>2. KindInv(c)'
    BY <1>1, <2>1 DEF writeId, Go, TypeOK, LoginInv, KindInv, FlowPcs, GrantPcs, RefusedPcs
  <2>3. Flows(c)'
    BY <1>1, <2>1 DEF writeId, Go, TypeOK, LoginInv, Flows, FlowPcs
  <2>4. OneTime(c)'
    BY <1>1, <2>1 DEF writeId, Go, TypeOK, LoginInv, OneTime, loginVars
  <2>5. Clean(c)'
    BY <1>1, <2>1 DEF writeId, Go, TypeOK, LoginInv, Clean, Refused, loginVars
  <2>6. Unseen(c)'
    BY <1>1, <2>1 DEF writeId, Go, TypeOK, Unseen
  <2> QED
    BY <2>2, <2>3, <2>4, <2>5, <2>6 DEF LoginInv
<1>8. Kind(c) \in Types /\ pending[Kind(c)].owner = c =>
         pc[c] # "settling" /\ pc'[c] \in (FlowPcs \cup GrantPcs) \ {"settling"}
  BY NotOwner DEF writeId, FlowPcs, GrantPcs
<1> QED
  BY <1>2, <1>3, <1>5, <1>6, <1>7, <1>8, OwnStep

LEMMA EvictStep ==
    ASSUME AuthenticationInv, NEW c \in Connections, evict(c)
    PROVE  AuthenticationInv'
<1>1. TypeOK /\ LoginInv(c) /\ c # "none"
  BY AuthenticationAssumption DEF AuthenticationInv
<1>2. Own(c)
  BY <1>1, Same DEF evict, Own, Go, TypeOK, loginVars
<1>3. Grows
  BY <1>1, IssueNone DEF evict
<1>5. OwnTypes(c)
  BY <1>1, <1>2, <1>3, OldTypes DEF evict, Go, OwnTypes, States, TypeOK, loginVars
<1>6. Gets(c)
  BY <1>1, <1>3 DEF evict, Gets, Mine, NoTokens, Go, TypeOK, loginVars
<1>7. LoginInv(c)'
  <2>1. Kind(c)' = Kind(c)
    BY DEF evict, Kind
  <2>2. KindInv(c)'
    BY <1>1, <2>1 DEF evict, Go, TypeOK, LoginInv, KindInv, FlowPcs, GrantPcs, RefusedPcs
  <2>3. Flows(c)'
    BY <1>1, <2>1 DEF evict, Go, TypeOK, LoginInv, Flows, FlowPcs, InFlow
  <2>4. OneTime(c)'
    BY <1>1, <2>1 DEF evict, Go, TypeOK, LoginInv, OneTime, loginVars
  <2>5. Clean(c)'
    BY <1>1, <2>1 DEF evict, Go, TypeOK, LoginInv, Clean, Refused, loginVars
  <2>6. Unseen(c)'
    BY <1>1, <2>1 DEF evict, Go, TypeOK, Unseen
  <2> QED
    BY <2>2, <2>3, <2>4, <2>5, <2>6 DEF LoginInv
<1>8. Kind(c) \in Types /\ pending[Kind(c)].owner = c =>
         pc[c] # "settling" /\ pc'[c] \in (FlowPcs \cup GrantPcs) \ {"settling"}
  BY <1>1 DEF evict, Go, TypeOK, FlowPcs, GrantPcs, InFlow
<1> QED
  BY <1>2, <1>3, <1>5, <1>6, <1>7, <1>8, OwnStep

\* The token of the body stays, or is a new one.
NewBody(c) ==
    /\ token' = [token EXCEPT ![c] = token'[c]] /\ token'[c] \in Tokens'
    /\ token'[c] \in Mine(c)
    /\ token'[c] \notin used[c] /\ token'[c] # token[c]
SameBody == token' = token

LEMMA ObtainFacts ==
    ASSUME TypeOK, NEW c \in Connections, NEW x \in {"access", "refresh", "id", "saml", "jwt"},
           Obtain(c, x)
    PROVE  Grows /\ NewBody(c)
<1>1. Issue(<<x>>, {}) /\ token' = [token EXCEPT ![c] = Newest] /\ token'[c] = Newest
  BY DEF Obtain, TypeOK
<1>2. Grows /\ Newest \in Tokens' /\ Newest = Len(issued) + 1 /\ Len(issued) \in Nat
  BY <1>1, IssueOne
<1>3. Newest \in Nat /\ Newest > Len(issued)
  BY <1>2
<1> HIDE DEF Newest
<1>4. Newest \in Mine(c) /\ Newest \notin used[c] /\ Newest # token[c]
  BY <1>3, NewTokens
<1> QED
  BY <1>1, <1>2, <1>4 DEF NewBody

LEMMA OktaStep ==
    ASSUME AuthenticationInv, NEW c \in Connections, oktaAuthenticate(c)
    PROVE  AuthenticationInv'
<1>1. TypeOK /\ LoginInv(c) /\ c # "none" /\ MaxLoginRetries \in Nat
  BY AuthenticationAssumption DEF AuthenticationInv
<1>3. /\ Grows
      /\ (NewBody(c) /\ pc'[c] # "failed") \/ (SameBody /\ pc'[c] = "failed")
  <2>1. CASE getSAMLResponse(c) /\ Go(c, "sent")
    BY <1>1, <2>1, ObtainFacts DEF getSAMLResponse, Go, TypeOK
  <2>2. CASE Go(c, "failed") /\ UNCHANGED <<token, tokenVars>>
    BY <1>1, <2>2, IssueNone DEF Go, SameBody, TypeOK
  <2> QED
    BY <2>1, <2>2 DEF oktaAuthenticate
<1>4. Own(c)
  BY <1>1, <1>3, Same DEF oktaAuthenticate, Own, Go, TypeOK, loginVars, NewBody, SameBody
<1>5. OwnTypes(c)
  BY <1>1, <1>3, OldTypes DEF oktaAuthenticate, Go, OwnTypes, States, TypeOK, loginVars,
     NewBody, SameBody
<1>6. Gets(c)
  BY <1>1, <1>3 DEF oktaAuthenticate, Gets, Mine, Go, TypeOK, loginVars, NewBody, SameBody
<1>7. LoginInv(c)'
  <2>1. Kind(c)' = Kind(c)
    BY DEF oktaAuthenticate, Kind
  <2>2. KindInv(c)'
    BY <1>1, <1>3, <2>1 DEF oktaAuthenticate, Go, TypeOK, LoginInv, KindInv, FlowPcs,
       GrantPcs, RefusedPcs, NewBody, SameBody
  <2>3. Flows(c)'
    BY <1>1, <1>3, <2>1 DEF oktaAuthenticate, Go, TypeOK, LoginInv, Flows, FlowPcs, NewBody,
       SameBody
  <2>4. OneTime(c)'
    BY <1>1, <1>3, <2>1 DEF oktaAuthenticate, Go, TypeOK, LoginInv, OneTime, loginVars,
       NewBody, SameBody
  <2>5. Clean(c)'
    BY <1>1, <1>3, <2>1 DEF oktaAuthenticate, Go, TypeOK, LoginInv, Clean, Refused, loginVars,
       NewBody, SameBody
  <2>6. Unseen(c)'
    BY <1>1, <1>3, <2>1 DEF oktaAuthenticate, Go, TypeOK, Unseen, NewBody, SameBody
  <2> QED
    BY <2>2, <2>3, <2>4, <2>5, <2>6 DEF LoginInv
<1>8. Kind(c) \in Types /\ pending[Kind(c)].owner = c =>
         pc[c] # "settling" /\ pc'[c] \in (FlowPcs \cup GrantPcs) \ {"settling"}
  BY NotOwner DEF oktaAuthenticate, FlowPcs, GrantPcs
<1> QED
  BY <1>3, <1>4, <1>5, <1>6, <1>7, <1>8, OwnStep

LEMMA RequestTokenStep ==
    ASSUME AuthenticationInv, NEW c \in Connections, requestToken(c)
    PROVE  AuthenticationInv'
<1>1. TypeOK /\ LoginInv(c) /\ c # "none" /\ MaxLoginRetries \in Nat
  BY AuthenticationAssumption DEF AuthenticationInv
<1>3. /\ Grows
      /\ (NewBody(c) /\ pc'[c] # "failed") \/ (SameBody /\ pc'[c] = "failed")
  <2>1. CASE Obtain(c, "access") /\ Go(c, "sent")
    BY <1>1, <2>1, ObtainFacts DEF Go, TypeOK
  <2>2. CASE Go(c, "failed") /\ UNCHANGED <<token, tokenVars>>
    BY <1>1, <2>2, IssueNone DEF Go, SameBody, TypeOK
  <2> QED
    BY <2>1, <2>2 DEF requestToken
<1>4. Own(c)
  BY <1>1, <1>3, Same DEF requestToken, Own, Go, TypeOK, loginVars, NewBody, SameBody
<1>5. OwnTypes(c)
  BY <1>1, <1>3, OldTypes DEF requestToken, Go, OwnTypes, States, TypeOK, loginVars, NewBody,
     SameBody
<1>6. Gets(c)
  BY <1>1, <1>3 DEF requestToken, Gets, Mine, Go, TypeOK, loginVars, NewBody, SameBody
<1>7. LoginInv(c)'
  <2>1. Kind(c)' = Kind(c)
    BY DEF requestToken, Kind
  <2>2. KindInv(c)'
    BY <1>1, <1>3, <2>1 DEF requestToken, Go, TypeOK, LoginInv, KindInv, FlowPcs, GrantPcs,
       RefusedPcs, NewBody, SameBody
  <2>3. Flows(c)'
    BY <1>1, <1>3, <2>1 DEF requestToken, Go, TypeOK, LoginInv, Flows, FlowPcs, NewBody,
       SameBody
  <2>4. OneTime(c)'
    BY <1>1, <1>3, <2>1 DEF requestToken, Go, TypeOK, LoginInv, OneTime, loginVars, NewBody,
       SameBody
  <2>5. Clean(c)'
    BY <1>1, <1>3, <2>1 DEF requestToken, Go, TypeOK, LoginInv, Clean, Refused, loginVars,
       NewBody, SameBody
  <2>6. Unseen(c)'
    BY <1>1, <1>3, <2>1 DEF requestToken, Go, TypeOK, Unseen, NewBody, SameBody
  <2> QED
    BY <2>2, <2>3, <2>4, <2>5, <2>6 DEF LoginInv
<1>8. Kind(c) \in Types /\ pending[Kind(c)].owner = c =>
         pc[c] # "settling" /\ pc'[c] \in (FlowPcs \cup GrantPcs) \ {"settling"}
  BY NotOwner DEF requestToken, FlowPcs, GrantPcs
<1> QED
  BY <1>3, <1>4, <1>5, <1>6, <1>7, <1>8, OwnStep

LEMMA OktaAgainStep ==
    ASSUME AuthenticationInv, NEW c \in Connections, oktaReauthenticate(c)
    PROVE  AuthenticationInv'
<1>1. TypeOK /\ LoginInv(c) /\ c # "none" /\ MaxLoginRetries \in Nat
  BY AuthenticationAssumption DEF AuthenticationInv
<1>3. /\ Grows
      /\ \/ NewBody(c) /\ pc'[c] = "sleep" /\ numRetries' = numRetries
         \/ SameBody /\ pc'[c] \in {"oktaAgain", "lost"}
      /\ numRetries' = [numRetries EXCEPT ![c] = numRetries'[c]]
      /\ numRetries'[c] \in 0 .. MaxLoginRetries + 1
      /\ pc'[c] = "oktaAgain" => numRetries'[c] <= MaxLoginRetries
  <2>a. numRetries[c] \in Nat /\ numRetries[c] <= MaxLoginRetries
    BY <1>1 DEF oktaReauthenticate, LoginInv, KindInv, TypeOK
  <2>1. CASE getSAMLResponse(c) /\ Go(c, "sleep") /\ UNCHANGED numRetries
    BY <1>1, <2>a, <2>1, ObtainFacts, Same DEF getSAMLResponse, Go, TypeOK
  <2>2. CASE /\ numRetries' = [numRetries EXCEPT ![c] = @ + 1]
             /\ Go(c, IF shouldRetryOktaAuth(numRetries[c] + 1) THEN "oktaAgain" ELSE "lost")
             /\ UNCHANGED <<token, tokenVars>>
    <3>1. Grows /\ SameBody
      BY <1>1, <2>2, IssueNone DEF SameBody
    <3>2. numRetries'[c] = numRetries[c] + 1 /\ numRetries' = [numRetries EXCEPT ![c] = numRetries'[c]]
      BY <1>1, <2>2 DEF TypeOK
    <3> QED
      BY <1>1, <2>a, <2>2, <3>1, <3>2 DEF Go, shouldRetryOktaAuth, TypeOK
  <2>3. CASE Go(c, "lost") /\ UNCHANGED <<numRetries, token, tokenVars>>
    BY <1>1, <2>a, <2>3, IssueNone, Same DEF Go, SameBody, TypeOK
  <2> QED
    BY <2>1, <2>2, <2>3 DEF oktaReauthenticate
<1>4. Own(c)
  BY <1>1, <1>3, Same DEF oktaReauthenticate, Own, Go, TypeOK, loginVars, NewBody, SameBody
<1>5. OwnTypes(c)
  BY <1>1, <1>3, OldTypes DEF oktaReauthenticate, Go, OwnTypes, States, TypeOK, loginVars,
     NewBody, SameBody
<1>6. Gets(c)
  BY <1>1, <1>3 DEF oktaReauthenticate, Gets, Mine, Go, TypeOK, loginVars, NewBody, SameBody
<1>7. LoginInv(c)'
  <2>1. Kind(c)' = Kind(c)
    BY DEF oktaReauthenticate, Kind
  <2>2. KindInv(c)'
    BY <1>1, <1>3, <2>1 DEF oktaReauthenticate, Go, TypeOK, LoginInv, KindInv, FlowPcs,
       GrantPcs, RefusedPcs, NewBody, SameBody
  <2>3. Flows(c)'
    BY <1>1, <1>3, <2>1 DEF oktaReauthenticate, Go, TypeOK, LoginInv, Flows, FlowPcs, NewBody,
       SameBody
  <2>4. OneTime(c)'
    BY <1>1, <1>3, <2>1 DEF oktaReauthenticate, Go, TypeOK, LoginInv, OneTime, loginVars,
       NewBody, SameBody
  <2>5. Clean(c)'
    BY <1>1, <1>3, <2>1 DEF oktaReauthenticate, Go, TypeOK, LoginInv, Clean, Refused,
       loginVars, NewBody, SameBody
  <2>6. Unseen(c)'
    BY <1>1, <1>3, <2>1 DEF oktaReauthenticate, Go, TypeOK, Unseen, NewBody, SameBody
  <2> QED
    BY <2>2, <2>3, <2>4, <2>5, <2>6 DEF LoginInv
<1>8. Kind(c) \in Types /\ pending[Kind(c)].owner = c =>
         pc[c] # "settling" /\ pc'[c] \in (FlowPcs \cup GrantPcs) \ {"settling"}
  BY NotOwner DEF oktaReauthenticate, FlowPcs, GrantPcs
<1> QED
  BY <1>3, <1>4, <1>5, <1>6, <1>7, <1>8, OwnStep

LEMMA AcceptedStep ==
    ASSUME AuthenticationInv, NEW c \in Connections, loginAccepted(c)
    PROVE  AuthenticationInv'
<1>1. TypeOK /\ LoginInv(c) /\ c # "none" /\ MaxLoginRetries \in Nat
  BY AuthenticationAssumption DEF AuthenticationInv
<1>3. /\ Grows
      /\ fetched' = [fetched EXCEPT ![c] = fetched'[c]]
      /\ fetched'[c] \in [access : Tokens', refresh : Tokens'] /\ fetched'[c].access \in Mine(c)
      /\ used' = [used EXCEPT ![c] = used'[c]] /\ used'[c] \subseteq Tokens'
      /\ pc'[c] \in {"writeId", "connected"}
  <2>1. Grows => used' = [used EXCEPT ![c] = used'[c]] /\ used'[c] \subseteq Tokens'
    <3>1. Grows => used[c] \subseteq Tokens' /\ token[c] \in Tokens'
      BY <1>1, OldTypes
    <3> QED
      BY <1>1, <3>1, Same DEF loginAccepted, Use, TypeOK
  <2>2. CASE /\ Issue(<<"id">>, {}) /\ fetched' = [fetched EXCEPT ![c].access = Newest]
             /\ Go(c, "writeId")
    <3>1. Grows /\ Newest \in Tokens' /\ Newest = Len(issued) + 1 /\ Len(issued) \in Nat
      BY <1>1, <2>2, IssueOne
    <3>2. Newest \in Mine(c)
      <4>1. Newest \in Nat /\ Newest > Len(issued)
        BY <3>1
      <4> HIDE DEF Newest
      <4> QED
        BY <1>1, <4>1, NewTokens
    <3>3. fetched[c] \in [access : Tokens', refresh : Tokens']
      BY <1>1, <3>1, OldTypes
    <3> HIDE DEF Newest
    <3>4. fetched'[c] = [fetched[c] EXCEPT !.access = Newest]
      BY <1>1, <2>2 DEF TypeOK
    <3>5. fetched'[c] \in [access : Tokens', refresh : Tokens'] /\ fetched'[c].access = Newest
      BY <3>1, <3>3, <3>4
    <3>6. fetched' = [fetched EXCEPT ![c] = fetched'[c]]
      BY <1>1, <2>2 DEF TypeOK
    <3> QED
      BY <1>1, <2>1, <2>2, <3>1, <3>2, <3>5, <3>6 DEF Go, TypeOK
  <2>3. CASE Go(c, "connected") /\ UNCHANGED <<fetched, tokenVars>>
    BY <1>1, <2>1, <2>3, IssueNone, OldTypes, Same DEF Go, TypeOK, Mine
  <2> QED
    BY <2>2, <2>3 DEF loginAccepted
<1>4. Own(c)
  BY <1>1, <1>3, Same DEF loginAccepted, Own, Go, TypeOK, loginVars
<1>5. OwnTypes(c)
  BY <1>1, <1>3, OldTypes DEF loginAccepted, Go, OwnTypes, States, TypeOK, loginVars
<1>6. Gets(c)
  BY <1>1, <1>3 DEF loginAccepted, Gets, Mine, Go, TypeOK, loginVars
<1>7. LoginInv(c)'
  <2>1. Kind(c)' = Kind(c)
    BY DEF loginAccepted, Kind
  <2>2. KindInv(c)'
    BY <1>1, <1>3, <2>1 DEF loginAccepted, Go, TypeOK, LoginInv, KindInv, FlowPcs, GrantPcs,
       RefusedPcs
  <2>3. Flows(c)'
    BY <1>1, <1>3, <2>1 DEF loginAccepted, Go, TypeOK, LoginInv, Flows, FlowPcs
  <2>4. OneTime(c)'
    BY <1>1, <1>3, <2>1 DEF loginAccepted, Go, TypeOK, LoginInv, OneTime, loginVars
  <2>5. Clean(c)'
    BY <1>1, <1>3, <2>1 DEF loginAccepted, Go, TypeOK, LoginInv, Clean, Refused, loginVars
  <2>6. Unseen(c)'
    BY <1>1, <1>3, <2>1 DEF loginAccepted, Go, TypeOK, Unseen
  <2> QED
    BY <2>2, <2>3, <2>4, <2>5, <2>6 DEF LoginInv
<1>8. Kind(c) \in Types /\ pending[Kind(c)].owner = c =>
         pc[c] # "settling" /\ pc'[c] \in (FlowPcs \cup GrantPcs) \ {"settling"}
  BY NotOwner DEF loginAccepted, FlowPcs, GrantPcs
<1> QED
  BY <1>3, <1>4, <1>5, <1>6, <1>7, <1>8, OwnStep

LEMMA RejectedStep ==
    ASSUME AuthenticationInv, NEW c \in Connections, loginRejected(c)
    PROVE  AuthenticationInv'
<1>1. TypeOK /\ LoginInv(c) /\ c # "none" /\ MaxLoginRetries \in Nat
  BY AuthenticationAssumption DEF AuthenticationInv
<1>3. /\ Grows
      /\ used' = [used EXCEPT ![c] = used'[c]] /\ used'[c] \subseteq Tokens'
      /\ rejected' = [rejected EXCEPT ![c] = rejected'[c]]
      /\ rejected'[c] \subseteq rejected[c] \cup {token[c]} /\ rejected'[c] \subseteq Tokens'
      /\ \/ pc'[c] = "clear" /\ Kind(c) = "code"
         \/ /\ pc'[c] = "clearFailed" /\ Kind(c) = "code" /\ rejected' = rejected
         \/ pc'[c] \in {"removeId", "failed"} /\ rejected' = rejected
  <2>1. Grows
    <3>1. issued' = issued /\ good' \subseteq good
      BY DEF loginRejected
    <3> QED
      BY <1>1, <3>1 DEF Grows, TypeOK
  <2>2. rejected[c] \subseteq Tokens' /\ used[c] \subseteq Tokens' /\ token[c] \in Tokens'
    BY <1>1, <2>1, OldTypes
  <2>3. used' = [used EXCEPT ![c] = used'[c]] /\ used'[c] \subseteq Tokens'
    BY <1>1, <2>2, Same DEF loginRejected, Use, TypeOK
  <2>4. /\ rejected' = [rejected EXCEPT ![c] = rejected'[c]]
        /\ rejected'[c] \subseteq rejected[c] \cup {token[c]} /\ rejected'[c] \subseteq Tokens'
    BY <1>1, <2>2, Same DEF loginRejected, TypeOK
  <2> QED
    BY <1>1, <2>1, <2>3, <2>4 DEF loginRejected, Go, TypeOK
<1>4. Own(c)
  BY <1>1, <1>3, Same DEF loginRejected, Own, Go, TypeOK, loginVars, Types
<1>5. OwnTypes(c)
  BY <1>1, <1>3, OldTypes DEF loginRejected, Go, OwnTypes, States, TypeOK, loginVars, Types
<1>6. Gets(c)
  BY <1>1, <1>3 DEF loginRejected, Gets, Mine, Go, TypeOK, loginVars, Types
<1>7. LoginInv(c)'
  <2>1. Kind(c)' = Kind(c)
    BY DEF loginRejected, Kind
  <2>2. KindInv(c)'
    BY <1>1, <1>3, <2>1 DEF loginRejected, Go, TypeOK, LoginInv, KindInv, FlowPcs, GrantPcs,
       RefusedPcs, Types
  <2>3. Flows(c)'
    BY <1>1, <1>3, <2>1 DEF loginRejected, Go, TypeOK, LoginInv, Flows, FlowPcs, Types
  <2>4. OneTime(c)'
    BY <1>1, <1>3, <2>1 DEF loginRejected, Go, TypeOK, LoginInv, OneTime, loginVars, Types
  <2>5. Clean(c)'
    BY <1>1, <1>3, <2>1 DEF loginRejected, Go, TypeOK, LoginInv, Clean, Refused, loginVars,
       Types
  <2>6. Unseen(c)'
    BY <1>1, <1>3, <2>1 DEF loginRejected, Go, TypeOK, Unseen, Types
  <2> QED
    BY <2>2, <2>3, <2>4, <2>5, <2>6 DEF LoginInv
<1>8. Kind(c) \in Types /\ pending[Kind(c)].owner = c =>
         pc[c] # "settling" /\ pc'[c] \in (FlowPcs \cup GrantPcs) \ {"settling"}
  BY NotOwner DEF loginRejected, FlowPcs, GrantPcs
<1> QED
  BY <1>3, <1>4, <1>5, <1>6, <1>7, <1>8, OwnStep

LEMMA LoginFailsStep ==
    ASSUME AuthenticationInv, NEW c \in Connections, loginFails(c)
    PROVE  AuthenticationInv'
<1>1. TypeOK /\ LoginInv(c) /\ c # "none" /\ MaxLoginRetries \in Nat
  BY AuthenticationAssumption DEF AuthenticationInv
<1>3. /\ Grows
      /\ used' = [used EXCEPT ![c] = used'[c]] /\ used'[c] \subseteq Tokens'
      /\ used'[c] \subseteq used[c] \cup {token[c]}
      /\ numRetries' = [numRetries EXCEPT ![c] = numRetries'[c]]
      /\ numRetries'[c] \in 0 .. MaxLoginRetries + 1
      /\ \/ NewBody(c) /\ pc'[c] = "sleep"
         \/ SameBody /\ pc'[c] \in {"oktaAgain", "failed"}
         \/ SameBody /\ pc'[c] = "sleep" /\ Kind(c) \notin {"okta", "keypair"}
      /\ pc' = [pc EXCEPT ![c] = pc'[c]]
      /\ pc'[c] = "oktaAgain" => numRetries'[c] <= MaxLoginRetries
  <2>1. Grows => used' = [used EXCEPT ![c] = used'[c]] /\ used'[c] \subseteq Tokens'
                   /\ used'[c] \subseteq used[c] \cup {token[c]}
    <3>1. Grows => used[c] \subseteq Tokens' /\ token[c] \in Tokens'
      BY <1>1, OldTypes
    <3> QED
      BY <1>1, <3>1, Same DEF loginFails, Use, TypeOK
  <2>2. CASE RetryLogin(c)
    <3>1. /\ numRetries[c] \in Nat /\ numRetries[c] < MaxLoginRetries
          /\ numRetries'[c] = numRetries[c] + 1
          /\ numRetries' = [numRetries EXCEPT ![c] = numRetries'[c]]
      BY <1>1, <2>2 DEF RetryLogin, TypeOK
    <3>2. /\ Grows
          /\ \/ NewBody(c) /\ pc'[c] = "sleep"
             \/ SameBody /\ pc'[c] \in {"oktaAgain", "failed"}
             \/ SameBody /\ pc'[c] = "sleep" /\ Kind(c) \notin {"okta", "keypair"}
          /\ pc' = [pc EXCEPT ![c] = pc'[c]]
      <4>1. CASE Kind(c) = "okta" /\ Go(c, "oktaAgain") /\ UNCHANGED <<token, tokenVars>>
        BY <1>1, <4>1, IssueNone DEF Go, SameBody, TypeOK
      <4>2. CASE Kind(c) = "keypair" /\ signJwt(c) /\ Go(c, "sleep")
        BY <1>1, <4>2, ObtainFacts DEF signJwt, Go, TypeOK
      <4>3. CASE Kind(c) \notin {"okta", "keypair"} /\ Go(c, "sleep") /\ UNCHANGED <<token, tokenVars>>
        BY <1>1, <4>3, IssueNone DEF Go, SameBody, TypeOK
      <4> QED
        BY <2>2, <4>1, <4>2, <4>3 DEF RetryLogin, Renew
    <3> QED
      BY <1>1, <2>1, <3>1, <3>2
  <2>3. CASE GiveUp(c)
    BY <1>1, <2>1, <2>3, IssueNone, OldTypes, Same DEF GiveUp, Go, SameBody, TypeOK
  <2> QED
    BY <2>2, <2>3 DEF loginFails
<1>4. Own(c)
  BY <1>1, <1>3, Same DEF loginFails, Own, Go, TypeOK, loginVars, NewBody, SameBody
<1>5. OwnTypes(c)
  BY <1>1, <1>3, OldTypes DEF loginFails, Go, OwnTypes, States, TypeOK, loginVars, NewBody,
     SameBody
<1>6. Gets(c)
  BY <1>1, <1>3 DEF loginFails, Gets, Mine, Go, TypeOK, loginVars, NewBody, SameBody
<1>7. LoginInv(c)'
  <2>1. Kind(c)' = Kind(c)
    BY DEF loginFails, Kind
  <2>2. KindInv(c)'
    BY <1>1, <1>3, <2>1 DEF loginFails, Go, TypeOK, LoginInv, KindInv, FlowPcs, GrantPcs,
       RefusedPcs, NewBody, SameBody
  <2>3. Flows(c)'
    BY <1>1, <1>3, <2>1 DEF loginFails, Go, TypeOK, LoginInv, Flows, FlowPcs, NewBody, SameBody
  <2>4. OneTime(c)'
    BY <1>1, <1>3, <2>1 DEF loginFails, Go, TypeOK, LoginInv, OneTime, loginVars, NewBody,
       SameBody
  <2>5. Clean(c)'
    BY <1>1, <1>3, <2>1 DEF loginFails, Go, TypeOK, LoginInv, Clean, Refused, loginVars,
       NewBody, SameBody
  <2>6. Unseen(c)'
    BY <1>1, <1>3, <2>1 DEF loginFails, Go, TypeOK, Unseen, NewBody, SameBody
  <2> QED
    BY <2>2, <2>3, <2>4, <2>5, <2>6 DEF LoginInv
<1>8. Kind(c) \in Types /\ pending[Kind(c)].owner = c =>
         pc[c] # "settling" /\ pc'[c] \in (FlowPcs \cup GrantPcs) \ {"settling"}
  BY NotOwner DEF loginFails, FlowPcs, GrantPcs
<1> QED
  BY <1>3, <1>4, <1>5, <1>6, <1>7, <1>8, OwnStep

\* A flow that fails.
LEMMA SettleNone ==
    ASSUME AuthenticationInv, NEW c \in Connections, pc[c] \in FlowPcs \ {"settling"}, settle(c, 0),
           UNCHANGED <<config, fetched, cache, tokenVars, rejected, used>>, servers' = servers \ {c}
    PROVE  AuthenticationInv'
<1>1. TypeOK /\ LoginInv(c)
  BY DEF AuthenticationInv
<1>2. Grows /\ Tokens' = Tokens /\ 0 \in Tokens
  BY <1>1, IssueNone
<1>3. Beside(c)
  <2>1. cache.access \notin Refused(c)
    BY <1>1 DEF LoginInv, Clean, FlowPcs
  <2> QED
    BY <1>1, <1>2, <2>1, Same, OldTypes DEF Beside, Mine, TypeOK
<1>4. Kind(c) \in Types /\ pending[Kind(c)].owner = c
  BY <1>1 DEF LoginInv, KindInv, Flows
<1>5. 0 \in Mine(c) /\ 0 \notin Refused(c) /\ 0 \in Tokens'
  BY <1>2 DEF Mine, Refused
<1> QED
  BY <1>3, <1>4, <1>5, SettleStep

\* The tokens of a grant.
Granted(c) ==
    \/ Issue(<<"access">>, {}) /\ fetched' = [fetched EXCEPT ![c] = [access |-> Newest, refresh |-> 0]]
    \/ \E spent \in {{}, {fetched[c].refresh}} :
          /\ Issue(<<"access", "refresh">>, spent)
          /\ fetched' = [fetched EXCEPT ![c] = [access |-> Newest - 1, refresh |-> Newest]]

LEMMA GrantedFacts ==
    ASSUME TypeOK, NEW c \in Connections, Granted(c)
    PROVE  /\ Grows /\ fetched' = [fetched EXCEPT ![c] = fetched'[c]]
           /\ fetched'[c] \in [access : Tokens', refresh : Tokens']
           /\ fetched'[c].access \in Nat /\ fetched'[c].access > Len(issued)
<1>1. CASE /\ Issue(<<"access">>, {})
           /\ fetched' = [fetched EXCEPT ![c] = [access |-> Newest, refresh |-> 0]]
  <2>1. Grows /\ Newest \in Tokens' /\ Newest = Len(issued) + 1 /\ Len(issued) \in Nat
    BY <1>1, IssueOne
  <2>2. 0 \in Tokens'
    BY <2>1, OldTypes
  <2> HIDE DEF Newest
  <2> QED
    BY <1>1, <2>1, <2>2 DEF TypeOK
<1>2. ASSUME NEW spent \in {{}, {fetched[c].refresh}}, Issue(<<"access", "refresh">>, spent),
             fetched' = [fetched EXCEPT ![c] = [access |-> Newest - 1, refresh |-> Newest]]
      PROVE  /\ Grows /\ fetched' = [fetched EXCEPT ![c] = fetched'[c]]
             /\ fetched'[c] \in [access : Tokens', refresh : Tokens']
             /\ fetched'[c].access \in Nat /\ fetched'[c].access > Len(issued)
  <2>1. /\ Grows /\ Newest \in Tokens' /\ Newest - 1 \in Tokens'
        /\ Newest = Len(issued) + 2 /\ Len(issued) \in Nat
    BY <1>2, IssueTwo
  <2> HIDE DEF Newest
  <2> QED
    BY <1>2, <2>1 DEF TypeOK
<1> QED
  BY <1>1, <1>2 DEF Granted

LEMMA GrantedUnseen ==
    ASSUME TypeOK, NEW c \in Connections, Granted(c),
           UNCHANGED <<cache, pending, rejected, token>>
    PROVE  Unseen(c)' /\ fetched'[c].access \in Mine(c)
<1> PICK n : n = fetched'[c].access
  OBVIOUS
<1>1. n \in Nat /\ n > Len(issued) /\ fetched' = [fetched EXCEPT ![c] = fetched'[c]]
  BY GrantedFacts
<1>2. \A e \in Connections :
         /\ n # 0 /\ n \notin rejected[e] /\ n # token[e] /\ n # fetched[e].access
         /\ n # cache.access /\ n # cache.id /\ \A t \in Types : n # pending[t].result
  BY <1>1, NewTokens
<1>3. n \in Mine(c)
  BY <1>1, NewTokens
<1>4. \A e \in Connections : e # c => fetched'[e] = fetched[e]
  BY <1>1 DEF TypeOK
<1> QED
  BY <1>2, <1>3, <1>4 DEF Unseen

LEMMA GrantStep ==
    ASSUME AuthenticationInv, NEW c \in Connections,
           grant(c)
    PROVE  AuthenticationInv'
<1>1. TypeOK /\ LoginInv(c) /\ c # "none" /\ MaxLoginRetries \in Nat
  BY AuthenticationAssumption DEF AuthenticationInv
<1>2. Granted(c) => Grows /\ Unseen(c)' /\ fetched'[c].access \in Mine(c)
  BY <1>1, GrantedFacts, GrantedUnseen DEF grant, loginVars
<1>3. /\ Grows /\ Unseen(c)' /\ fetched'[c].access \in Mine(c)
      /\ fetched' = [fetched EXCEPT ![c] = fetched'[c]]
      /\ fetched'[c] \in [access : Tokens', refresh : Tokens']
      /\ pc' = [pc EXCEPT ![c] = pc'[c]] /\ pc'[c] \in {"writeAccess", "evict"}
  <2>1. CASE Granted(c) /\ Go(c, "writeAccess")
    BY <1>1, <1>2, <2>1, GrantedFacts DEF Go, TypeOK
  <2>2. CASE Go(c, "evict") /\ UNCHANGED <<fetched, tokenVars>>
    <3>1. Grows
      BY <1>1, <2>2, IssueNone
    <3>2. Unseen(c)' /\ pc'[c] = "evict"
      BY <1>1, <2>2 DEF Go, TypeOK, Unseen
    <3> QED
      BY <1>1, <2>2, <3>1, <3>2, OldTypes, Same DEF Go, Mine, TypeOK
  <2> QED
    BY <2>1, <2>2 DEF grant, Granted
<1>4. Own(c)
  BY <1>1, <1>3, Same DEF grant, Own, Go, TypeOK, loginVars
<1>5. OwnTypes(c)
  BY <1>1, <1>3, OldTypes DEF grant, Go, OwnTypes, States, TypeOK, loginVars
<1>6. Gets(c)
  BY <1>1, <1>3 DEF grant, Gets, Mine, Go, TypeOK, loginVars
<1>7. LoginInv(c)'
  <2>1. Kind(c)' = Kind(c)
    BY DEF grant, Kind
  <2>2. KindInv(c)'
    BY <1>1, <1>3, <2>1 DEF grant, Go, TypeOK, LoginInv, KindInv, FlowPcs, GrantPcs, RefusedPcs
  <2>3. Flows(c)'
    BY <1>1, <1>3, <2>1 DEF grant, Go, TypeOK, LoginInv, Flows, FlowPcs
  <2>4. OneTime(c)'
    BY <1>1, <1>3, <2>1 DEF grant, Go, TypeOK, LoginInv, OneTime, loginVars
  <2>5. Clean(c)'
    BY <1>1, <1>3, <2>1 DEF grant, Go, TypeOK, LoginInv, Clean, Refused, loginVars
  <2>6. Unseen(c)'
    BY <1>3
  <2> QED
    BY <2>2, <2>3, <2>4, <2>5, <2>6 DEF LoginInv
<1>8. Kind(c) \in Types /\ pending[Kind(c)].owner = c =>
         pc[c] # "settling" /\ pc'[c] \in (FlowPcs \cup GrantPcs) \ {"settling"}
  BY <1>1, <1>3, NotOwner DEF grant, FlowPcs, GrantPcs, LoginInv, Flows
<1> QED
  BY <1>3, <1>4, <1>5, <1>6, <1>7, <1>8, OwnStep

LEMMA ExchangeGrantStep ==
    ASSUME AuthenticationInv, NEW c \in Connections,
           pc[c] = "exchange",
           Granted(c),
           Go(c, "writeAccess"),
           UNCHANGED <<config, again, token, pending, numRetries, cache, servers, rejected, used>>
    PROVE  AuthenticationInv'
<1>1. TypeOK /\ LoginInv(c) /\ c # "none" /\ MaxLoginRetries \in Nat
  BY AuthenticationAssumption DEF AuthenticationInv
<1>2. Granted(c) => Grows /\ Unseen(c)' /\ fetched'[c].access \in Mine(c)
  BY <1>1, GrantedFacts, GrantedUnseen DEF loginVars
<1>3. /\ Grows /\ Unseen(c)' /\ fetched'[c].access \in Mine(c)
      /\ fetched' = [fetched EXCEPT ![c] = fetched'[c]]
      /\ fetched'[c] \in [access : Tokens', refresh : Tokens']
      /\ pc' = [pc EXCEPT ![c] = pc'[c]] /\ pc'[c] \in {"writeAccess", "evict"}
  BY <1>1, <1>2, GrantedFacts DEF Go, TypeOK
<1>4. Own(c)
  BY <1>1, <1>3, Same DEF Own, Go, TypeOK, loginVars
<1>5. OwnTypes(c)
  BY <1>1, <1>3, OldTypes DEF Go, OwnTypes, States, TypeOK, loginVars
<1>6. Gets(c)
  BY <1>1, <1>3 DEF Gets, Mine, Go, TypeOK, loginVars
<1>7. LoginInv(c)'
  <2>1. Kind(c)' = Kind(c)
    BY DEF Kind
  <2>2. KindInv(c)'
    BY <1>1, <1>3, <2>1 DEF Go, TypeOK, LoginInv, KindInv, FlowPcs, GrantPcs, RefusedPcs
  <2>3. Flows(c)'
    BY <1>1, <1>3, <2>1 DEF Go, TypeOK, LoginInv, Flows, FlowPcs
  <2>4. OneTime(c)'
    BY <1>1, <1>3, <2>1 DEF Go, TypeOK, LoginInv, OneTime, loginVars
  <2>5. Clean(c)'
    BY <1>1, <1>3, <2>1 DEF Go, TypeOK, LoginInv, Clean, Refused, loginVars
  <2>6. Unseen(c)'
    BY <1>3
  <2> QED
    BY <2>2, <2>3, <2>4, <2>5, <2>6 DEF LoginInv
<1>8. Kind(c) \in Types /\ pending[Kind(c)].owner = c =>
         pc[c] # "settling" /\ pc'[c] \in (FlowPcs \cup GrantPcs) \ {"settling"}
  BY <1>1, <1>3, NotOwner DEF FlowPcs, GrantPcs, LoginInv, Flows
<1> QED
  BY <1>3, <1>4, <1>5, <1>6, <1>7, <1>8, OwnStep

LEMMA ExchangeStep ==
    ASSUME AuthenticationInv, NEW c \in Connections, exchange(c)
    PROVE  AuthenticationInv'
<1>1. CASE /\ Granted(c) /\ Go(c, "writeAccess")
           /\ UNCHANGED <<again, token, pending, numRetries>>
  BY <1>1, ExchangeGrantStep DEF exchange
<1>2. CASE settle(c, 0) /\ UNCHANGED <<fetched, tokenVars>>
  <2>1. pc[c] \in FlowPcs \ {"settling"} /\ servers' = servers \ {c}
    <3>1. c \notin servers
      BY DEF exchange, AuthenticationInv, LoginInv, Flows
    <3> QED
      BY <3>1 DEF exchange, FlowPcs
  <2> QED
    BY <1>2, <2>1, SettleNone DEF exchange
<1> QED
  BY <1>1, <1>2 DEF exchange, Granted

LEMMA BrowserFailsStep ==
    ASSUME AuthenticationInv, NEW c \in Connections, browserFails(c)
    PROVE  AuthenticationInv'
BY SettleNone DEF browserFails, FlowPcs

LEMMA SamlArrivesStep ==
    ASSUME AuthenticationInv, NEW c \in Connections, samlArrives(c)
    PROVE  AuthenticationInv'
<1>1. TypeOK /\ LoginInv(c)
  BY DEF AuthenticationInv
<1>2. Grows /\ Newest \in Tokens' /\ Newest = Len(issued) + 1 /\ Len(issued) \in Nat
  BY <1>1, IssueOne DEF samlArrives
<1>3. Beside(c)
  <2>1. cache.access \notin Refused(c)
    BY <1>1 DEF LoginInv, Clean, samlArrives
  <2> QED
    BY <1>1, <1>2, <2>1, Same, OldTypes DEF samlArrives, Beside, Mine, TypeOK
<1>4. Kind(c) \in Types /\ pending[Kind(c)].owner = c
  BY <1>1 DEF samlArrives, LoginInv, KindInv, Flows, FlowPcs
<1>5. Newest \in Mine(c) /\ Newest \notin Refused(c)
  <2>1. Newest \in Nat /\ Newest > Len(issued)
    BY <1>2
  <2> HIDE DEF Newest
  <2> QED
    BY <1>1, <2>1, NewTokens
<1>6. settle(c, Newest) /\ pc[c] \in (FlowPcs \cup GrantPcs) \ {"settling"}
  BY DEF samlArrives, FlowPcs
<1> HIDE DEF Newest
<1> QED
  BY <1>2, <1>3, <1>4, <1>5, <1>6, SettleStep

LEMMA ForgetStep ==
    ASSUME AuthenticationInv, NEW c \in Connections, forget(c)
    PROVE  AuthenticationInv'
<1>1. TypeOK /\ LoginInv(c)
  BY DEF AuthenticationInv
<1>2. Grows /\ Tokens' = Tokens
  BY <1>1, IssueNone DEF forget
<1>3. Kind(c) \in Types /\ pending[Kind(c)].owner = c
  BY <1>1 DEF forget, LoginInv, KindInv, Flows, FlowPcs
<1>4. Beside(c)
  <2>1. cache.access \notin Refused(c) /\ servers' = servers \ {c}
    <3>1. c \notin servers
      BY <1>1 DEF forget, LoginInv, Flows
    <3> QED
      BY <1>1, <3>1 DEF forget, LoginInv, Clean
  <2> QED
    BY <1>1, <1>2, <2>1, Same, OldTypes DEF forget, Beside, Mine, TypeOK
<1>5. pending[Kind(c)].result \in Mine(c) /\ pending[Kind(c)].result \in Tokens'
  BY <1>1, <1>2, <1>3 DEF Mine, Types, TypeOK
<1>6. Resume({c}, {}, pending[Kind(c)].result) /\ pending' = [pending EXCEPT ![Kind(c)] = NoAuth]
  BY DEF forget
<1> QED
  BY <1>3, <1>4, <1>5, <1>6, ResumeStep

\* A flow that got hold of an access token, or a reauthenticate() with a refresh token.
LEMMA StoredStep ==
    ASSUME AuthenticationInv, NEW c \in Connections, pc[c] \in {"writeAccess", "writeRefresh"}, Stored(c),
           \/ cache' = [cache EXCEPT !.access = fetched[c].access] /\ pc[c] = "writeAccess"
           \/ cache' = [cache EXCEPT !.refresh = fetched[c].refresh],
           pc[c] = "writeRefresh" => cache' = [cache EXCEPT !.refresh = fetched[c].refresh],
           UNCHANGED <<config, servers, tokenVars, rejected, used>>
    PROVE  AuthenticationInv'
<1>1. TypeOK /\ LoginInv(c)
  BY DEF AuthenticationInv
<1>2. Grows /\ Tokens' = Tokens
  BY <1>1, IssueNone
<1>3. Kind(c) \in Types
  BY <1>1 DEF LoginInv, KindInv, GrantPcs
<1>4. fetched[c].access \notin Refused(c)
  BY <1>1 DEF LoginInv, Clean, Unseen, Refused
<1>5. fetched' = [fetched EXCEPT ![c] = NoTokens] /\ fetched'[c] = NoTokens
  BY <1>1 DEF Stored, TypeOK
<1>6. Beside(c)
  <2>1. servers' = servers \ {c}
    BY <1>1 DEF LoginInv, Flows
  <2>2. fetched[c] \in [access : Tokens', refresh : Tokens']
        /\ cache \in [access : Tokens', refresh : Tokens', id : Tokens']
        /\ NoTokens \in [access : Tokens', refresh : Tokens']
    BY <1>1, <1>2, OldTypes
  <2>3. /\ cache' \in [access : Tokens', refresh : Tokens', id : Tokens'] /\ cache'.id = cache.id
        /\ \/ cache'.access = cache.access
           \/ cache'.access = fetched[c].access /\ pc[c] = "writeAccess"
    BY <2>2
  <2>4. cache'.access \notin Refused(c)
    BY <1>1, <1>4, <2>3 DEF LoginInv, Clean
  <2>5. fetched'[c].access \in Mine(c)
    BY <1>5 DEF NoTokens, Mine
  <2> HIDE DEF NoTokens
  <2> QED
    BY <1>2, <1>5, <2>1, <2>2, <2>3, <2>4, <2>5 DEF Beside
<1>7. fetched[c].access \in Mine(c) /\ fetched[c].access \in Tokens'
  BY <1>1, <1>2 DEF Mine, TypeOK
<1>8. CASE InFlow(c)
  <2>1. settle(c, fetched[c].access) /\ pending[Kind(c)].owner = c
    BY <1>8 DEF Stored, InFlow
  <2>2. pc[c] \in (FlowPcs \cup GrantPcs) \ {"settling"}
    BY DEF GrantPcs
  <2> QED
    BY <1>3, <1>4, <1>6, <1>7, <2>1, <2>2, SettleStep
<1>9. CASE ~InFlow(c)
  <2>1. Resume({c}, {}, fetched[c].access) /\ pending' = pending /\ pending[Kind(c)].owner # c
    BY <1>3, <1>9 DEF Stored, InFlow
  <2> QED
    BY <1>3, <1>6, <1>7, <2>1, ResumeStep
<1> QED
  BY <1>8, <1>9

LEMMA WriteRefreshStep ==
    ASSUME AuthenticationInv, NEW c \in Connections, writeRefresh(c)
    PROVE  AuthenticationInv'
BY StoredStep DEF writeRefresh

LEMMA WriteAccessOn ==
    ASSUME AuthenticationInv, NEW c \in Connections,
           pc[c] = "writeAccess",
           cache' = [cache EXCEPT !.access = fetched[c].access],
           Go(c, "writeRefresh"),
           UNCHANGED <<config, again, token, fetched, pending, numRetries, servers, tokenVars, rejected, used>>
    PROVE  AuthenticationInv'
<1>1. TypeOK /\ LoginInv(c) /\ c # "none" /\ MaxLoginRetries \in Nat
  BY AuthenticationAssumption DEF AuthenticationInv
<1>3. Grows
  BY <1>1, IssueNone
<1>4. Own(c)
  BY <1>1, <1>3, Same DEF Own, Go, TypeOK, loginVars
<1>5. OwnTypes(c)
  BY <1>1, <1>3, OldTypes DEF Go, OwnTypes, States, TypeOK, loginVars
<1>6. Gets(c)
  BY <1>1, <1>3 DEF Gets, Mine, Go, TypeOK, loginVars
<1>7. LoginInv(c)'
  <2>1. Kind(c)' = Kind(c)
    BY DEF Kind
  <2>2. KindInv(c)'
    BY <1>1, <1>3, <2>1 DEF Go, TypeOK, LoginInv, KindInv, FlowPcs, GrantPcs, RefusedPcs
  <2>3. Flows(c)'
    BY <1>1, <1>3, <2>1 DEF Go, TypeOK, LoginInv, Flows, FlowPcs
  <2>4. OneTime(c)'
    BY <1>1, <1>3, <2>1 DEF Go, TypeOK, LoginInv, OneTime, loginVars
  <2>5. Clean(c)'
    BY <1>1, <1>3, <2>1 DEF Go, TypeOK, LoginInv, Clean, Unseen, Refused, loginVars
  <2>6. Unseen(c)'
    BY <1>1, <1>3, <2>1 DEF Go, TypeOK, Unseen
  <2> QED
    BY <2>2, <2>3, <2>4, <2>5, <2>6 DEF LoginInv
<1>8. Kind(c) \in Types /\ pending[Kind(c)].owner = c =>
         pc[c] # "settling" /\ pc'[c] \in (FlowPcs \cup GrantPcs) \ {"settling"}
  BY <1>1 DEF Go, TypeOK, FlowPcs, GrantPcs
<1> QED
  BY <1>3, <1>4, <1>5, <1>6, <1>7, <1>8, OwnStep

LEMMA WriteAccessStep ==
    ASSUME AuthenticationInv, NEW c \in Connections, writeAccess(c)
    PROVE  AuthenticationInv'
<1>1. CASE Stored(c)
  BY <1>1, StoredStep DEF writeAccess
<1>2. CASE Go(c, "writeRefresh") /\ UNCHANGED <<again, token, fetched, pending, numRetries>>
  BY <1>2, WriteAccessOn DEF writeAccess
<1> QED
  BY <1>1, <1>2 DEF writeAccess

LEMMA CheckPortOn ==
    ASSUME AuthenticationInv, NEW c \in Connections,
           pc[c] = "checkPort",
           NEW s \in {"listen", "stuck"},
           Go(c, s),
           UNCHANGED <<config, again, token, fetched, pending, cache, servers, tokenVars, loginVars>>
    PROVE  AuthenticationInv'
<1>1. TypeOK /\ LoginInv(c) /\ c # "none" /\ MaxLoginRetries \in Nat
  BY AuthenticationAssumption DEF AuthenticationInv
<1>3. Grows
  BY <1>1, IssueNone
<1>4. Own(c)
  BY <1>1, <1>3, Same DEF Own, Go, TypeOK, loginVars
<1>5. OwnTypes(c)
  BY <1>1, <1>3, OldTypes DEF Go, OwnTypes, States, TypeOK, loginVars
<1>6. Gets(c)
  BY <1>1, <1>3 DEF Gets, Mine, Go, TypeOK, loginVars
<1>7. LoginInv(c)'
  <2>1. Kind(c)' = Kind(c)
    BY DEF Kind
  <2>2. KindInv(c)'
    BY <1>1, <1>3, <2>1 DEF Go, TypeOK, LoginInv, KindInv, FlowPcs, GrantPcs, RefusedPcs
  <2>3. Flows(c)'
    BY <1>1, <1>3, <2>1 DEF Go, TypeOK, LoginInv, Flows, FlowPcs
  <2>4. OneTime(c)'
    BY <1>1, <1>3, <2>1 DEF Go, TypeOK, LoginInv, OneTime, loginVars
  <2>5. Clean(c)'
    BY <1>1, <1>3, <2>1 DEF Go, TypeOK, LoginInv, Clean, Refused, loginVars
  <2>6. Unseen(c)'
    BY <1>1, <1>3, <2>1 DEF Go, TypeOK, Unseen
  <2> QED
    BY <2>2, <2>3, <2>4, <2>5, <2>6 DEF LoginInv
<1>8. Kind(c) \in Types /\ pending[Kind(c)].owner = c =>
         pc[c] # "settling" /\ pc'[c] \in (FlowPcs \cup GrantPcs) \ {"settling"}
  BY <1>1 DEF Go, TypeOK, FlowPcs, GrantPcs
<1> QED
  BY <1>3, <1>4, <1>5, <1>6, <1>7, <1>8, OwnStep

LEMMA CheckPortStep ==
    ASSUME AuthenticationInv, NEW c \in Connections, checkPort(c)
    PROVE  AuthenticationInv'
<1>1. ASSUME NEW s \in {"listen", "stuck"}, Go(c, s), UNCHANGED <<again, token, pending, numRetries>>
      PROVE  AuthenticationInv'
  BY <1>1, CheckPortOn DEF checkPort, loginVars
<1>2. CASE settle(c, 0)
  <2>1. c \notin servers
    BY DEF checkPort, AuthenticationInv, LoginInv, Flows
  <2>2. pc[c] \in FlowPcs \ {"settling"} /\ servers' = servers \ {c}
    BY <2>1 DEF checkPort, FlowPcs
  <2> QED
    BY <1>2, <2>2, SettleNone DEF checkPort
<1> QED
  BY <1>1, <1>2 DEF checkPort

LEMMA ListenOn ==
    ASSUME AuthenticationInv, NEW c \in Connections,
           pc[c] = "listen",
           Go(c, "browser"),
           servers' = servers \cup {c},
           UNCHANGED <<config, again, token, fetched, pending, cache, tokenVars, loginVars>>
    PROVE  AuthenticationInv'
<1>1. TypeOK /\ LoginInv(c) /\ c # "none" /\ MaxLoginRetries \in Nat
  BY AuthenticationAssumption DEF AuthenticationInv
<1>3. Grows
  BY <1>1, IssueNone
<1>4. Own(c)
  BY <1>1, <1>3, Same DEF Own, Go, TypeOK, loginVars
<1>5. OwnTypes(c)
  BY <1>1, <1>3, OldTypes DEF Go, OwnTypes, States, TypeOK, loginVars
<1>6. Gets(c)
  BY <1>1, <1>3 DEF Gets, Mine, Go, TypeOK, loginVars
<1>7. LoginInv(c)'
  <2>1. Kind(c)' = Kind(c)
    BY DEF Kind
  <2>2. KindInv(c)'
    BY <1>1, <1>3, <2>1 DEF Go, TypeOK, LoginInv, KindInv, FlowPcs, GrantPcs, RefusedPcs
  <2>3. Flows(c)'
    BY <1>1, <1>3, <2>1 DEF Go, TypeOK, LoginInv, Flows, FlowPcs
  <2>4. OneTime(c)'
    BY <1>1, <1>3, <2>1 DEF Go, TypeOK, LoginInv, OneTime, loginVars
  <2>5. Clean(c)'
    BY <1>1, <1>3, <2>1 DEF Go, TypeOK, LoginInv, Clean, Refused, loginVars
  <2>6. Unseen(c)'
    BY <1>1, <1>3, <2>1 DEF Go, TypeOK, Unseen
  <2> QED
    BY <2>2, <2>3, <2>4, <2>5, <2>6 DEF LoginInv
<1>8. Kind(c) \in Types /\ pending[Kind(c)].owner = c =>
         pc[c] # "settling" /\ pc'[c] \in (FlowPcs \cup GrantPcs) \ {"settling"}
  BY <1>1 DEF Go, TypeOK, FlowPcs, GrantPcs
<1> QED
  BY <1>3, <1>4, <1>5, <1>6, <1>7, <1>8, OwnStep

LEMMA ListenStep ==
    ASSUME AuthenticationInv, NEW c \in Connections, listen(c)
    PROVE  AuthenticationInv'
<1>1. CASE /\ Go(c, "browser") /\ servers' = servers \cup {c}
           /\ UNCHANGED <<again, token, pending, numRetries>>
  BY <1>1, ListenOn DEF listen, loginVars
<1>2. CASE settle(c, 0) /\ UNCHANGED servers
  <2>1. c \notin servers
    BY DEF listen, AuthenticationInv, LoginInv, Flows
  <2>2. pc[c] \in FlowPcs \ {"settling"} /\ servers' = servers \ {c}
    BY <1>2, <2>1 DEF listen, FlowPcs
  <2> QED
    BY <1>2, <2>2, SettleNone DEF listen
<1> QED
  BY <1>1, <1>2 DEF listen

LEMMA ReadRefreshOn ==
    ASSUME AuthenticationInv, NEW c \in Connections,
           pc[c] = "readRefresh",
           NEW x \in {0, cache.refresh},
           fetched' = [fetched EXCEPT ![c] = [access |-> 0, refresh |-> x]],
           NEW s \in {"grant", "checkPort"},
           Go(c, s),
           UNCHANGED <<config, again, token, pending, cache, servers, tokenVars, loginVars>>
    PROVE  AuthenticationInv'
<1>1. TypeOK /\ LoginInv(c) /\ c # "none" /\ MaxLoginRetries \in Nat
  BY AuthenticationAssumption DEF AuthenticationInv
<1>2. Grows
  BY <1>1, IssueNone
<1>3. /\ Grows /\ fetched' = [fetched EXCEPT ![c] = fetched'[c]]
      /\ fetched'[c] \in [access : Tokens', refresh : Tokens'] /\ fetched'[c].access = 0
  BY <1>1, <1>2, OldTypes DEF TypeOK
<1>4. Own(c)
  BY <1>1, <1>3, Same DEF Own, Go, TypeOK, loginVars
<1>5. OwnTypes(c)
  BY <1>1, <1>3, OldTypes DEF Go, OwnTypes, States, TypeOK, loginVars
<1>6. Gets(c)
  BY <1>1, <1>3 DEF Gets, Mine, Go, TypeOK, loginVars
<1>7. LoginInv(c)'
  <2>1. Kind(c)' = Kind(c)
    BY DEF Kind
  <2>2. KindInv(c)'
    BY <1>1, <1>3, <2>1 DEF Go, TypeOK, LoginInv, KindInv, FlowPcs, GrantPcs, RefusedPcs
  <2>3. Flows(c)'
    BY <1>1, <1>3, <2>1 DEF Go, TypeOK, LoginInv, Flows, FlowPcs
  <2>4. OneTime(c)'
    BY <1>1, <1>3, <2>1 DEF Go, TypeOK, LoginInv, OneTime, loginVars
  <2>5. Clean(c)'
    BY <1>1, <1>3, <2>1 DEF Go, TypeOK, LoginInv, Clean, Refused, loginVars
  <2>6. Unseen(c)'
    BY <1>1, <1>3, <2>1 DEF Go, TypeOK, Unseen
  <2> QED
    BY <2>2, <2>3, <2>4, <2>5, <2>6 DEF LoginInv
<1>8. Kind(c) \in Types /\ pending[Kind(c)].owner = c =>
         pc[c] # "settling" /\ pc'[c] \in (FlowPcs \cup GrantPcs) \ {"settling"}
  BY <1>1 DEF Go, TypeOK, FlowPcs, GrantPcs
<1> QED
  BY <1>3, <1>4, <1>5, <1>6, <1>7, <1>8, OwnStep

LEMMA ReadRefreshStep ==
    ASSUME AuthenticationInv, NEW c \in Connections, readRefresh(c)
    PROVE  AuthenticationInv'
<1>1. TypeOK /\ LoginInv(c)
  BY DEF AuthenticationInv
<1>2. CASE settle(c, fetched[c].access) /\ fetched' = [fetched EXCEPT ![c] = NoTokens]
  <2>1. Grows /\ Tokens' = Tokens
    BY <1>1, IssueNone DEF readRefresh
  <2>2. Kind(c) \in Types /\ pending[Kind(c)].owner = c
    BY <1>1 DEF readRefresh, LoginInv, KindInv, Flows, FlowPcs
  <2>3. fetched[c].access \notin Refused(c) /\ cache.access \notin Refused(c)
    BY <1>1 DEF readRefresh, LoginInv, Clean
  <2>4. fetched'[c] = NoTokens /\ fetched' = [fetched EXCEPT ![c] = fetched'[c]]
    BY <1>1, <1>2 DEF TypeOK
  <2>5. fetched'[c].access \in Mine(c)
    BY <2>4 DEF NoTokens, Mine
  <2>6. Beside(c)
    <3>1. servers' = servers \ {c}
      BY <1>1 DEF readRefresh, LoginInv, Flows
    <3> QED
      BY <1>1, <2>1, <2>3, <2>4, <2>5, <3>1, OldTypes DEF readRefresh, Beside
  <2>7. fetched[c].access \in Mine(c) /\ fetched[c].access \in Tokens'
    BY <1>1, <2>1 DEF Mine, TypeOK
  <2>8. pc[c] \in (FlowPcs \cup GrantPcs) \ {"settling"}
    BY DEF readRefresh, FlowPcs
  <2> QED
    BY <1>2, <2>2, <2>3, <2>6, <2>7, <2>8, SettleStep
<1>3. ASSUME NEW x \in {0, cache.refresh}, NEW s \in {"grant", "checkPort"}, Go(c, s),
             fetched' = [fetched EXCEPT ![c] = [access |-> 0, refresh |-> x]],
             UNCHANGED <<again, token, pending, numRetries>>
      PROVE  AuthenticationInv'
  BY <1>3, ReadRefreshOn DEF readRefresh, loginVars
<1>4. CASE /\ LET usable == cache.refresh # 0 /\ config[c].store
              IN  /\ fetched' = [fetched EXCEPT ![c] =
                                    [access |-> 0, refresh |-> IF usable THEN cache.refresh ELSE 0]]
                  /\ Go(c, IF usable THEN "grant" ELSE "checkPort")
           /\ UNCHANGED <<again, token, pending, numRetries>>
  <2>1. CASE cache.refresh # 0 /\ config[c].store
    BY <1>3, <1>4, <2>1
  <2>2. CASE ~(cache.refresh # 0 /\ config[c].store)
    BY <1>3, <1>4, <2>2
  <2> QED
    BY <2>1, <2>2
<1> QED
  BY <1>2, <1>4 DEF readRefresh

LEMMA AuthenticateOn ==
    ASSUME AuthenticationInv, NEW c \in Connections,
           pc[c] = "authenticate",
           NEW s \in {"sent", "failed", "okta", "requestToken", "waiting"},
           Go(c, s),
           s = "waiting" => Kind(c) \in Types,
           s = "sent" => Kind(c) \notin {"okta", "keypair"},
           UNCHANGED <<config, again, token, fetched, pending, cache, servers, tokenVars, loginVars>>
    PROVE  AuthenticationInv'
<1>1. TypeOK /\ LoginInv(c) /\ c # "none" /\ MaxLoginRetries \in Nat
  BY AuthenticationAssumption DEF AuthenticationInv
<1>3. Grows
  BY <1>1, IssueNone
<1>4. Own(c)
  BY <1>1, <1>3, Same DEF Own, Go, TypeOK, loginVars
<1>5. OwnTypes(c)
  BY <1>1, <1>3, OldTypes DEF Go, OwnTypes, States, TypeOK, loginVars
<1>6. Gets(c)
  BY <1>1, <1>3 DEF Gets, Mine, Go, TypeOK, loginVars
<1>7. LoginInv(c)'
  <2>1. Kind(c)' = Kind(c)
    BY DEF Kind
  <2>2. KindInv(c)'
    BY <1>1, <1>3, <2>1 DEF Go, TypeOK, LoginInv, KindInv, FlowPcs, GrantPcs, RefusedPcs
  <2>3. Flows(c)'
    BY <1>1, <1>3, <2>1 DEF Go, TypeOK, LoginInv, Flows, FlowPcs
  <2>4. OneTime(c)'
    BY <1>1, <1>3, <2>1 DEF Go, TypeOK, LoginInv, OneTime, loginVars
  <2>5. Clean(c)'
    BY <1>1, <1>3, <2>1 DEF Go, TypeOK, LoginInv, Clean, Refused, loginVars
  <2>6. Unseen(c)'
    BY <1>1, <1>3, <2>1 DEF Go, TypeOK, Unseen
  <2> QED
    BY <2>2, <2>3, <2>4, <2>5, <2>6 DEF LoginInv
<1>8. Kind(c) \in Types /\ pending[Kind(c)].owner = c =>
         pc[c] # "settling" /\ pc'[c] \in (FlowPcs \cup GrantPcs) \ {"settling"}
  BY NotOwner DEF FlowPcs, GrantPcs
<1> QED
  BY <1>3, <1>4, <1>5, <1>6, <1>7, <1>8, OwnStep

LEMMA SignStep ==
    ASSUME AuthenticationInv, NEW c \in Connections,
           pc[c] = "authenticate",
           signJwt(c),
           Go(c, "sent"),
           UNCHANGED <<config, again, fetched, pending, cache, servers, loginVars>>
    PROVE  AuthenticationInv'
<1>1. TypeOK /\ LoginInv(c) /\ c # "none" /\ MaxLoginRetries \in Nat
  BY AuthenticationAssumption DEF AuthenticationInv
<1>3. Grows /\ NewBody(c)
  BY <1>1, ObtainFacts DEF signJwt
<1>4. Own(c)
  BY <1>1, <1>3, Same DEF Own, Go, TypeOK, loginVars, NewBody
<1>5. OwnTypes(c)
  BY <1>1, <1>3, OldTypes DEF Go, OwnTypes, States, TypeOK, loginVars, NewBody
<1>6. Gets(c)
  BY <1>1, <1>3 DEF Gets, Mine, Go, TypeOK, loginVars, NewBody
<1>7. LoginInv(c)'
  <2>1. Kind(c)' = Kind(c)
    BY DEF Kind, NewBody
  <2>2. KindInv(c)'
    BY <1>1, <1>3, <2>1 DEF Go, TypeOK, LoginInv, KindInv, FlowPcs, GrantPcs, RefusedPcs,
       NewBody
  <2>3. Flows(c)'
    BY <1>1, <1>3, <2>1 DEF Go, TypeOK, LoginInv, Flows, FlowPcs, NewBody
  <2>4. OneTime(c)'
    BY <1>1, <1>3, <2>1 DEF Go, TypeOK, LoginInv, OneTime, loginVars, NewBody
  <2>5. Clean(c)'
    BY <1>1, <1>3, <2>1 DEF Go, TypeOK, LoginInv, Clean, Refused, loginVars, NewBody
  <2>6. Unseen(c)'
    BY <1>1, <1>3, <2>1 DEF Go, TypeOK, Unseen, NewBody
  <2> QED
    BY <2>2, <2>3, <2>4, <2>5, <2>6 DEF LoginInv
<1>8. Kind(c) \in Types /\ pending[Kind(c)].owner = c =>
         pc[c] # "settling" /\ pc'[c] \in (FlowPcs \cup GrantPcs) \ {"settling"}
  BY NotOwner DEF FlowPcs, GrantPcs
<1> QED
  BY <1>3, <1>4, <1>5, <1>6, <1>7, <1>8, OwnStep

\* A connection that finds no authentication under way starts one: the entry is its own.
LEMMA FlowStarts ==
    ASSUME AuthenticationInv, NEW c \in Connections, pc[c] = "authenticate",
           NEW t \in Types, t = Kind(c), pending[t].state = "none",
           pending' = [pending EXCEPT ![t] = [state |-> "running", owner |-> c, result |-> 0]],
           NEW first \in {"readAccess", "listen"}, Go(c, first),
           UNCHANGED <<config, again, token, fetched, cache, servers, tokenVars, loginVars>>
    PROVE  AuthenticationInv'
<1>1. TypeOK /\ LoginInv(c) /\ c # "none" /\ Owned(t)
  BY AuthenticationAssumption DEF AuthenticationInv
<1>2. Grows /\ Tokens' = Tokens /\ 0 \in Tokens
  BY <1>1, IssueNone
<1>3. pc'[c] = first /\ \A e \in Connections : e # c => pc'[e] = pc[e]
  BY <1>1 DEF Go, TypeOK
<1>4. /\ pending'[t] = [state |-> "running", owner |-> c, result |-> 0]
      /\ \A u \in Types : u # t => pending'[u] = pending[u]
  BY <1>1 DEF TypeOK
<1>5. Kind(c)' = t /\ config' = config
  BY DEF Kind
<1>6. TypeOK'
  <2>1. [state |-> "running", owner |-> c, result |-> 0] \in
           [state : {"none", "running", "done"}, owner : Connections \cup {"none"}, result : Tokens]
    BY <1>2
  <2>2. pending' \in [Types -> [state : {"none", "running", "done"},
                              owner : Connections \cup {"none"}, result : Tokens]]
    <3> PICK p : p = [state |-> "running", owner |-> c, result |-> 0]
      OBVIOUS
    <3>1. p \in [state : {"none", "running", "done"}, owner : Connections \cup {"none"},
                result : Tokens]
      BY <2>1
    <3>2. pending' = [pending EXCEPT ![t] = p]
      OBVIOUS
    <3> QED
      BY ONLY <1>1, <3>1, <3>2 DEF TypeOK
  <2>3. pc' \in [Connections -> States]
    BY <1>1 DEF Go, TypeOK, States
  <2> QED
    BY <1>1, <1>2, <2>2, <2>3 DEF TypeOK, loginVars, tokenVars
<1>7. OthersStay(c)
  BY <1>3 DEF OthersStay, loginVars
<1>8. EntriesStay(c)
  <2>1. pending[t].owner = "none"
    BY <1>1 DEF Owned
  <2> QED
    BY <1>4, <2>1 DEF EntriesStay
<1>9. HandsOn(c)
  <2>1. \A u \in Types : pending'[u].result \in {pending[u].result} \cup Mine(c)
    BY <1>4 DEF Mine
  <2> QED
    BY <2>1 DEF HandsOn, loginVars, Mine
<1>10. LoginInv(c)'
  <2>1. c \notin servers
    BY <1>1 DEF LoginInv, Flows
  <2>2. KindInv(c)' /\ OneTime(c)' /\ Unseen(c)'
    BY <1>3, <1>5 DEF KindInv, OneTime, Unseen, RefusedPcs
  <2>3. Flows(c)'
    BY <1>3, <1>4, <1>5, <2>1 DEF Flows
  <2>4. Clean(c)'
    BY <1>1, <1>3, <1>5 DEF LoginInv, Clean, Refused, loginVars
  <2> QED
    BY <2>2, <2>3, <2>4 DEF LoginInv
<1>11. Owned(t)'
  BY <1>1, <1>3, <1>4, <1>5 DEF Owned, Kind, FlowPcs
<1> QED
  BY <1>5, <1>6, <1>7, <1>8, <1>9, <1>10, <1>11, StepKeeps

\* One that finds a promise that is settled takes its result.
LEMMA PromiseDone ==
    ASSUME AuthenticationInv, NEW c \in Connections, pc[c] = "authenticate", Kind(c) \in Types,
           Resume({c}, {}, pending[Kind(c)].result), pending' = pending,
           UNCHANGED <<config, fetched, cache, servers, tokenVars, rejected, used>>
    PROVE  AuthenticationInv'
<1>1. TypeOK /\ LoginInv(c)
  BY DEF AuthenticationInv
<1>2. Grows /\ Tokens' = Tokens
  BY <1>1, IssueNone
<1>3. pending[Kind(c)].owner # c
  BY NotOwner DEF FlowPcs, GrantPcs
<1>4. Beside(c)
  <2>1. cache.access \notin Refused(c) /\ servers' = servers \ {c}
    <3>1. c \notin servers
      BY <1>1 DEF LoginInv, Flows
    <3> QED
      BY <1>1, <3>1 DEF LoginInv, Clean
  <2> QED
    BY <1>1, <1>2, <2>1, Same, OldTypes DEF Beside, Mine, TypeOK
<1>5. pending[Kind(c)].result \in Mine(c) /\ pending[Kind(c)].result \in Tokens'
  BY <1>1, <1>2 DEF Mine, Types, TypeOK
<1> QED
  BY <1>3, <1>4, <1>5, ResumeStep

LEMMA AuthenticateStep ==
    ASSUME AuthenticationInv, NEW c \in Connections, authenticate(c)
    PROVE  AuthenticationInv'
<1>0. pc[c] = "authenticate" /\ UNCHANGED <<config, fetched, cache, servers, rejected, used>>
  BY DEF authenticate
<1>1. CASE /\ Coordinated(c)
           /\ coordinateAuth(c, IF Kind(c) = "code" THEN "readAccess" ELSE "listen")
           /\ UNCHANGED tokenVars
  <2> PICK t \in Types : t = Kind(c)
    BY <1>1 DEF Coordinated, Types
  <2> PICK first \in {"readAccess", "listen"} :
        first = IF Kind(c) = "code" THEN "readAccess" ELSE "listen"
    OBVIOUS
  <2>1. CASE /\ pending[t].state = "none"
             /\ pending' = [pending EXCEPT ![t] = [state |-> "running", owner |-> c, result |-> 0]]
             /\ Go(c, first)
             /\ UNCHANGED <<token, again, numRetries>>
    <3>1. UNCHANGED <<config, again, token, fetched, cache, servers, tokenVars, loginVars>>
      BY <1>0, <1>1, <2>1 DEF loginVars
    <3> QED
      BY ONLY AuthenticationInv, c \in Connections, <1>0, <2>1, <3>1, t \in Types, t = Kind(c),
              first \in {"readAccess", "listen"}, FlowStarts
  <2>2. CASE Go(c, "waiting") /\ UNCHANGED <<token, again, numRetries, pending>>
    BY <1>0, <1>1, <2>2, AuthenticateOn DEF loginVars
  <2>3. CASE Resume({c}, {}, pending[t].result) /\ UNCHANGED pending
    BY <1>0, <1>1, <2>3, PromiseDone
  <2> QED
    BY <1>1, <2>1, <2>2, <2>3 DEF coordinateAuth
<1>2. CASE /\ ~Coordinated(c) /\ Kind(c) \in {"web", "password"} /\ Go(c, "sent")
           /\ UNCHANGED <<again, token, pending, tokenVars, numRetries>>
  BY <1>0, <1>2, AuthenticateOn DEF loginVars
<1>3. CASE signJwt(c) /\ Go(c, "sent") /\ UNCHANGED <<again, pending, numRetries>>
  BY <1>0, <1>3, SignStep DEF loginVars
<1>4. CASE Go(c, "failed") /\ UNCHANGED <<again, token, pending, tokenVars, numRetries>>
  BY <1>0, <1>4, AuthenticateOn DEF loginVars
<1>5. CASE Go(c, "okta") /\ UNCHANGED <<again, token, pending, tokenVars, numRetries>>
  BY <1>0, <1>5, AuthenticateOn DEF loginVars
<1>6. CASE Go(c, "requestToken") /\ UNCHANGED <<again, token, pending, tokenVars, numRetries>>
  BY <1>0, <1>6, AuthenticateOn DEF loginVars
<1> QED
  BY <1>1, <1>2, <1>3, <1>4, <1>5, <1>6 DEF authenticate

-----------------------------------------------------------------------------
(* The theorems                                                            *)

LEMMA AuthenticationInitInv == Init => AuthenticationInv
<1> SUFFICES ASSUME Init PROVE AuthenticationInv
  OBVIOUS
<1>1. Len(issued) = 3 /\ issued \in Seq({"access", "refresh", "id", "saml", "jwt"})
  BY DEF Init
<1>2. Tokens = 0 .. 3
  BY <1>1 DEF Tokens
<1>3. cache \in [access : Tokens, refresh : Tokens, id : Tokens]
  BY <1>2 DEF Init
<1>4. TypeOK
  <2>1. pending \in [Types -> [state : {"none", "running", "done"},
                              owner : Connections \cup {"none"}, result : Tokens]]
    BY <1>2 DEF Init, NoAuth
  <2>2. fetched \in [Connections -> [access : Tokens, refresh : Tokens]]
    BY <1>2 DEF Init, NoTokens
  <2>3. /\ token \in [Connections -> Tokens] /\ pc \in [Connections -> States]
        /\ {rejected, used} \subseteq [Connections -> SUBSET Tokens]
    BY <1>2 DEF Init, States
  <2>4. /\ numRetries \in [Connections -> 0 .. MaxLoginRetries + 1]
        /\ good \subseteq 1 .. Len(issued) /\ Len(issued) <= MaxIssued
    BY <1>1, AuthenticationAssumption DEF Init
  <2> QED
    BY <1>1, <1>3, <2>1, <2>2, <2>3, <2>4 DEF TypeOK, Init
<1>5. ASSUME NEW c \in Connections PROVE LoginInv(c)
  BY DEF Init, LoginInv, KindInv, Flows, OneTime, Clean, Unseen, Refused, FlowPcs, GrantPcs,
     RefusedPcs
<1>6. ASSUME NEW t \in Types PROVE Owned(t)
  BY DEF Init, Owned, NoAuth
<1> QED
  BY <1>4, <1>5, <1>6 DEF AuthenticationInv

LEMMA AuthenticationStutters == AuthenticationInv /\ UNCHANGED vars => AuthenticationInv'
<1> SUFFICES ASSUME AuthenticationInv, UNCHANGED vars PROVE AuthenticationInv'
  OBVIOUS
<1>1. UNCHANGED <<config, pc, again, token, fetched, pending, cache, servers, issued, good,
                  numRetries, rejected, used>>
  BY DEF vars, tokenVars, loginVars
<1>2. TypeOK'
  BY <1>1 DEF AuthenticationInv, TypeOK, Tokens
<1>3. ASSUME NEW c \in Connections PROVE LoginInv(c)'
  <2>1. LoginInv(c)
    BY DEF AuthenticationInv
  <2>2. KindInv(c)' /\ Flows(c)' /\ OneTime(c)' /\ Clean(c)'
    BY <1>1, <2>1 DEF LoginInv, KindInv, Flows, OneTime, Clean, Refused, Kind
  <2>3. Unseen(c)'
    BY <1>1, <2>1 DEF LoginInv, Unseen
  <2> QED
    BY <2>2, <2>3 DEF LoginInv
<1>4. ASSUME NEW t \in Types PROVE Owned(t)'
  BY <1>1 DEF AuthenticationInv, Owned, Kind
<1> QED
  BY <1>2, <1>3, <1>4 DEF AuthenticationInv

LEMMA AuthenticationNextInv == AuthenticationInv /\ [Next]_vars => AuthenticationInv'
<1> SUFFICES ASSUME AuthenticationInv, [Next]_vars PROVE AuthenticationInv'
  OBVIOUS
<1>1. ASSUME NEW c \in Connections, connect(c) \/ Step(c) PROVE AuthenticationInv'
  BY <1>1, ConnectStep, AuthenticateStep, ForgetStep, ReadAccessStep, ReadRefreshStep,
     GrantStep,
     EvictStep, WriteAccessStep, WriteRefreshStep, CheckPortStep, ListenStep, CodeArrivesStep,
     SamlArrivesStep, BrowserFailsStep, ExchangeStep, OktaStep, OktaAgainStep, RequestTokenStep,
     AcceptedStep, WriteIdStep, RejectedStep, LoginFailsStep, SleepEndsStep, ClearStep,
     ReauthenticateStep, RemoveIdStep
     DEF Step
<1> QED
  BY <1>1, AuthenticationStutters DEF Next

\* Who runs a flow owns its entry in PENDING_AUTHS, what was refused is out of the cache,
\* and what is about to be written or sent has been seen by nobody: this holds in every
\* state the coordinator and the authenticators can reach.
THEOREM AuthenticationInvariant == Spec => []AuthenticationInv
<1> QED
  BY AuthenticationInitInv, AuthenticationNextInv, PTL DEF Spec

\* The state of the connections, of PENDING_AUTHS and of the cache has its types: no token
\* is held that was not issued, and Okta counts at most one retry too many.
THEOREM AuthenticationTypes == Spec => []TypeOK
<1>1. AuthenticationInv => TypeOK
  BY DEF AuthenticationInv
<1> QED
  BY <1>1, AuthenticationInvariant, PTL

\* However many connections of a user authenticate at a time, coordinateAuth lets one
\* browser window open for each type of authentication, and one local server listen.
THEOREM BrowsersOpenOneByOne == Spec => []OneBrowser
<1>1. AuthenticationInv => OneBrowser
  <2> SUFFICES ASSUME AuthenticationInv, NEW t \in Types
               PROVE  /\ Cardinality({c \in servers : Kind(c) = t}) <= 1
                      /\ \A c \in servers : Kind(c) = t =>
                            pending[t].owner = c /\ pc[c] = "browser"
    BY DEF OneBrowser
  <2>1. ASSUME NEW c \in servers, Kind(c) = t
        PROVE  pending[t].owner = c /\ pc[c] = "browser"
    <3>1. c \in Connections /\ Flows(c)
      BY DEF AuthenticationInv, TypeOK, LoginInv
    <3> QED
      BY <2>1, <3>1 DEF Flows, FlowPcs
  <2> PICK o : o = pending[t].owner
    OBVIOUS
  <2> PICK S : S = {c \in servers : Kind(c) = t}
    OBVIOUS
  <2>2. S \subseteq {o}
    BY <2>1
  <2>3. IsFiniteSet({o}) /\ Cardinality({o}) = 1
    BY FS_Singleton
  <2>4. IsFiniteSet(S) /\ Cardinality(S) <= Cardinality({o})
    BY <2>2, <2>3, FS_Subset
  <2>5. Cardinality(S) <= 1
    BY <2>3, <2>4
  <2> QED
    BY <2>1, <2>5
<1> QED
  BY <1>1, AuthenticationInvariant, PTL

\* A flow of its own never gives a connection an access token that it was refused with,
\* whoever wrote to the cache in the meantime, and a retry of a login never sends a SAML
\* response of Okta or a signed JWT that was sent before.
THEOREM StaleTokensStayAway == Spec => []NoStaleToken
<1>1. AuthenticationInv => NoStaleToken
  <2> SUFFICES ASSUME AuthenticationInv, NEW c \in Connections
               PROVE  /\ pc[c] = "settling" /\ pending[Kind(c)].result # 0 =>
                            pending[Kind(c)].result \notin rejected[c]
                      /\ pc[c] = "sent" /\ Kind(c) \in {"okta", "keypair"} =>
                            token[c] \notin used[c]
    BY DEF NoStaleToken
  <2>1. Clean(c) /\ OneTime(c)
    BY DEF AuthenticationInv, LoginInv
  <2> QED
    BY <2>1 DEF Clean, OneTime, Refused
<1> QED
  BY <1>1, AuthenticationInvariant, PTL
=============================================================================
