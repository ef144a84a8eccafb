----------------------- MODULE SnowflakeServiceProofs -----------------------
(***************************************************************************)
(* Proofs about the session state machine, for any number of operations,   *)
(* retries and rejections, and any set of authenticators.                  *)
(***************************************************************************)
EXTENDS SnowflakeService, SequenceTheorems, TLAPS

-----------------------------------------------------------------------------
(* Executing the queue                                                     *)

\* The drain meets every operation of the queue in exactly one of three ways, and
\* at most one destroy() answers itself: it disconnects the rest.
LEMMA DrainSplits ==
    ASSUME NEW q \in Seq(Requests \cup Destroys),
           \A i, j \in DOMAIN q : q[i] = q[j] => i = j,
           NEW s \in {"Connected", "Disconnected"}
    PROVE  /\ Range(q) = Sends(s, q) \cup Answers(s, q) \cup Fails(s, q)
           /\ Sends(s, q) \cap Answers(s, q) = {}
           /\ Sends(s, q) \cap Fails(s, q) = {}
           /\ Answers(s, q) \cap Fails(s, q) = {}
           /\ \A x, y \in Answers(s, q) : x = y
           /\ s = "Disconnected" => Sends(s, q) = {} /\ Answers(s, q) = {}
           /\ Answers(s, q) \subseteq Destroys
<1>1. \A i \in DOMAIN q : i \in Nat /\ q[i] \in Requests \cup Destroys
  OBVIOUS
<1>2. \A i \in DOMAIN q : StateAt(s, q, i) \in {"Connected", "Disconnected"}
  BY DEF StateAt
<1>3. Range(q) = Sends(s, q) \cup Answers(s, q) \cup Fails(s, q)
  BY <1>1, <1>2 DEF Range, Sends, Answers, Fails
<1>4. Sends(s, q) \cap Answers(s, q) = {}
  BY <1>1, OperationsDisjoint DEF Sends, Answers
<1>5. Sends(s, q) \cap Fails(s, q) = {}
  BY DEF Sends, Fails
<1>6. Answers(s, q) \cap Fails(s, q) = {}
  BY DEF Answers, Fails
<1>7. ASSUME NEW x \in Answers(s, q), NEW y \in Answers(s, q)
      PROVE  x = y
  <2>1. PICK i \in DOMAIN q : /\ x = q[i] /\ x \in Destroys /\ config.keepAlive
                              /\ StateAt(s, q, i) = "Connected"
    BY <1>7 DEF Answers
  <2>2. PICK j \in DOMAIN q : /\ y = q[j] /\ y \in Destroys /\ config.keepAlive
                              /\ StateAt(s, q, j) = "Connected"
    BY <1>7 DEF Answers
  <2>3. s = "Connected"
    BY <2>1 DEF StateAt
  <2>4. i \notin 1..(j - 1) /\ j \notin 1..(i - 1)
    BY <2>1, <2>2, <2>3 DEF StateAt
  <2> QED
    BY <2>1, <2>2, <2>4
<1>8. s = "Disconnected" => Sends(s, q) = {} /\ Answers(s, q) = {}
  BY DEF Sends, Answers, StateAt
<1>9. Answers(s, q) \subseteq Destroys
  BY DEF Answers
<1> QED
  BY <1>3, <1>4, <1>5, <1>6, <1>7, <1>8, <1>9

-----------------------------------------------------------------------------
(* The inductive invariant                                                 *)

LoginPending == LoginActive \/ login = "lost"

\* How the state, the login, the renewals and the drain go together.  This is
\* what QueueHasDrainer lacks to be inductive: an operation is only queued in
\* Connecting or Renewing, and somebody is on the way to leave either.
Shape ==
    /\ state = "Pristine" =>
           login = "idle" /\ InFlight = {} /\ Renewals = 0 /\ queue = <<>>
    /\ LoginPending =>
           state \in {"Connecting", "Disconnected"} /\ InFlight = {} /\ Renewals = 0
    /\ state = "Connecting" => LoginPending
    /\ state = "Renewing" => Renewals > 0
    /\ drainDue => login = "over" /\ state \in {"Connected", "Disconnected"}
    /\ \A x, y \in connector : x = y

OperationsInv == Accounted /\ AtMostOneCall

IInv ==
    /\ TypeOK
    /\ OperationsInv
    /\ QueueHasDrainer
    /\ NoTokensWhenDisconnected
    /\ Shape

\* Accounted, of operations held at given places.
AccountedAt(asked, q, flying, failing, loggingIn, done) ==
    /\ asked = Range(q) \cup flying \cup failing \cup loggingIn \cup done
    /\ \A i, j \in DOMAIN q : q[i] = q[j] => i = j
    /\ Range(q) \cap (flying \cup failing \cup done) = {}
    /\ flying \cap (failing \cup done) = {}
    /\ failing \cap done = {}
    /\ loggingIn \cap (flying \cup failing \cup done) = {}

\* Accounted, said of the places operations can be in.
LEMMA AccountedHere ==
    Accounted <=> AccountedAt(issued, queue, InFlight, ticks, LoggingIn, Answered)
BY DEF Accounted, AccountedAt

\* The same of the places after a step.
LEMMA AccountedThere ==
    Accounted' <=> AccountedAt(issued', queue', InFlight', ticks', LoggingIn', Answered')
BY DEF Accounted, AccountedAt

\* Queued operations, requests and destroys alike, are operations.
LEMMA QueueOfOperations ==
    ASSUME NEW q \in Seq(Requests \cup Destroys)
    PROVE  /\ Range(q) \subseteq Operations
           /\ Range(q) \cap Connects = {}
BY OperationsDisjoint DEF Range, Operations

\* Draining the queue q, with sentNow in flight, in Connected or Disconnected
\* moves every operation of q to the place its state gives it.
LEMMA DrainKeepsOperations ==
    ASSUME TypeOK, AtMostOneCall,
           NEW q \in Seq(Requests \cup Destroys),
           NEW s \in {"Connected", "Disconnected"},
           NEW tok \in BOOLEAN,
           NEW sentNow \in [Operations -> HttpKind],
           AccountedAt(issued, q, {op \in Operations : sentNow[op] # "none"},
                       ticks, LoggingIn, Answered),
           drainOperationQueue(s, tok, q, sentNow),
           UNCHANGED <<issued, login, connector>>
    PROVE  /\ OperationsInv'
           /\ queue' = <<>>
           /\ sent' \in [Operations -> HttpKind]
           /\ ticks' \subseteq Operations
           /\ calls' \in [Operations -> Nat]
           /\ state' \in {"Connected", "Disconnected"}
           /\ tokens' \in BOOLEAN
           /\ (s = "Disconnected" => ~tok) => (state' = "Disconnected" => ~tokens')
           /\ s = "Disconnected" =>
                 /\ state' = "Disconnected"
                 /\ InFlight' = {op \in Operations : sentNow[op] # "none"}
                 /\ UNCHANGED calls
           /\ \/ Answered' = Answered
              \/ \E op \in Range(q) : Answered' = Answered \cup {op}
<1> DEFINE flying == {op \in Operations : sentNow[op] # "none"}
           S == Sends(s, q)
           A == Answers(s, q)
           F == Fails(s, q)
<1>1. /\ \A i, j \in DOMAIN q : q[i] = q[j] => i = j
      /\ issued = Range(q) \cup flying \cup ticks \cup LoggingIn \cup Answered
      /\ Range(q) \cap (flying \cup ticks \cup Answered) = {}
      /\ flying \cap (ticks \cup Answered) = {}
      /\ ticks \cap Answered = {}
      /\ LoggingIn \cap (flying \cup ticks \cup Answered) = {}
  BY DEF AccountedAt
<1>2. /\ Range(q) = S \cup A \cup F
      /\ S \cap A = {} /\ S \cap F = {} /\ A \cap F = {}
      /\ \A x, y \in A : x = y
      /\ s = "Disconnected" => S = {} /\ A = {}
      /\ A \subseteq Destroys
  BY <1>1, DrainSplits
<1>3. /\ queue' = <<>>
      /\ sent' = [op \in Operations |-> IF op \in S THEN TokenOf(tok) ELSE sentNow[op]]
      /\ ticks' = ticks \cup F
      /\ calls' = [op \in Operations |-> IF op \in A THEN calls[op] + 1 ELSE calls[op]]
      /\ state' = IF A # {} THEN "Disconnected" ELSE s
      /\ tokens' = (tok /\ A = {})
  BY DEF drainOperationQueue
<1>4. S \subseteq Operations /\ A \subseteq Operations /\ F \subseteq Operations
  BY <1>2, QueueOfOperations
<1>5. LoggingIn' = LoggingIn /\ LoggingIn \cap Range(q) = {}
  <2>1. LoggingIn \subseteq Connects
    BY DEF LoggingIn, TypeOK
  <2>2. LoggingIn' = LoggingIn
    BY DEF LoggingIn, LoginActive
  <2> QED
    BY <2>1, <2>2, QueueOfOperations
<1> HIDE DEF S, A, F
<1>6. InFlight' = flying \cup S
  BY <1>3, <1>4 DEF InFlight, TokenOf
<1>7. Answered' = Answered \cup A
  BY <1>3, <1>4 DEF Answered, TypeOK
<1>8. AtMostOneCall'
  <2> SUFFICES ASSUME NEW op \in Operations
               PROVE  calls'[op] <= 1
    BY DEF AtMostOneCall
  <2>1. op \in A => calls[op] = 0
    BY <1>1, <1>2, <1>4 DEF Answered, TypeOK
  <2>2. calls[op] \in Nat /\ calls[op] <= 1
    BY DEF TypeOK, AtMostOneCall
  <2> QED
    BY <1>3, <2>1, <2>2
<1>9. Accounted'
  <2>1. Range(queue') = {} /\ DOMAIN queue' = {}
    BY <1>3 DEF Range
  <2>2. AccountedAt(issued', queue', InFlight', ticks', LoggingIn', Answered')
    BY <1>1, <1>2, <1>3, <1>5, <1>6, <1>7, <2>1 DEF AccountedAt
  <2> QED
    BY <2>2, AccountedThere
<1>10. sent' \in [Operations -> HttpKind] /\ ticks' \subseteq Operations /\ calls' \in [Operations -> Nat]
  BY <1>3, <1>4 DEF TypeOK, TokenOf, HttpKind, Tokens
<1>11. state' \in {"Connected", "Disconnected"} /\ tokens' \in BOOLEAN
  BY <1>3
<1>12. (s = "Disconnected" => ~tok) => (state' = "Disconnected" => ~tokens')
  BY <1>3
<1>13. s = "Disconnected" => state' = "Disconnected" /\ InFlight' = flying
  BY <1>2, <1>3, <1>6
<1>14. s = "Disconnected" => UNCHANGED calls
  BY <1>2, <1>3 DEF TypeOK
<1>15. Answered' = Answered \/ \E op \in Range(q) : Answered' = Answered \cup {op}
  <2>1. CASE A = {}
    BY <1>7, <2>1
  <2>2. CASE A # {}
    <3>1. PICK op \in A : TRUE
      BY <2>2
    <3>2. A = {op} /\ op \in Range(q)
      BY <1>2, <3>1
    <3> QED
      BY <1>7, <3>2
  <2> QED
    BY <2>1, <2>2
<1> QED
  BY <1>2, <1>3, <1>7, <1>8, <1>9, <1>10, <1>11, <1>12, <1>13, <1>14, <1>15 DEF OperationsInv

\* A new operation appended to the queue.
LEMMA AppendOperation ==
    ASSUME NEW q \in Seq(Requests \cup Destroys),
           NEW x \in Requests \cup Destroys, x \notin Range(q),
           \A i, j \in DOMAIN q : q[i] = q[j] => i = j
    PROVE  /\ Append(q, x) \in Seq(Requests \cup Destroys)
           /\ Range(Append(q, x)) = Range(q) \cup {x}
           /\ \A i, j \in DOMAIN Append(q, x) : Append(q, x)[i] = Append(q, x)[j] => i = j
<1>1. /\ Append(q, x) \in Seq(Requests \cup Destroys)
      /\ DOMAIN Append(q, x) = 1..(Len(q) + 1)
      /\ DOMAIN q = 1..Len(q)
      /\ Len(q) \in Nat
      /\ Append(q, x)[Len(q) + 1] = x
      /\ \A i \in 1..Len(q) : Append(q, x)[i] = q[i]
  BY AppendProperties
<1>2. \A i \in 1..(Len(q) + 1) : i \in 1..Len(q) \/ i = Len(q) + 1
  BY <1>1
<1>3. 1..Len(q) \subseteq 1..(Len(q) + 1) /\ Len(q) + 1 \in 1..(Len(q) + 1)
  BY <1>1
<1>4. Range(Append(q, x)) = Range(q) \cup {x}
  BY <1>1, <1>2, <1>3 DEF Range
<1>5. \A i \in 1..Len(q) : q[i] # x
  BY <1>1 DEF Range
<1> QED
  BY <1>1, <1>2, <1>4, <1>5

\* A step that leaves the operations and the login where they are.
LEMMA OperationsUnchanged ==
    ASSUME OperationsInv, UNCHANGED opVars, LoggingIn' = LoggingIn
    PROVE  OperationsInv' /\ InFlight' = InFlight
<1>1. /\ issued' = issued /\ queue' = queue /\ ticks' = ticks
      /\ InFlight' = InFlight /\ Answered' = Answered
  BY DEF opVars, InFlight, Answered
<1>2. AccountedAt(issued', queue', InFlight', ticks', LoggingIn', Answered')
  BY <1>1, AccountedHere DEF OperationsInv
<1>3. AtMostOneCall'
  BY DEF OperationsInv, AtMostOneCall, opVars
<1> QED
  BY <1>1, <1>2, <1>3, AccountedThere DEF OperationsInv

\* An operation that is new, or was in flight or waiting for its tick, is answered.
LEMMA OperationAnswered ==
    ASSUME TypeOK, OperationsInv,
           NEW op \in Operations, op \notin Range(queue) \cup LoggingIn \cup Answered,
           issued' = issued \cup {op},
           queue' = queue,
           InFlight' = InFlight \ {op},
           ticks' = ticks \ {op},
           LoggingIn' = LoggingIn,
           calls' = [calls EXCEPT ![op] = @ + 1]
    PROVE  /\ OperationsInv'
           /\ calls' \in [Operations -> Nat]
           /\ Answered' = Answered \cup {op}
<1>1. calls \in [Operations -> Nat] /\ calls[op] = 0
  BY DEF TypeOK, Answered
<1>2. calls' \in [Operations -> Nat] /\ Answered' = Answered \cup {op}
  BY <1>1 DEF Answered
<1>3. AtMostOneCall'
  BY <1>1 DEF OperationsInv, AtMostOneCall
<1>4. AccountedAt(issued, queue, InFlight, ticks, LoggingIn, Answered)
  BY AccountedHere DEF OperationsInv
<1>5. AccountedAt(issued', queue', InFlight', ticks', LoggingIn', Answered')
  BY <1>2, <1>4 DEF AccountedAt
<1> QED
  BY <1>2, <1>3, <1>5, AccountedThere DEF OperationsInv

\* An operation refused by its state, queued, or sent, at the API call.
LEMMA OperationAccepted ==
    ASSUME TypeOK, OperationsInv,
           NEW op \in Operations \ issued,
           issued' = issued \cup {op},
           calls' = calls,
           \/ /\ ticks' = ticks \cup {op}
              /\ UNCHANGED <<queue, InFlight, LoggingIn>>
           \/ /\ queue' = Append(queue, op)
              /\ op \in Requests \cup Destroys
              /\ UNCHANGED <<ticks, InFlight, LoggingIn>>
           \/ /\ InFlight' = InFlight \cup {op}
              /\ UNCHANGED <<queue, ticks, LoggingIn>>
           \/ /\ LoggingIn = {} /\ LoggingIn' = {op}
              /\ UNCHANGED <<queue, ticks, InFlight>>
    PROVE  OperationsInv' /\ Answered' = Answered
<1>1. AtMostOneCall' /\ Answered' = Answered
  BY DEF OperationsInv, AtMostOneCall, Answered
<1>2. AccountedAt(issued, queue, InFlight, ticks, LoggingIn, Answered)
  BY AccountedHere DEF OperationsInv
<1>3. queue \in Seq(Requests \cup Destroys) /\ op \notin Range(queue)
  BY <1>2 DEF TypeOK, AccountedAt
<1>4. CASE ticks' = ticks \cup {op} /\ UNCHANGED <<queue, InFlight, LoggingIn>>
  <2>1. AccountedAt(issued', queue', InFlight', ticks', LoggingIn', Answered')
    BY <1>1, <1>2, <1>4 DEF AccountedAt
  <2> QED
    BY <1>1, <2>1, AccountedThere DEF OperationsInv
<1>5. CASE /\ queue' = Append(queue, op) /\ op \in Requests \cup Destroys
           /\ UNCHANGED <<ticks, InFlight, LoggingIn>>
  <2>1. /\ Range(queue') = Range(queue) \cup {op}
        /\ \A i, j \in DOMAIN queue' : queue'[i] = queue'[j] => i = j
    BY <1>2, <1>3, <1>5, AppendOperation DEF AccountedAt
  <2>2. AccountedAt(issued', queue', InFlight', ticks', LoggingIn', Answered')
    BY <1>1, <1>2, <1>5, <2>1 DEF AccountedAt
  <2> QED
    BY <1>1, <2>2, AccountedThere DEF OperationsInv
<1>6. CASE InFlight' = InFlight \cup {op} /\ UNCHANGED <<queue, ticks, LoggingIn>>
  <2>1. AccountedAt(issued', queue', InFlight', ticks', LoggingIn', Answered')
    BY <1>1, <1>2, <1>6 DEF AccountedAt
  <2> QED
    BY <1>1, <2>1, AccountedThere DEF OperationsInv
<1>7. CASE /\ LoggingIn = {} /\ LoggingIn' = {op}
           /\ UNCHANGED <<queue, ticks, InFlight>>
  <2>1. AccountedAt(issued', queue', InFlight', ticks', LoggingIn', Answered')
    BY <1>1, <1>2, <1>7 DEF AccountedAt
  <2> QED
    BY <1>1, <2>1, AccountedThere DEF OperationsInv
<1> QED
  BY <1>4, <1>5, <1>6, <1>7

\* What a step does to the operations asked for and answered: it accepts one,
\* answers one, or accepts one and answers it at once, or none of this.
AtMostOneMoves ==
    \/ UNCHANGED <<issued, Answered>>
    \/ /\ issued' = issued
       /\ \E op \in issued \ Answered : Answered' = Answered \cup {op}
    \/ \E op \in Operations \ issued :
          /\ issued' = issued \cup {op}
          /\ Answered' = Answered \/ Answered' = Answered \cup {op}

\* Answering a set of at most one operation.
LEMMA AtMostOneTaken ==
    ASSUME issued' = issued,
           NEW taken, taken \subseteq issued \ Answered,
           \A x, y \in taken : x = y,
           Answered' = Answered \cup taken
    PROVE  AtMostOneMoves
<1>1. CASE taken = {}
  BY <1>1 DEF AtMostOneMoves
<1>2. CASE taken # {}
  <2>1. PICK op \in taken : TRUE
    BY <1>2
  <2>2. taken = {op}
    BY <2>1
  <2> QED
    BY <2>1, <2>2 DEF AtMostOneMoves
<1> QED
  BY <1>1, <1>2

-----------------------------------------------------------------------------
(* Every action preserves the invariant                                    *)

\* What QueueHasDrainer, NoTokensWhenDisconnected and Shape together say.
Frame == QueueHasDrainer /\ NoTokensWhenDisconnected /\ Shape

\* The login in progress, seen through LoggingIn.
LEMMA SameLogin ==
    ASSUME UNCHANGED <<login, connector>>
    PROVE  LoggingIn' = LoggingIn /\ LoginActive' = LoginActive /\ LoginPending' = LoginPending
BY DEF LoggingIn, LoginActive, LoginPending

\* Sending an operation, or receiving its response, changes InFlight by it.
LEMMA FlightChanges ==
    ASSUME TypeOK, NEW op \in Operations
    PROVE  /\ \A k \in HttpKind \ {"none"} :
                 sent' = [sent EXCEPT ![op] = k] => InFlight' = InFlight \cup {op}
           /\ sent' = [sent EXCEPT ![op] = "none"] => InFlight' = InFlight \ {op}
           /\ sent' = sent => InFlight' = InFlight
BY DEF TypeOK, InFlight

\* A step that leaves the state, the login and the renewals alone, and queues
\* operations only in Connecting or Renewing.
LEMMA FrameUnchanged ==
    ASSUME Frame,
           UNCHANGED <<state, tokens, login, connector, renewals, drainDue>>,
           state \in {"Pristine", "Connecting", "Renewing"} => InFlight' \subseteq InFlight,
           LoginPending => InFlight' \subseteq InFlight,
           queue' = queue \/ state \in {"Connecting", "Renewing"}
    PROVE  Frame'
<1> USE DEF Frame
<1>1. /\ LoginActive' = LoginActive /\ LoginPending' = LoginPending /\ Renewals' = Renewals
  BY SameLogin DEF Renewals
<1>2. NoTokensWhenDisconnected'
  BY DEF NoTokensWhenDisconnected
<1>3. QueueHasDrainer'
  <2>1. CASE queue' = queue
    BY <1>1, <2>1 DEF QueueHasDrainer
  <2>2. CASE state \in {"Connecting", "Renewing"}
    BY <1>1, <2>2 DEF QueueHasDrainer, Shape, LoginPending, Renewals
  <2> QED
    BY <2>1, <2>2
<1>4. Shape'
  BY <1>1 DEF Shape
<1> QED
  BY <1>2, <1>3, <1>4

\* connect(): the first one starts the login, any other is refused.
LEMMA connectInv ==
    ASSUME IInv, NEW c \in Connects, connect(c)
    PROVE  IInv' /\ Answered' = Answered
<1> USE DEF IInv
<1>1. c \in Operations \ issued
  BY DEF connect, Operations
<1>2. CASE state = "Pristine"
  <2>1. /\ state' = "Connecting" /\ login' = "sent" /\ connector' = {c} /\ numRetries' = 0
        /\ UNCHANGED <<tokens, queue, sent, ticks, calls, renewals, config, drainDue, rejections>>
        /\ issued' = issued \cup {c}
    BY <1>2 DEF connect
  <2>2. LoggingIn = {} /\ LoggingIn' = {c}
    BY <1>2, <2>1 DEF LoggingIn, LoginActive, Shape
  <2>3. InFlight' = InFlight
    BY <1>1, <2>1, FlightChanges
  <2>4. OperationsInv' /\ Answered' = Answered
    BY <1>1, <2>1, <2>2, <2>3, OperationAccepted
  <2>5. TypeOK'
    BY <1>1, <2>1, ConstantsAssumption DEF TypeOK, States, LoginAt
  <2>6. Frame'
    BY <1>2, <2>1, <2>3
    DEF Frame, QueueHasDrainer, NoTokensWhenDisconnected, Shape, LoginPending, LoginActive, Renewals
  <2> QED
    BY <2>4, <2>5, <2>6 DEF Frame
<1>3. CASE state # "Pristine"
  <2>1. /\ ticks' = ticks \cup {c}
        /\ UNCHANGED <<state, tokens, queue, sent, calls, login, connector, numRetries, renewals,
                       config, drainDue, rejections>>
        /\ issued' = issued \cup {c}
    BY <1>3 DEF connect, FailOnNextTick, loginVars
  <2>2. LoggingIn' = LoggingIn /\ InFlight' = InFlight
    BY <1>1, <2>1, FlightChanges, SameLogin
  <2>3. OperationsInv' /\ Answered' = Answered
    BY <1>1, <2>1, <2>2, OperationAccepted
  <2>4. TypeOK'
    BY <1>1, <2>1 DEF TypeOK
  <2>5. Frame'
    BY <2>1, <2>2, FrameUnchanged DEF Frame
  <2> QED
    BY <2>3, <2>4, <2>5 DEF Frame
<1> QED
  BY <1>2, <1>3

\* request() and destroy() share their refusals and their place in the queue.
LEMMA RefusedOrQueued ==
    ASSUME IInv, NEW op \in (Requests \cup Destroys) \ issued,
           issued' = issued \cup {op},
           UNCHANGED <<config, drainDue, rejections>>,
           \/ FailOnNextTick(op)
           \/ state \in {"Connecting", "Renewing"} /\ Enqueue(op)
    PROVE  IInv' /\ Answered' = Answered
<1> USE DEF IInv
<1>1. op \in Operations
  BY DEF Operations
<1>2. /\ UNCHANGED <<state, tokens, sent, calls, login, connector, numRetries, renewals,
                     config, drainDue, rejections>>
      /\ issued' = issued \cup {op}
  BY DEF FailOnNextTick, Enqueue, loginVars
<1>3. LoggingIn' = LoggingIn /\ InFlight' = InFlight
  BY <1>1, <1>2, FlightChanges, SameLogin
<1>4. CASE FailOnNextTick(op)
  <2>1. ticks' = ticks \cup {op} /\ queue' = queue
    BY <1>4 DEF FailOnNextTick
  <2>2. OperationsInv' /\ Answered' = Answered
    BY <1>1, <1>2, <1>3, <2>1, OperationAccepted
  <2>3. TypeOK'
    BY <1>1, <1>2, <2>1 DEF TypeOK
  <2>4. Frame'
    BY <1>2, <1>3, <2>1, FrameUnchanged DEF Frame
  <2> QED
    BY <2>2, <2>3, <2>4 DEF Frame
<1>5. CASE state \in {"Connecting", "Renewing"} /\ Enqueue(op)
  <2>1. ticks' = ticks /\ queue' = Append(queue, op)
    BY <1>5 DEF Enqueue
  <2>2. OperationsInv' /\ Answered' = Answered
    BY <1>1, <1>2, <1>3, <2>1, OperationAccepted
  <2>3. queue' \in Seq(Requests \cup Destroys)
    BY <2>1 DEF TypeOK
  <2>4. TypeOK'
    BY <1>1, <1>2, <2>1, <2>3 DEF TypeOK
  <2>5. Frame'
    BY <1>2, <1>3, <1>5, FrameUnchanged DEF Frame
  <2> QED
    BY <2>2, <2>4, <2>5 DEF Frame
<1> QED
  BY <1>4, <1>5

\* StateConnected sends the operation out.
LEMMA SentOut ==
    ASSUME IInv, NEW op \in (Requests \cup Destroys) \ issued,
           state = "Connected",
           issued' = issued \cup {op},
           sent' = [sent EXCEPT ![op] = TokenOf(tokens)],
           UNCHANGED <<state, tokens, queue, ticks, calls, loginVars, renewals,
                       config, drainDue, rejections>>
    PROVE  IInv' /\ Answered' = Answered
<1> USE DEF IInv
<1>1. op \in Operations
  BY DEF Operations
<1>2. TokenOf(tokens) \in HttpKind \ {"none"}
  BY DEF TokenOf, HttpKind, Tokens
<1>3. InFlight' = InFlight \cup {op}
  BY <1>1, <1>2, FlightChanges
<1>4. LoggingIn' = LoggingIn
  BY SameLogin DEF loginVars
<1>5. OperationsInv' /\ Answered' = Answered
  BY <1>1, <1>3, <1>4, OperationAccepted
<1>6. TypeOK'
  BY <1>1, <1>2 DEF TypeOK, loginVars
<1>7. Frame'
  BY DEF Frame, QueueHasDrainer, NoTokensWhenDisconnected, Shape, LoginPending, LoginActive,
         Renewals, loginVars
<1> QED
  BY <1>5, <1>6, <1>7 DEF Frame

\* request() is refused, queued or sent out.
LEMMA requestInv ==
    ASSUME IInv, NEW r \in Requests, request(r)
    PROVE  IInv' /\ Answered' = Answered
BY RefusedOrQueued, SentOut DEF request

\* destroy() is refused, queued, sent out, or disconnects by itself.
LEMMA destroyInv ==
    ASSUME IInv, NEW d \in Destroys, destroy(d)
    PROVE  /\ IInv'
           /\ d \notin issued
           /\ issued' = issued \cup {d}
           /\ Answered' = Answered \/ Answered' = Answered \cup {d}
<1> USE DEF IInv
<1>1. d \in (Requests \cup Destroys) \ issued /\ issued' = issued \cup {d}
  BY DEF destroy
<1>2. CASE ~(state = "Connected" /\ config.keepAlive)
  BY <1>1, <1>2, RefusedOrQueued, SentOut DEF destroy
<1>3. CASE state = "Connected" /\ config.keepAlive
  <2>1. /\ state' = "Disconnected" /\ tokens' = FALSE
        /\ calls' = [calls EXCEPT ![d] = @ + 1]
        /\ UNCHANGED <<queue, sent, ticks, login, connector, numRetries, renewals,
                       config, drainDue, rejections>>
    BY <1>3 DEF destroy, FailOnNextTick, Enqueue, loginVars
  <2>2. d \in Operations
    BY DEF Operations
  <2>3. d \notin Range(queue) \cup LoggingIn \cup Answered \cup InFlight \cup ticks
    BY <1>1, AccountedHere DEF OperationsInv, AccountedAt
  <2>4. /\ LoggingIn' = LoggingIn
        /\ InFlight' = InFlight /\ InFlight' = InFlight \ {d} /\ ticks' = ticks \ {d}
    BY <2>1, <2>2, <2>3, FlightChanges, SameLogin
  <2>5. OperationsInv' /\ calls' \in [Operations -> Nat] /\ Answered' = Answered \cup {d}
    BY <1>1, <2>1, <2>2, <2>3, <2>4, OperationAnswered
  <2>6. TypeOK'
    BY <1>1, <2>1, <2>2, <2>5 DEF TypeOK, States
  <2>7. Frame'
    BY <1>3, <2>1, <2>4
    DEF Frame, QueueHasDrainer, NoTokensWhenDisconnected, Shape, LoginPending, LoginActive, Renewals
  <2> QED
    BY <1>1, <2>5, <2>6, <2>7 DEF Frame
<1> QED
  BY <1>2, <1>3

\* The error callback of a refused operation.
LEMMA nextTickInv ==
    ASSUME IInv, NEW op \in Operations, nextTick(op)
    PROVE  IInv' /\ op \in issued \ Answered /\ Answered' = Answered \cup {op}
<1> USE DEF IInv
<1>1. /\ op \in ticks /\ ticks' = ticks \ {op}
      /\ calls' = [calls EXCEPT ![op] = @ + 1]
      /\ UNCHANGED <<config, state, tokens, queue, issued, sent, login, connector, numRetries,
                     renewals, drainDue, rejections>>
  BY DEF nextTick, loginVars
<1>2. /\ op \in issued
      /\ op \notin Range(queue) \cup LoggingIn \cup Answered \cup InFlight
  BY <1>1, AccountedHere DEF OperationsInv, AccountedAt
<1>3. /\ LoggingIn' = LoggingIn
      /\ InFlight' = InFlight /\ InFlight' = InFlight \ {op} /\ issued' = issued \cup {op}
  BY <1>1, <1>2, FlightChanges, SameLogin
<1>4. OperationsInv' /\ calls' \in [Operations -> Nat] /\ Answered' = Answered \cup {op}
  BY <1>1, <1>2, <1>3, OperationAnswered
<1>5. TypeOK'
  BY <1>1, <1>4 DEF TypeOK
<1>6. Frame'
  BY <1>1, <1>3, FrameUnchanged DEF Frame
<1> QED
  BY <1>2, <1>4, <1>5, <1>6 DEF Frame

\* A step of the login that is not its end.
LEMMA LoginMoves ==
    ASSUME IInv, LoginActive, ~drainDue,
           UNCHANGED <<config, opVars, connector, renewals, drainDue>>,
           login' \in {"sent", "rejected", "storing", "reauth", "sleeping", "lost"},
           \/ state' = state /\ tokens' \in BOOLEAN
           \/ state' = "Disconnected" /\ tokens' = FALSE,
           numRetries' \in 0..MaxLoginRetries,
           rejections' \in 0..MaxRejections
    PROVE  IInv' /\ Answered' = Answered
<1> USE DEF IInv
<1>1. LoggingIn' = LoggingIn /\ LoginPending /\ LoginPending'
  BY DEF LoggingIn, LoginActive, LoginPending
<1>2. OperationsInv' /\ InFlight' = InFlight
  BY <1>1, OperationsUnchanged
<1>3. TypeOK'
  BY DEF TypeOK, opVars, LoginAt, States
<1>4. NoTokensWhenDisconnected' /\ QueueHasDrainer'
  BY <1>1 DEF NoTokensWhenDisconnected, QueueHasDrainer, LoginPending
<1>5. Shape'
  <2>1. state' \in {"Connecting", "Disconnected"}
    BY <1>1 DEF Shape
  <2>2. Renewals' = Renewals
    BY DEF Renewals
  <2> QED
    BY <1>1, <1>2, <2>1, <2>2 DEF Shape
<1>6. Answered' = Answered
  BY DEF Answered, opVars
<1> QED
  BY <1>2, <1>3, <1>4, <1>5, <1>6

\* The end of the login.
LEMMA LoginEnds ==
    ASSUME IInv, LoginActive,
           NEW s \in {"Connected", "Disconnected"}, NEW tok \in BOOLEAN,
           s = "Disconnected" => ~tok,
           InvokeConnectCallback(s, tok)
    PROVE  /\ IInv'
           /\ connector \subseteq issued \ Answered
           /\ Answered' = Answered \cup connector
<1> USE DEF IInv
<1>1. LoggingIn = connector /\ LoggingIn' = {}
  BY DEF LoggingIn, LoginActive, InvokeConnectCallback
<1>2. AccountedAt(issued, queue, InFlight, ticks, LoggingIn, Answered)
  BY AccountedHere DEF OperationsInv
<1>3. connector \subseteq issued \ Answered
  BY <1>1, <1>2 DEF AccountedAt
<1>4. connector \subseteq Operations /\ calls \in [Operations -> Nat]
  BY DEF TypeOK, Operations
<1>5. calls' = [op \in Operations |-> IF op \in connector THEN calls[op] + 1 ELSE calls[op]]
  BY DEF InvokeConnectCallback
<1>6. calls' \in [Operations -> Nat] /\ Answered' = Answered \cup connector
  BY <1>4, <1>5 DEF Answered
<1>7. AtMostOneCall'
  BY <1>3, <1>4, <1>5 DEF OperationsInv, AtMostOneCall, Answered
<1>8. UNCHANGED <<issued, queue, ticks, sent>> /\ InFlight' = InFlight
  BY DEF InvokeConnectCallback, InFlight
<1>9. AccountedAt(issued', queue', InFlight', ticks', LoggingIn', Answered')
  <2>1. /\ connector \cap (InFlight \cup ticks) = {}
        /\ connector \cap Range(queue) = {}
    <3>1. Range(queue) \cap Connects = {}
      BY QueueOfOperations DEF TypeOK
    <3> QED
      BY <1>1, <1>2, <3>1 DEF AccountedAt, TypeOK
  <2> QED
    BY <1>1, <1>2, <1>6, <1>8, <2>1 DEF AccountedAt
<1>10. OperationsInv'
  BY <1>7, <1>9, AccountedThere DEF OperationsInv
<1>11. TypeOK'
  BY <1>6 DEF TypeOK, InvokeConnectCallback, LoginAt, States
<1>12. QueueHasDrainer' /\ NoTokensWhenDisconnected'
  BY DEF QueueHasDrainer, NoTokensWhenDisconnected, InvokeConnectCallback
<1>13. Shape'
  BY DEF Shape, LoginPending, LoginActive, InvokeConnectCallback
<1> QED
  BY <1>3, <1>6, <1>10, <1>11, <1>12, <1>13

\* A failed login attempt: another retry, or the end of the login.
LEMMA RetryOrGiveUp ==
    ASSUME IInv, LoginActive, ~drainDue, RetryLogin \/ GiveUpLogin
    PROVE  /\ IInv'
           /\ \/ Answered' = Answered
              \/ connector \subseteq issued \ Answered /\ Answered' = Answered \cup connector
<1>1. CASE RetryLogin
  <2>1. /\ UNCHANGED <<config, opVars, connector, renewals, drainDue, rejections>>
        /\ login' \in {"reauth", "sleeping"}
        /\ \/ state' = state /\ tokens' = tokens
           \/ state' = "Disconnected" /\ tokens' = FALSE
    BY <1>1 DEF RetryLogin
  <2>2. numRetries' \in 0..MaxLoginRetries /\ rejections' \in 0..MaxRejections /\ tokens \in BOOLEAN
    BY <1>1, <2>1, ConstantsAssumption DEF RetryLogin, IInv, TypeOK
  <2> QED
    BY <2>1, <2>2, LoginMoves
<1>2. CASE GiveUpLogin
  BY <1>2, LoginEnds DEF GiveUpLogin
<1> QED
  BY <1>1, <1>2

\* Every callback of the login before its drain.
LEMMA LoginStepInv ==
    ASSUME IInv, LoginStep, ~drainDue
    PROVE  /\ IInv'
           /\ issued' = issued
           /\ \/ Answered' = Answered
              \/ connector \subseteq issued \ Answered /\ Answered' = Answered \cup connector
<1>1. CASE loginFailed \/ credentialStoreFailed \/ tokenNotReplaced
  <2>1. LoginActive /\ (RetryLogin \/ GiveUpLogin)
    BY <1>1 DEF loginFailed, credentialStoreFailed, tokenNotReplaced, LoginActive
  <2>2. issued' = issued
    BY <2>1 DEF RetryLogin, GiveUpLogin, InvokeConnectCallback, opVars
  <2> QED
    BY <2>1, <2>2, RetryOrGiveUp
<1>2. CASE credentialStored
  <2>1. LoginActive /\ InvokeConnectCallback("Connected", TRUE)
    BY <1>2 DEF credentialStored, LoginActive
  <2>2. issued' = issued
    BY <2>1 DEF InvokeConnectCallback
  <2> QED
    BY <2>1, <2>2, LoginEnds
<1>3. CASE \/ loginSucceeded \/ loginTokenRejected \/ tokenReplaced
           \/ reauthenticated \/ reauthenticationThrows \/ sendLoginAgain
  <2> USE DEF loginSucceeded, loginTokenRejected, tokenReplaced, reauthenticated,
              reauthenticationThrows, sendLoginAgain
  <2>1. LoginActive
    BY <1>3 DEF LoginActive
  <2>2. UNCHANGED <<config, opVars, connector, renewals, drainDue>>
    BY <1>3
  <2>3. login' \in {"sent", "rejected", "storing", "reauth", "sleeping", "lost"}
    BY <1>3
  <2>4. state' = state /\ tokens' \in BOOLEAN
    BY <1>3 DEF IInv, TypeOK
  <2>5. numRetries' \in 0..MaxLoginRetries
    BY <1>3, ConstantsAssumption DEF IInv, TypeOK
  <2>6. rejections' \in 0..MaxRejections
    BY <1>3, ConstantsAssumption DEF IInv, TypeOK
  <2>7. issued' = issued
    BY <2>2 DEF opVars
  <2> HIDE DEF loginSucceeded, loginTokenRejected, tokenReplaced, reauthenticated,
               reauthenticationThrows, sendLoginAgain
  <2> QED
    BY <2>1, <2>2, <2>3, <2>4, <2>5, <2>6, <2>7, LoginMoves
<1>4. ~drainAfterLogin
  BY DEF drainAfterLogin
<1> QED
  BY <1>1, <1>2, <1>3, <1>4 DEF LoginStep

\* The frame after a drain: the queue is empty, and the state is one in which
\* nothing is queued.
LEMMA FrameAfterDrain ==
    ASSUME queue' = <<>>,
           state' \in {"Connected", "Disconnected"},
           state' = "Disconnected" => ~tokens',
           ~LoginPending', ~drainDue',
           \A x, y \in connector' : x = y
    PROVE  Frame'
BY DEF Frame, QueueHasDrainer, NoTokensWhenDisconnected, Shape

\* The drain behind the connect callback meets the state that API calls made
\* from within that callback have left.
LEMMA drainAfterLoginInv ==
    ASSUME IInv, drainAfterLogin
    PROVE  /\ IInv'
           /\ issued' = issued
           /\ state = "Disconnected" => state' = "Disconnected"
           /\ AtMostOneMoves
<1> USE DEF IInv
<1>1. /\ drainDue /\ drainDue' = FALSE
      /\ drainOperationQueue(state, tokens, queue, sent)
      /\ UNCHANGED <<config, issued, login, connector, numRetries, renewals, rejections>>
  BY DEF drainAfterLogin, loginVars
<1>2. login = "over" /\ state \in {"Connected", "Disconnected"}
  BY <1>1 DEF Shape
<1>3. state = "Disconnected" => ~tokens
  BY <1>2 DEF NoTokensWhenDisconnected
<1>4. AccountedAt(issued, queue, {op \in Operations : sent[op] # "none"},
                  ticks, LoggingIn, Answered)
  BY AccountedHere DEF OperationsInv, InFlight
<1>5. /\ queue \in Seq(Requests \cup Destroys) /\ tokens \in BOOLEAN
      /\ sent \in [Operations -> HttpKind] /\ AtMostOneCall
  BY DEF TypeOK, OperationsInv
<1>6. /\ OperationsInv'
      /\ queue' = <<>>
      /\ sent' \in [Operations -> HttpKind]
      /\ ticks' \subseteq Operations
      /\ calls' \in [Operations -> Nat]
      /\ state' \in {"Connected", "Disconnected"}
      /\ tokens' \in BOOLEAN
      /\ state' = "Disconnected" => ~tokens'
      /\ state = "Disconnected" => state' = "Disconnected"
      /\ \/ Answered' = Answered
         \/ \E op \in Range(queue) : Answered' = Answered \cup {op}
  BY <1>1, <1>2, <1>3, <1>4, <1>5, DrainKeepsOperations
<1>7. TypeOK'
  BY <1>1, <1>6, EmptySeq DEF TypeOK, States
<1>8. ~LoginPending' /\ \A x, y \in connector' : x = y
  BY <1>1, <1>2 DEF LoginPending, LoginActive, Shape
<1>9. Frame'
  BY <1>1, <1>6, <1>8, FrameAfterDrain
<1>10. AtMostOneMoves
  <2>1. Range(queue) \subseteq issued \ Answered
    BY <1>4 DEF AccountedAt
  <2> QED
    BY <1>1, <1>6, <2>1 DEF AtMostOneMoves
<1> QED
  BY <1>1, <1>6, <1>7, <1>9, <1>10 DEF Frame

\* While a request is in flight no login is pending.
LEMMA NoLoginInFlight ==
    ASSUME IInv, NEW op \in Operations, sent[op] # "none"
    PROVE  /\ ~LoginPending /\ state # "Pristine" /\ state # "Connecting"
           /\ op \in issued \ Answered
           /\ op \notin Range(queue) \cup ticks \cup LoggingIn
<1> USE DEF IInv
<1>1. op \in InFlight
  BY DEF InFlight
<1>2. AccountedAt(issued, queue, InFlight, ticks, LoggingIn, Answered)
  BY AccountedHere DEF OperationsInv
<1> QED
  BY <1>1, <1>2 DEF Shape, AccountedAt

\* A response that only answers its operation.
LEMMA ResponseAnswers ==
    ASSUME IInv, NEW op \in Operations, sent[op] # "none", ~drainDue,
           sent' = [sent EXCEPT ![op] = "none"],
           calls' = [calls EXCEPT ![op] = @ + 1],
           UNCHANGED <<config, queue, issued, ticks, loginVars, renewals, drainDue, rejections>>,
           \/ UNCHANGED <<state, tokens>>
           \/ state' = "Disconnected" /\ tokens' = FALSE
    PROVE  IInv' /\ op \in issued \ Answered /\ Answered' = Answered \cup {op}
<1> USE DEF IInv
<1>1. /\ ~LoginPending /\ state # "Pristine" /\ state # "Connecting"
      /\ op \in issued \ Answered
      /\ op \notin Range(queue) \cup ticks \cup LoggingIn
  BY NoLoginInFlight
<1>2. /\ InFlight' = InFlight \ {op} /\ issued' = issued \cup {op} /\ ticks' = ticks \ {op}
      /\ queue' = queue
  BY <1>1, FlightChanges
<1>3. /\ LoggingIn' = LoggingIn /\ LoginActive' = LoginActive /\ LoginPending' = LoginPending
  BY SameLogin DEF loginVars
<1>4. OperationsInv' /\ calls' \in [Operations -> Nat] /\ Answered' = Answered \cup {op}
  BY <1>1, <1>2, <1>3, OperationAnswered
<1>5. sent' \in [Operations -> HttpKind]
  BY DEF TypeOK, HttpKind, Tokens
<1>6. TypeOK'
  BY <1>4, <1>5 DEF TypeOK, States, loginVars
<1>7. QueueHasDrainer'
  BY <1>3 DEF QueueHasDrainer, Renewals, loginVars
<1>8. NoTokensWhenDisconnected'
  BY DEF NoTokensWhenDisconnected, loginVars
<1>9. Shape'
  BY <1>1, <1>3 DEF Shape, Renewals, loginVars
<1> QED
  BY <1>1, <1>4, <1>6, <1>7, <1>8, <1>9

\* A request whose token has expired goes back to the queue, for a renewal that is
\* in flight already or starts now.
LEMMA sessionTokenExpiredInv ==
    ASSUME IInv, NEW r \in Requests, sessionTokenExpired(r)
    PROVE  IInv' /\ issued' = issued /\ Answered' = Answered
<1> USE DEF IInv
<1>1. /\ ~drainDue /\ sent[r] # "none" /\ r \in Operations
      /\ rejections' = rejections + 1 /\ rejections < MaxRejections
      /\ sent' = [sent EXCEPT ![r] = "none"]
      /\ queue' = Append(queue, r)
      /\ state' = "Renewing"
      /\ renewals' = IF state = "Renewing" THEN renewals ELSE [renewals EXCEPT ![TokenOf(tokens)] = @ + 1]
      /\ UNCHANGED <<config, tokens, issued, ticks, calls, login, connector, numRetries, drainDue>>
  BY DEF sessionTokenExpired, transitionToRenewing, loginVars, Operations
<1>2. /\ ~LoginPending /\ r \in issued \ Answered
      /\ r \notin Range(queue) \cup ticks \cup LoggingIn
  BY <1>1, NoLoginInFlight
<1>3. /\ InFlight' = InFlight \ {r} /\ LoggingIn' = LoggingIn /\ LoginPending' = LoginPending
  BY <1>1, FlightChanges, SameLogin
<1>4. Answered' = Answered /\ AtMostOneCall'
  BY <1>1 DEF Answered, AtMostOneCall, OperationsInv
<1>5. AccountedAt(issued, queue, InFlight, ticks, LoggingIn, Answered)
  BY AccountedHere DEF OperationsInv
<1>6. /\ queue' \in Seq(Requests \cup Destroys)
      /\ Range(queue') = Range(queue) \cup {r}
      /\ \A i, j \in DOMAIN queue' : queue'[i] = queue'[j] => i = j
  <2>1. queue \in Seq(Requests \cup Destroys) /\ r \in Requests \cup Destroys
    BY DEF TypeOK
  <2> QED
    BY <1>1, <1>2, <1>5, <2>1, AppendOperation DEF AccountedAt
<1>7. r \in InFlight
  BY <1>1 DEF InFlight
<1>8. AccountedAt(issued', queue', InFlight', ticks', LoggingIn', Answered')
  BY <1>1, <1>2, <1>3, <1>4, <1>5, <1>6, <1>7 DEF AccountedAt
<1>9. OperationsInv'
  BY <1>4, <1>8, AccountedThere DEF OperationsInv
<1>10. renewals' \in [Tokens -> Nat] /\ Renewals' > 0
  <2>1. renewals \in [Tokens -> Nat] /\ TokenOf(tokens) \in Tokens
    BY DEF TypeOK, TokenOf, Tokens
  <2>2. CASE state = "Renewing"
    BY <1>1, <2>1, <2>2 DEF Shape, Renewals, Tokens
  <2>3. CASE state # "Renewing"
    BY <1>1, <2>1, <2>3 DEF Renewals, Tokens
  <2> QED
    BY <2>2, <2>3
<1>11. sent' \in [Operations -> HttpKind]
  BY <1>1 DEF TypeOK, HttpKind, Tokens
<1>12. TypeOK'
  BY <1>1, <1>6, <1>10, <1>11, ConstantsAssumption DEF TypeOK, States
<1>13. QueueHasDrainer'
  BY <1>10 DEF QueueHasDrainer, Renewals
<1>14. NoTokensWhenDisconnected'
  BY <1>1 DEF NoTokensWhenDisconnected
<1>15. Shape'
  BY <1>1, <1>2, <1>3, <1>10 DEF Shape
<1> QED
  BY <1>1, <1>4, <1>9, <1>12, <1>13, <1>14, <1>15

\* The loss of the session fails the request and all that is queued.
LEMMA sessionGoneInv ==
    ASSUME IInv, NEW r \in Requests, sessionGone(r)
    PROVE  IInv' /\ issued' = issued /\ Answered' = Answered
<1> USE DEF IInv
<1> DEFINE q == Append(queue, r)
           now == [sent EXCEPT ![r] = "none"]
<1>1. /\ ~drainDue /\ sent[r] # "none" /\ r \in Operations
      /\ drainOperationQueue("Disconnected", FALSE, q, now)
      /\ UNCHANGED <<config, issued, login, connector, numRetries, renewals, drainDue, rejections>>
  BY DEF sessionGone, loginVars, Operations
<1>2. /\ ~LoginPending /\ r \in issued \ Answered
      /\ r \notin Range(queue) \cup ticks \cup LoggingIn
  BY <1>1, NoLoginInFlight
<1>3. AccountedAt(issued, queue, InFlight, ticks, LoggingIn, Answered)
  BY AccountedHere DEF OperationsInv
<1>4. /\ q \in Seq(Requests \cup Destroys)
      /\ Range(q) = Range(queue) \cup {r}
      /\ \A i, j \in DOMAIN q : q[i] = q[j] => i = j
  <2>1. queue \in Seq(Requests \cup Destroys) /\ r \in Requests \cup Destroys
    BY DEF TypeOK
  <2> QED
    BY <1>2, <1>3, <2>1, AppendOperation DEF AccountedAt
<1>5. now \in [Operations -> HttpKind]
  BY <1>1 DEF TypeOK, HttpKind, Tokens
<1>6. {op \in Operations : now[op] # "none"} = InFlight \ {r} /\ r \in InFlight
  BY <1>1 DEF TypeOK, InFlight
<1> HIDE DEF q, now
<1>7. AccountedAt(issued, q, {op \in Operations : now[op] # "none"}, ticks, LoggingIn, Answered)
  <2>1. AccountedAt(issued, q, InFlight \ {r}, ticks, LoggingIn, Answered)
    BY <1>2, <1>3, <1>4, <1>6 DEF AccountedAt
  <2> QED
    BY <1>6, <2>1
<1>8. TypeOK /\ AtMostOneCall
  BY DEF OperationsInv
<1>9. /\ OperationsInv'
      /\ queue' = <<>>
      /\ sent' \in [Operations -> HttpKind]
      /\ ticks' \subseteq Operations
      /\ calls' \in [Operations -> Nat]
      /\ state' \in {"Connected", "Disconnected"}
      /\ tokens' \in BOOLEAN
      /\ state' = "Disconnected" => ~tokens'
      /\ calls' = calls
  BY <1>1, <1>4, <1>5, <1>7, <1>8, DrainKeepsOperations
<1>10. TypeOK'
  BY <1>1, <1>8, <1>9, EmptySeq DEF TypeOK, States
<1>11. ~LoginPending' /\ \A x, y \in connector' : x = y
  BY <1>1, <1>2, SameLogin DEF Shape
<1>12. Frame'
  BY <1>1, <1>9, <1>11, FrameAfterDrain
<1>13. Answered' = Answered
  BY <1>9 DEF Answered
<1> QED
  BY <1>1, <1>9, <1>10, <1>12, <1>13 DEF Frame

\* The end of a renewal, in whatever state it finds the service.
LEMMA FinishRenewalInv ==
    ASSUME IInv,
           NEW token \in Tokens,
           NEW s \in {"Connected", "Disconnected"},
           NEW tok \in BOOLEAN,
           s = "Disconnected" => ~tok,
           FinishRenewal(token, s, tok)
    PROVE  /\ IInv'
           /\ issued' = issued
           /\ AtMostOneMoves
<1> USE DEF IInv
<1>1. /\ ~drainDue /\ renewals[token] > 0
      /\ renewals' = [renewals EXCEPT ![token] = @ - 1]
      /\ drainOperationQueue(s, tok, queue, sent)
      /\ UNCHANGED <<config, issued, login, connector, numRetries, drainDue, rejections>>
  BY DEF FinishRenewal, loginVars
<1>2. renewals' \in [Tokens -> Nat] /\ Renewals > 0
  BY <1>1 DEF TypeOK, Renewals, Tokens
<1>3. ~LoginPending
  BY <1>2 DEF Shape
<1>4. AccountedAt(issued, queue, {op \in Operations : sent[op] # "none"},
                  ticks, LoggingIn, Answered)
  BY AccountedHere DEF OperationsInv, InFlight
<1>5. /\ queue \in Seq(Requests \cup Destroys) /\ TypeOK
      /\ sent \in [Operations -> HttpKind] /\ AtMostOneCall
  BY DEF TypeOK, OperationsInv
<1>6. /\ OperationsInv'
      /\ queue' = <<>>
      /\ sent' \in [Operations -> HttpKind]
      /\ ticks' \subseteq Operations
      /\ calls' \in [Operations -> Nat]
      /\ state' \in {"Connected", "Disconnected"}
      /\ tokens' \in BOOLEAN
      /\ state' = "Disconnected" => ~tokens'
      /\ \/ Answered' = Answered
         \/ \E op \in Range(queue) : Answered' = Answered \cup {op}
  BY <1>1, <1>4, <1>5, DrainKeepsOperations
<1>7. TypeOK'
  BY <1>1, <1>2, <1>5, <1>6, EmptySeq DEF TypeOK, States
<1>8. ~LoginPending' /\ \A x, y \in connector' : x = y
  BY <1>1, <1>3, SameLogin DEF Shape
<1>9. Frame'
  BY <1>1, <1>6, <1>8, FrameAfterDrain
<1>10. AtMostOneMoves
  <2>1. Range(queue) \subseteq issued \ Answered
    BY <1>4 DEF AccountedAt
  <2> QED
    BY <1>1, <1>6, <2>1 DEF AtMostOneMoves
<1> QED
  BY <1>1, <1>6, <1>7, <1>9, <1>10 DEF Frame

-----------------------------------------------------------------------------
(* The specification                                                       *)

\* The constructor establishes the invariant, with tokens and without.
LEMMA InitIInv == Init => IInv
<1> SUFFICES ASSUME Init PROVE IInv
  OBVIOUS
<1> USE DEF Init
<1>1. TypeOK
  <2>1. config.resume \in BOOLEAN
    OBVIOUS
  <2>2. tokens \in BOOLEAN /\ drainDue \in BOOLEAN /\ state \in States /\ login \in LoginAt
    BY <2>1 DEF States, LoginAt
  <2>3. queue \in Seq(Requests \cup Destroys)
    BY EmptySeq
  <2>4. sent \in [Operations -> HttpKind] /\ calls \in [Operations -> Nat] /\ renewals \in [Tokens -> Nat]
    BY DEF HttpKind
  <2>5. numRetries \in 0..MaxLoginRetries /\ rejections \in 0..MaxRejections
    BY ConstantsAssumption
  <2> QED
    BY <2>2, <2>3, <2>4, <2>5 DEF TypeOK
<1>2. Range(queue) = {} /\ InFlight = {} /\ LoggingIn = {} /\ Answered = {} /\ DOMAIN queue = {}
  BY DEF Range, InFlight, LoggingIn, Answered
<1>3. Accounted /\ AtMostOneCall
  BY <1>2 DEF Accounted, AtMostOneCall
<1>4. QueueHasDrainer
  BY DEF QueueHasDrainer
<1>5. NoTokensWhenDisconnected
  BY DEF NoTokensWhenDisconnected
<1>6. Shape
  BY <1>2 DEF Shape, LoginPending, LoginActive, Renewals, Tokens
<1> QED
  BY <1>1, <1>3, <1>4, <1>5, <1>6 DEF IInv, OperationsInv

\* Every step preserves the invariant and moves at most one operation.
LEMMA StepInv ==
    ASSUME IInv, [Next]_vars
    PROVE  IInv' /\ AtMostOneMoves
<1> DEFINE Goal == IInv' /\ AtMostOneMoves
<1>1. issued' = issued /\ Answered' = Answered => AtMostOneMoves
  BY DEF AtMostOneMoves
<1>2. ASSUME NEW op \in issued \ Answered, issued' = issued, Answered' = Answered \cup {op}
      PROVE  AtMostOneMoves
  BY <1>2 DEF AtMostOneMoves
<1>3. ASSUME NEW c \in Connects, connect(c)
      PROVE  Goal
  <2>1. IInv' /\ Answered' = Answered
    BY <1>3, connectInv
  <2>2. c \in Operations \ issued /\ issued' = issued \cup {c}
    BY <1>3 DEF connect, Operations
  <2> QED
    BY <2>1, <2>2 DEF AtMostOneMoves
<1>4. ASSUME NEW r \in Requests, request(r)
      PROVE  Goal
  <2>1. IInv' /\ Answered' = Answered
    BY <1>4, requestInv
  <2>2. r \in Operations \ issued /\ issued' = issued \cup {r}
    BY <1>4 DEF request, Operations
  <2> QED
    BY <2>1, <2>2 DEF AtMostOneMoves
<1>5. ASSUME NEW d \in Destroys, destroy(d)
      PROVE  Goal
  <2>1. /\ IInv' /\ d \notin issued /\ issued' = issued \cup {d}
        /\ Answered' = Answered \/ Answered' = Answered \cup {d}
    BY <1>5, destroyInv
  <2>2. d \in Operations
    BY DEF Operations
  <2> QED
    BY <2>1, <2>2 DEF AtMostOneMoves
<1>6. CASE LoginStep /\ ~drainDue
  <2>1. /\ IInv' /\ issued' = issued
        /\ \/ Answered' = Answered
           \/ connector \subseteq issued \ Answered /\ Answered' = Answered \cup connector
    BY <1>6, LoginStepInv
  <2>2. \A x, y \in connector : x = y
    BY DEF IInv, Shape
  <2>3. AtMostOneMoves
    BY <1>1, <2>1, <2>2, AtMostOneTaken
  <2> QED
    BY <2>1, <2>3
<1>7. CASE LoginStep /\ drainDue
  <2>1. drainAfterLogin
    BY <1>7 DEF LoginStep, loginSucceeded, credentialStored, loginFailed, credentialStoreFailed,
                loginTokenRejected, tokenReplaced, tokenNotReplaced, reauthenticated,
                reauthenticationThrows, sendLoginAgain
  <2> QED
    BY <2>1, drainAfterLoginInv
<1>8. ASSUME NEW r \in Requests, requestAnswered(r)
      PROVE  Goal
  <2>1. r \in Operations
    BY DEF Operations
  <2>2. IInv' /\ r \in issued \ Answered /\ Answered' = Answered \cup {r} /\ issued' = issued
    BY <1>8, <2>1, ResponseAnswers DEF requestAnswered
  <2> QED
    BY <1>2, <2>2
<1>9. ASSUME NEW r \in Requests, sessionTokenExpired(r)
      PROVE  Goal
  BY <1>1, <1>9, sessionTokenExpiredInv
<1>10. ASSUME NEW r \in Requests, sessionGone(r)
       PROVE  Goal
  BY <1>1, <1>10, sessionGoneInv
<1>11. ASSUME NEW d \in Destroys, destroySucceeded(d) \/ destroyFailed(d)
       PROVE  Goal
  <2>1. d \in Operations
    BY DEF Operations
  <2>2. IInv' /\ d \in issued \ Answered /\ Answered' = Answered \cup {d} /\ issued' = issued
    BY <1>11, <2>1, ResponseAnswers DEF destroySucceeded, destroyFailed
  <2> QED
    BY <1>2, <2>2
<1>12. CASE RenewalResponse
  <2>1. PICK token \in Tokens, s \in {"Connected", "Disconnected"}, tok \in BOOLEAN :
            (s = "Disconnected" => ~tok) /\ FinishRenewal(token, s, tok)
    BY <1>12 DEF RenewalResponse, renewalSucceeded, renewalNetworkError, renewalFailed, Tokens,
                 IInv, TypeOK
  <2> QED
    BY <2>1, FinishRenewalInv
<1>13. ASSUME NEW op \in Operations, nextTick(op)
       PROVE  Goal
  <2>1. IInv' /\ op \in issued \ Answered /\ Answered' = Answered \cup {op}
    BY <1>13, nextTickInv
  <2>2. issued' = issued
    BY <1>13 DEF nextTick
  <2> QED
    BY <1>2, <2>1, <2>2
<1>14. CASE UNCHANGED vars
  <2>1. /\ UNCHANGED <<opVars, login, connector, state, tokens, renewals, drainDue>>
        /\ UNCHANGED <<config, numRetries, rejections>>
    BY <1>14 DEF vars, loginVars
  <2>2. LoggingIn' = LoggingIn /\ Answered' = Answered
    BY <2>1, SameLogin DEF Answered, opVars
  <2>3. OperationsInv' /\ InFlight' = InFlight
    BY <2>1, <2>2, OperationsUnchanged DEF IInv
  <2>4. Frame'
    BY <2>1, <2>3, FrameUnchanged DEF Frame, IInv, opVars
  <2>5. TypeOK'
    BY <2>1 DEF IInv, TypeOK, opVars
  <2>6. issued' = issued
    BY <2>1 DEF opVars
  <2> QED
    BY <1>1, <2>2, <2>3, <2>4, <2>5, <2>6 DEF IInv, Frame
<1>15. CASE ApiCall
  BY <1>3, <1>4, <1>5, <1>15 DEF ApiCall
<1>16. CASE RequestResponse
  BY <1>8, <1>9, <1>10, <1>16 DEF RequestResponse
<1>17. CASE DestroyResponse
  BY <1>11, <1>17 DEF DestroyResponse
<1>18. CASE Tick
  BY <1>13, <1>18 DEF Tick
<1>19. CASE LoginStep
  BY <1>6, <1>7, <1>19
<1> QED
  BY <1>12, <1>14, <1>15, <1>16, <1>17, <1>18, <1>19 DEF Next

\* For any set of operations and in any order of responses, timers and API calls:
\* every accepted operation is in exactly one place, its callback runs at most
\* once, a queued operation has somebody who drains the queue, and a disconnected
\* service keeps no tokens.
THEOREM SessionCorrect ==
    Spec => [](TypeOK /\ Accounted /\ AtMostOneCall /\ QueueHasDrainer /\ NoTokensWhenDisconnected)
<1>1. Init => IInv
  BY InitIInv
<1>2. IInv /\ [Next]_vars => IInv'
  BY StepInv
<1>3. IInv => TypeOK /\ Accounted /\ AtMostOneCall /\ QueueHasDrainer /\ NoTokensWhenDisconnected
  BY DEF IInv, OperationsInv
<1> QED
  BY <1>1, <1>2, <1>3, PTL DEF Spec

-----------------------------------------------------------------------------
(* The contract of the API                                                 *)

\* The operations the service works on, said of the places they are in: those
\* asked for and not answered, but for the connect() of a login that is lost.
LEMMA WorkingParts ==
    ASSUME NEW asked, NEW q \in Seq(Requests \cup Destroys), NEW flying, NEW failing, NEW done,
           NEW loggingIn \in SUBSET Connects, NEW lost \in SUBSET Connects,
           loggingIn \cap lost = {},
           AccountedAt(asked, q, flying, failing, loggingIn \cup lost, done)
    PROVE  Range(q) \cup flying \cup failing \cup loggingIn = (asked \ done) \ lost
<1>1. Range(q) \cap Connects = {}
  BY QueueOfOperations
<1> QED
  BY <1>1 DEF AccountedAt

Lost == IF login = "lost" THEN connector ELSE {}

Active == IF LoginActive THEN connector ELSE {}

LEMMA WorkingHere ==
    ASSUME IInv
    PROVE  Working = (issued \ Answered) \ Lost
<1>1. /\ queue \in Seq(Requests \cup Destroys)
      /\ Active \in SUBSET Connects /\ Lost \in SUBSET Connects
      /\ Active \cap Lost = {} /\ LoggingIn = Active \cup Lost
  BY DEF IInv, TypeOK, Active, Lost, LoggingIn, LoginActive
<1>2. AccountedAt(issued, queue, InFlight, ticks, Active \cup Lost, Answered)
  BY <1>1, AccountedHere DEF IInv, OperationsInv
<1>3. Working = Range(queue) \cup InFlight \cup ticks \cup Active
  BY DEF Working, Active
<1> QED
  BY <1>1, <1>2, <1>3, WorkingParts

\* The same after a step.
LEMMA WorkingThere ==
    ASSUME IInv'
    PROVE  Working' = (issued' \ Answered') \ Lost'
<1>1. /\ queue' \in Seq(Requests \cup Destroys)
      /\ Active' \in SUBSET Connects /\ Lost' \in SUBSET Connects
      /\ Active' \cap Lost' = {} /\ LoggingIn' = Active' \cup Lost'
  BY DEF IInv, TypeOK, Active, Lost, LoggingIn, LoginActive
<1>2. AccountedAt(issued', queue', InFlight', ticks', Active' \cup Lost', Answered')
  BY <1>1, AccountedThere DEF IInv, OperationsInv
<1>3. Working' = Range(queue') \cup InFlight' \cup ticks' \cup Active'
  BY DEF Working, Active
<1> QED
  BY <1>1, <1>2, <1>3, WorkingParts

\* Only Okta's re-authentication that throws loses a connect().
LEMMA LostByOkta ==
    ASSUME IInv, [Next]_vars
    PROVE  \/ Lost' = Lost
           \/ /\ config.auth = "okta"
              /\ Lost' = connector /\ Lost = {} /\ connector \subseteq issued \ Answered
              /\ UNCHANGED <<issued, Answered>>
<1>1. CASE UNCHANGED <<login, connector>>
  BY <1>1 DEF Lost
<1>2. ASSUME NEW c \in Connects, connect(c)
      PROVE  Lost' = Lost
  <2>1. state = "Pristine" => login = "idle"
    BY DEF IInv, Shape
  <2> QED
    BY <1>2, <2>1 DEF connect, Lost, FailOnNextTick, loginVars
<1>3. CASE reauthenticationThrows
  <2>1. LoggingIn = connector /\ Lost = {}
    BY <1>3 DEF reauthenticationThrows, LoggingIn, LoginActive, Lost
  <2>2. connector \subseteq issued \ Answered
    BY <2>1 DEF IInv, OperationsInv, Accounted
  <2>3. UNCHANGED <<issued, Answered>> /\ Lost' = connector /\ config.auth = "okta"
    BY <1>3 DEF reauthenticationThrows, opVars, Answered, Lost
  <2> QED
    BY <2>1, <2>2, <2>3
<1>4. CASE LoginStep /\ ~reauthenticationThrows /\ ~drainAfterLogin
  <2>1. login # "lost" /\ login' # "lost"
    BY <1>4 DEF LoginStep, loginSucceeded, credentialStored, loginFailed, credentialStoreFailed,
                loginTokenRejected, tokenReplaced, tokenNotReplaced, reauthenticated,
                sendLoginAgain, RetryLogin, GiveUpLogin, InvokeConnectCallback
  <2> QED
    BY <2>1 DEF Lost
<1>5. CASE drainAfterLogin
  BY <1>5 DEF drainAfterLogin, loginVars, Lost
<1>6. CASE UNCHANGED vars
  BY <1>1, <1>6 DEF vars, loginVars
<1>7. CASE ApiCall
  <2>1. ASSUME NEW r \in Requests, request(r)
        PROVE  UNCHANGED <<login, connector>>
    BY <2>1 DEF request, FailOnNextTick, Enqueue, loginVars
  <2>2. ASSUME NEW d \in Destroys, destroy(d)
        PROVE  UNCHANGED <<login, connector>>
    BY <2>2 DEF destroy, FailOnNextTick, Enqueue, loginVars
  <2> QED
    BY <1>1, <1>2, <1>7, <2>1, <2>2 DEF ApiCall
<1>8. CASE RequestResponse \/ DestroyResponse \/ RenewalResponse \/ Tick
  <2>1. UNCHANGED <<login, connector>>
    BY <1>8 DEF RequestResponse, DestroyResponse, RenewalResponse, Tick, requestAnswered,
                sessionTokenExpired, sessionGone, destroySucceeded, destroyFailed,
                renewalSucceeded, renewalNetworkError, renewalFailed, FinishRenewal, nextTick,
                loginVars
  <2> QED
    BY <1>1, <2>1
<1> QED
  BY <1>3, <1>4, <1>5, <1>6, <1>7, <1>8 DEF Next

\* When at most one callback is invoked and it is op's, op's count moves by one.
LEMMA OneMoreCall ==
    ASSUME TypeOK, TypeOK', AtMostOneCall, AtMostOneCall',
           NEW op \in Operations, op \notin Answered, Answered' = Answered \cup {op}
    PROVE  calls' = [calls EXCEPT ![op] = @ + 1]
<1>1. calls \in [Operations -> Nat] /\ calls' \in [Operations -> Nat]
  BY DEF TypeOK
<1>2. ASSUME NEW x \in Operations
      PROVE  calls'[x] = IF x = op THEN calls[x] + 1 ELSE calls[x]
  <2>1. calls[x] \in {0, 1} /\ calls'[x] \in {0, 1}
    BY <1>1 DEF AtMostOneCall
  <2>2. (calls[x] = 1 <=> x \in Answered) /\ (calls'[x] = 1 <=> x \in Answered')
    BY <2>1 DEF Answered
  <2> QED
    BY <2>1, <2>2
<1> QED
  BY <1>1, <1>2

LEMMA NoMoreCalls ==
    ASSUME TypeOK, TypeOK', AtMostOneCall, AtMostOneCall', Answered' = Answered
    PROVE  calls' = calls
<1>1. calls \in [Operations -> Nat] /\ calls' \in [Operations -> Nat]
  BY DEF TypeOK
<1>2. ASSUME NEW x \in Operations
      PROVE  calls'[x] = calls[x]
  <2>1. calls[x] \in {0, 1} /\ calls'[x] \in {0, 1}
    BY <1>1 DEF AtMostOneCall
  <2>2. (calls[x] = 1 <=> x \in Answered) /\ (calls'[x] = 1 <=> x \in Answered')
    BY <2>1 DEF Answered
  <2> QED
    BY <2>1, <2>2
<1> QED
  BY <1>1, <1>2

\* The session state machine implements the contract of an asynchronous API.  In
\* every step the operations found in its structures gain the one that is called,
\* or lose the one whose callback is invoked, once; the connect() of an Okta login
\* is the only one that may leave them without.
THEOREM SessionImplementsContract == Spec => ImplementsContract
<1>1. Init => Contract!Init
  <2> SUFFICES ASSUME Init
               PROVE  Contract!Init
    OBVIOUS
  <2>1. Working = {}
    BY DEF Init, Working, InFlight, LoginActive, Range
  <2>2. Contract!Init
    BY <2>1 DEF Init, Contract!Init, Operations
  <2> QED
    BY <2>2
<1>2. IInv /\ [Next]_vars => [Contract!Next]_(Contract!contractVars)
  <2> SUFFICES ASSUME IInv, [Next]_vars
               PROVE  [Contract!Next]_(Contract!contractVars)
    OBVIOUS
  <2> DEFINE Droppable == IF config.auth = "okta" THEN Connects ELSE {}
  <2>1. AtMostOneMoves /\ IInv'
    BY StepInv
  <2>2. /\ issued \subseteq Operations /\ Answered \subseteq issued
        /\ TypeOK /\ TypeOK' /\ AtMostOneCall /\ AtMostOneCall'
    BY <2>1 DEF IInv, TypeOK, OperationsInv, Accounted
  <2>3. Working = (issued \ Answered) \ Lost /\ Working' = (issued' \ Answered') \ Lost'
    BY <2>1, WorkingHere, WorkingThere
  <2>4. config' = config
    BY DEF Next, vars, ApiCall, connect, request, destroy, LoginStep, loginSucceeded,
           credentialStored, loginFailed, credentialStoreFailed, loginTokenRejected, tokenReplaced,
           tokenNotReplaced, reauthenticated, reauthenticationThrows, sendLoginAgain,
           drainAfterLogin, RetryLogin, GiveUpLogin, InvokeConnectCallback, RequestResponse,
           requestAnswered, sessionTokenExpired, sessionGone, DestroyResponse, destroySucceeded,
           destroyFailed, RenewalResponse, renewalSucceeded, renewalNetworkError, renewalFailed,
           FinishRenewal, Tick, nextTick
  <2>5. UNCHANGED Droppable
    BY <2>4
  <2> HIDE DEF Droppable
  <2>6. CASE Lost' # Lost
    <3>1. /\ Lost' = connector /\ Lost = {} /\ connector \subseteq issued \ Answered
          /\ UNCHANGED <<issued, Answered>> /\ config.auth = "okta"
      BY <2>6, LostByOkta
    <3>2. calls' = calls
      BY <2>2, <3>1, NoMoreCalls
    <3>3. PICK c \in connector : TRUE
      BY <2>6, <3>1
    <3>4. connector = {c} /\ c \in Connects /\ c \in Operations
      BY <3>3 DEF IInv, Shape, TypeOK, Operations
    <3>5. c \in Working /\ Working' = Working \ {c}
      BY <2>3, <3>1, <3>4
    <3>6. c \in Droppable
      BY <3>1, <3>4 DEF Droppable
    <3>7. Contract!Forget(c)
      BY <2>5, <3>1, <3>2, <3>5, <3>6 DEF Contract!Forget, Droppable
    <3> QED
      BY <3>4, <3>7 DEF Contract!Next
  <2>7. CASE Lost' = Lost /\ UNCHANGED <<issued, Answered>>
    <3>1. calls' = calls
      BY <2>2, <2>7, NoMoreCalls
    <3>2. Working' = Working
      BY <2>3, <2>7
    <3> QED
      BY <2>5, <2>7, <3>1, <3>2 DEF Contract!contractVars, Droppable
  <2>8. ASSUME Lost' = Lost, NEW op \in issued \ Answered, issued' = issued,
               Answered' = Answered \cup {op}
        PROVE  Contract!Next
    <3>1. op \in Operations /\ calls' = [calls EXCEPT ![op] = @ + 1]
      BY <2>2, <2>8, OneMoreCall
    <3>2. op \notin Lost
      BY <2>1, <2>8 DEF IInv, OperationsInv, Accounted, Lost, LoggingIn
    <3>3. op \in Working /\ Working' = Working \ {op}
      BY <2>3, <2>8, <3>2
    <3>4. Contract!Answer(op)
      BY <2>5, <2>8, <3>1, <3>3 DEF Contract!Answer, Droppable
    <3> QED
      BY <3>1, <3>4 DEF Contract!Next
  <2>9. ASSUME NEW op \in Operations \ issued
        PROVE  op \notin Lost
    BY DEF IInv, OperationsInv, Accounted, Lost, LoggingIn
  <2>10. ASSUME Lost' = Lost, NEW op \in Operations \ issued, issued' = issued \cup {op},
                Answered' = Answered
         PROVE  Contract!Next
    <3>1. calls' = calls
      BY <2>2, <2>10, NoMoreCalls
    <3>2. Working' = Working \cup {op}
      BY <2>2, <2>3, <2>9, <2>10
    <3>3. Contract!Accept(op)
      BY <2>5, <2>10, <3>1, <3>2 DEF Contract!Accept, Droppable
    <3> QED
      BY <3>3 DEF Contract!Next
  <2>11. ASSUME Lost' = Lost, NEW op \in Operations \ issued, issued' = issued \cup {op},
                Answered' = Answered \cup {op}
         PROVE  Contract!Next
    <3>1. calls' = [calls EXCEPT ![op] = @ + 1]
      BY <2>2, <2>11, OneMoreCall
    <3>2. Working' = Working
      BY <2>2, <2>3, <2>11
    <3>3. Contract!AcceptAndAnswer(op)
      BY <2>5, <2>11, <3>1, <3>2 DEF Contract!AcceptAndAnswer, Droppable
    <3> QED
      BY <3>3 DEF Contract!Next
  <2> QED
    BY <2>1, <2>6, <2>7, <2>8, <2>10, <2>11 DEF AtMostOneMoves
<1>3. Init => IInv
  BY InitIInv
<1>4. IInv /\ [Next]_vars => IInv'
  BY StepInv
<1> QED
  BY <1>1, <1>2, <1>3, <1>4, PTL DEF Spec, ImplementsContract, Contract!Spec

\* With nothing in flight a disconnected service is final, whatever API is called.
THEOREM QuietDisconnect == Spec => QuietDisconnectIsFinal
<1> DEFINE Quiet == /\ state = "Disconnected" /\ InFlight = {} /\ Renewals = 0
                    /\ login \in {"idle", "over"}
           Final == Quiet => state' = "Disconnected"
<1>1. IInv /\ [Next]_vars => [Final]_vars
  <2> SUFFICES ASSUME IInv, Next, Quiet
               PROVE  state' = "Disconnected"
    OBVIOUS
  <2>1. CASE ApiCall
    BY <2>1 DEF ApiCall, connect, request, destroy, FailOnNextTick, Enqueue
  <2>2. CASE LoginStep
    <3>1. drainAfterLogin
      BY <2>2 DEF LoginStep, loginSucceeded, credentialStored, loginFailed, credentialStoreFailed,
                  loginTokenRejected, tokenReplaced, tokenNotReplaced, reauthenticated,
                  reauthenticationThrows, sendLoginAgain
    <3> QED
      BY <3>1, drainAfterLoginInv
  <2>3. ~RequestResponse /\ ~DestroyResponse
    <3>1. \A op \in Operations : sent[op] = "none"
      BY DEF InFlight
    <3> QED
      BY <3>1 DEF RequestResponse, DestroyResponse, requestAnswered, sessionTokenExpired,
                  sessionGone, destroySucceeded, destroyFailed, Operations
  <2>4. ~RenewalResponse
    <3>1. \A token \in Tokens : ~(renewals[token] > 0)
      BY DEF IInv, TypeOK, Renewals, Tokens
    <3>2. \A token \in Tokens : \A s, tok : ~FinishRenewal(token, s, tok)
      BY <3>1 DEF FinishRenewal
    <3> QED
      BY <3>2 DEF RenewalResponse, renewalSucceeded, renewalNetworkError, renewalFailed, Tokens
  <2>5. CASE Tick
    BY <2>5 DEF Tick, nextTick
  <2> QED
    BY <2>1, <2>2, <2>3, <2>4, <2>5 DEF Next
<1>2. Init => IInv
  BY InitIInv
<1>3. IInv /\ [Next]_vars => IInv'
  BY StepInv
<1> QED
  BY <1>1, <1>2, <1>3, PTL DEF Spec, QuietDisconnectIsFinal

=============================================================================
