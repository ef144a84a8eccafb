---------------------------- MODULE TransportProofs ----------------------------
(***************************************************************************)
(* The transport below the services, for every value of the constants: a   *)
(* request has one result and is sent a bounded number of times, whichever *)
(* layer it goes through; and no order of answers, failures, timers and    *)
(* other sockets makes a revocation check let through what it must not.    *)
(***************************************************************************)
EXTENDS HttpRequests, Revocation, FiniteSetTheorems, SequenceTheorems, WellFoundedInduction,
        TLAPS

-----------------------------------------------------------------------------
(* HTTP requests. *)

\* Where the next thing that happens to a request is that it is sent.
Waiting == {"new", "tick", "backoff", "pause"}

\* Each time a request is sent is paid for by a retry of one of the layers, but for
\* the first time that it is made, or made anew; only the layer that a request goes
\* through counts.
Spent(r) == renewals[r] * Budget(r)

Paid(r) ==
    /\ sent[r] <= Spent(r) + again[r] + numRetries[r] + (IF pc[r] \in Waiting THEN 0 ELSE 1)
    /\ pc[r] = "reauth" => use[r].layer = "session" /\ renewals[r] < MaxRenewals
    /\ use[r].layer # "chunk" => again[r] = 0
    /\ ~use[r].middleware => numRetries[r] = 0

\* A result and the last answer belong together once there is a result.
Reported(r) ==
    /\ calls[r] <= IF r \in threw THEN 2 ELSE 1
    /\ calls[r] > 0 <=> pc[r] \in {"done", "crashed"}
    /\ calls[r] = 0 => result[r] = "none"
    /\ pc[r] = "reauth" => answer[r] = "refused"
    /\ use[r].layer # "promise" /\ result[r] = "success" => answer[r] = "ok"
    /\ use[r].layer # "promise" /\ result[r] = "error" => answer[r] # "ok" \/ r \in threw

\* Only a request of the session service, and one that was issued, can be aborted; it
\* waits for its turn to notice that, or is over.
Abortable(r) ==
    r \in aborted => use[r].layer = "session" /\ pc[r] \in {"tick", "backoff", "done", "crashed"}

RequestInv(r) == Paid(r) /\ Reported(r) /\ Abortable(r)

IInv == TypeOK /\ \A r \in Requests : RequestInv(r)

AllAnswers == Answers \cup {"none", "canceled"}

\* How often a request may be sent each time that it is made.
LEMMA BudgetFacts ==
    ASSUME IInv, NEW r \in Requests
    PROVE  /\ Budget(r) \in Nat \ {0} /\ Spent(r) \in Nat /\ renewals[r] \in Nat
           /\ again[r] + numRetries[r] + 1 <= Budget(r)
           /\ (1 + renewals[r]) * Budget(r) = Spent(r) + Budget(r)
<1>1. /\ use[r] \in AnyUse /\ renewals[r] \in Nat /\ MaxRetries \in Nat /\ MaxNumRetries \in Nat
      /\ again[r] \in 0 .. MaxNumRetries /\ numRetries[r] \in 0 .. MaxRetries
      /\ use[r].layer # "chunk" => again[r] = 0
      /\ ~use[r].middleware => numRetries[r] = 0
  BY HttpAssumption DEF IInv, TypeOK, RequestInv, Paid
<1>2. use[r].middleware \in BOOLEAN /\ (use[r].middleware => use[r].layer = "session")
  BY <1>1 DEF AnyUse
<1>3. Budget(r) \in Nat \ {0} /\ again[r] + numRetries[r] + 1 <= Budget(r)
  BY <1>1, <1>2 DEF Budget
<1>4. ASSUME NEW x \in Nat, NEW b \in Nat
      PROVE  x * b \in Nat /\ (1 + x) * b = x * b + b
  OBVIOUS
<1> QED
  BY <1>1, <1>3, <1>4 DEF Spent

\* It stays the same while the request is not made anew.
LEMMA SpentStays ==
    ASSUME use' = use, NEW r, renewals'[r] = renewals[r]
    PROVE  Spent(r)' = Spent(r) /\ Budget(r)' = Budget(r)
BY DEF Spent, Budget

\* What a layer does with an answer: it reports a result, pauses and counts, or has the
\* token of the request renewed.
LEMMA DeliverSteps ==
    ASSUME IInv, NEW r \in Requests, NEW a \in AllAnswers,
           pc[r] \in {"tick", "sent", "backoff"}, Deliver(r, a)
    PROVE  /\ pc' \in [Requests -> States] /\ calls' \in [Requests -> Nat]
           /\ again' \in [Requests -> 0 .. MaxNumRetries]
           /\ result' \in [Requests -> {"none", "success", "error"}]
           /\ threw' \subseteq Requests
           /\ \A q \in Requests \ {r} :
                 /\ pc'[q] = pc[q] /\ calls'[q] = calls[q] /\ again'[q] = again[q]
                 /\ result'[q] = result[q] /\ (q \in threw' <=> q \in threw)
           /\ use[r].layer # "chunk" => again'[r] = 0
           /\ \/ /\ pc'[r] = "pause" /\ again'[r] = again[r] + 1
                 /\ a # "canceled" /\ use[r].layer = "chunk"
                 /\ calls'[r] = 0 /\ result'[r] = "none"
              \/ /\ pc'[r] = "reauth" /\ again'[r] = again[r]
                 /\ a = "refused" /\ use[r].layer = "session"
                 /\ calls'[r] = 0 /\ result'[r] = "none"
              \/ /\ pc'[r] \in {"done", "crashed"} /\ again'[r] = again[r]
                 /\ calls'[r] > 0
                 /\ calls'[r] <= IF r \in threw' THEN 2 ELSE 1
                 /\ use[r].layer # "promise" /\ result'[r] = "success" => a = "ok"
                 /\ use[r].layer # "promise" /\ result'[r] = "error" => a # "ok" \/ r \in threw'
<1> USE DEF IInv, RequestInv, Reported, Paid, TypeOK, States
<1>0. calls[r] = 0 /\ result[r] = "none"
  OBVIOUS
<1>1. CASE settlePromise(r, a)
  BY <1>0, <1>1 DEF settlePromise, Report
<1>2. CASE getObject(r, a)
  <2>1. CASE ~((IsError(a) \/ isUnsuccessfulResponse(a)) /\ again[r] < MaxNumRetries
                   /\ isRetryableError(a))
    <3>1. Report(r, IF a = "ok" THEN "success" ELSE "error", 1) /\ UNCHANGED <<again, threw>>
      BY <1>2, <2>1 DEF getObject
    <3> QED
      BY <1>0, <1>2, <3>1 DEF getObject, Report
  <2>2. CASE (IsError(a) \/ isUnsuccessfulResponse(a)) /\ again[r] < MaxNumRetries
                   /\ isRetryableError(a)
    <3>1. a # "canceled"
      BY <2>2 DEF isRetryableError, isRetryableHttpError, isRetryableClientError
    <3>2. again[r] + 1 \in 0 .. MaxNumRetries
      BY <2>2, HttpAssumption
    <3>3. /\ again' = [again EXCEPT ![r] = @ + 1]
          /\ pc' = [pc EXCEPT ![r] = "pause"]
          /\ UNCHANGED <<calls, result, threw>>
          /\ use[r].layer = "chunk"
      BY <1>2, <2>2 DEF getObject
    <3> QED
      BY <1>0, <3>1, <3>2, <3>3
  <2> QED
    BY <2>1, <2>2
<1>3. CASE sendHttpRequest(r, a)
  <2> DEFINE outcome == IF a = "ok" THEN "success" ELSE "error"
  <2>4. CASE /\ a = "refused"
             /\ pc' = [pc EXCEPT ![r] = "reauth"]
             /\ UNCHANGED <<calls, result, threw>>
    BY <1>0, <1>3, <2>4 DEF sendHttpRequest
  <2>1. CASE Report(r, outcome, 1) /\ UNCHANGED threw
    BY <1>0, <1>3, <2>1 DEF sendHttpRequest, Report
  <2>2. CASE Report(r, "error", 2) /\ threw' = threw \cup {r}
    BY <1>0, <1>3, <2>2 DEF sendHttpRequest, Report
  <2>3. CASE /\ pc' = [pc EXCEPT ![r] = "crashed"]
             /\ calls' = [calls EXCEPT ![r] = @ + (IF a \in {"ok", "xml"} THEN 2 ELSE 1)]
             /\ result' = [result EXCEPT ![r] = "error"]
             /\ threw' = threw \cup {r}
    BY <1>0, <1>3, <2>3 DEF sendHttpRequest
  <2> QED
    BY <1>3, <2>1, <2>2, <2>3, <2>4 DEF sendHttpRequest
<1> QED
  BY <1>1, <1>2, <1>3 DEF Deliver

\* A step that delivers an answer keeps the invariant.
LEMMA DeliverInv ==
    ASSUME IInv, NEW r \in Requests, NEW a \in AllAnswers,
           pc[r] \in {"tick", "sent", "backoff"}, a = "canceled" \/ pc[r] = "sent",
           Deliver(r, a),
           answer' = [answer EXCEPT ![r] = a],
           aborted' \subseteq Requests,
           \A q \in Requests : q \in aborted' =>
              q \in aborted \/ (q = r /\ use[r].layer = "session" /\ a = "canceled"),
           a = "refused" => renewals[r] < MaxRenewals,
           UNCHANGED <<use, numRetries, renewals, sent>>
    PROVE  IInv'
<1> USE DEF IInv, TypeOK, AllAnswers
<1>1. TypeOK'
  BY DeliverSteps
<1>2. ASSUME NEW q \in Requests, q # r
      PROVE  RequestInv(q)'
  BY <1>2, DeliverSteps, SpentStays DEF RequestInv, Paid, Reported, Abortable
<1>3. Reported(r)'
  BY DeliverSteps DEF RequestInv, Reported, States
<1>4. Paid(r)'
  BY DeliverSteps, SpentStays, BudgetFacts DEF RequestInv, Paid, Waiting, States
<1>5. Abortable(r)'
  BY DeliverSteps DEF RequestInv, Abortable
<1> QED
  BY <1>1, <1>2, <1>3, <1>4, <1>5 DEF RequestInv

\* A step that sends a request keeps the invariant.
LEMMA SendInv ==
    ASSUME IInv, NEW r \in Requests, pc[r] \in Waiting,
           pc[r] # "new" \/ use[r].layer = "promise",
           pc' = [pc EXCEPT ![r] = "sent"], sent' = [sent EXCEPT ![r] = @ + 1],
           r \notin aborted,
           UNCHANGED <<use, aborted, numRetries, again, renewals, answer, calls, result, threw>>
    PROVE  IInv'
<1> USE DEF IInv, TypeOK, States, Waiting
<1>1. TypeOK'
  OBVIOUS
<1>2. \A q \in Requests : Reported(q)' /\ Abortable(q)'
  BY DEF RequestInv, Reported, Abortable
<1>3. \A q \in Requests : Paid(q)'
  BY SpentStays, BudgetFacts DEF RequestInv, Paid
<1> QED
  BY <1>1, <1>2, <1>3 DEF RequestInv

\* Every step of every request keeps the invariant.
LEMMA StepInv == IInv /\ [Next]_vars => IInv'
<1> SUFFICES ASSUME IInv, [Next]_vars PROVE IInv'
  OBVIOUS
<1> USE DEF IInv, TypeOK, States, Waiting
<1>1. CASE UNCHANGED vars
  BY <1>1, SpentStays DEF vars, RequestInv, Paid, Reported, Abortable
<1>2. ASSUME NEW r \in Requests, issue(r)
      PROVE  IInv'
  <2>1. CASE use[r].layer = "promise"
    BY <1>2, <2>1, SendInv DEF issue, RequestInv, Abortable
  <2>2. CASE use[r].layer # "promise"
    <3>1. pc' = [pc EXCEPT ![r] = "tick"] /\ UNCHANGED <<use, aborted, numRetries, again, renewals, sent,
             answer, calls, result, threw>> /\ pc[r] = "new"
      BY <1>2, <2>2 DEF issue
    <3>2. TypeOK'
      BY <3>1
    <3>3. \A q \in Requests : RequestInv(q)'
      BY <3>1, SpentStays DEF RequestInv, Paid, Reported, Abortable
    <3> QED
      BY <3>2, <3>3
  <2> QED
    BY <2>1, <2>2
<1>3. ASSUME NEW r \in Requests, nextTick(r) \/ backoffEnds(r)
      PROVE  IInv'
  <2>1. CASE r \in aborted
    BY <1>3, <2>1, DeliverInv DEF nextTick, backoffEnds, AllAnswers
  <2>2. CASE r \notin aborted
    BY <1>3, <2>2, SendInv DEF nextTick, backoffEnds
  <2> QED
    BY <2>1, <2>2
<1>4. ASSUME NEW r \in Requests, answers(r)
      PROVE  IInv'
  <2>1. PICK a \in Answers : /\ answer' = [answer EXCEPT ![r] = a] /\ interceptor(r, a)
                             /\ a = "refused" => renewals[r] < MaxRenewals
    BY <1>4 DEF answers
  <2>2. pc[r] = "sent" /\ UNCHANGED <<use, aborted, renewals, sent>>
    BY <1>4 DEF answers
  <2>3. CASE use[r].middleware /\ isRetryable(a) /\ retriesLeft(r)
    <3>1. /\ numRetries' = [numRetries EXCEPT ![r] = @ + 1]
          /\ pc' = [pc EXCEPT ![r] = "backoff"]
          /\ UNCHANGED <<again, calls, result, threw>>
      BY <2>1, <2>3 DEF interceptor
    <3>2. numRetries[r] + 1 \in 0 .. MaxRetries
      BY <2>3, HttpAssumption DEF retriesLeft
    <3>3. TypeOK'
      BY <2>1, <2>2, <3>1, <3>2
    <3>4. \A q \in Requests : Reported(q)' /\ Abortable(q)'
      BY <2>1, <2>2, <3>1 DEF RequestInv, Reported, Abortable
    <3>5. \A q \in Requests : Paid(q)'
      BY <2>2, <2>3, <3>1, SpentStays, BudgetFacts DEF RequestInv, Paid
    <3> QED
      BY <3>3, <3>4, <3>5 DEF RequestInv
  <2>4. CASE ~(use[r].middleware /\ isRetryable(a) /\ retriesLeft(r))
    <3>1. Deliver(r, a) /\ UNCHANGED numRetries
      BY <2>1, <2>4 DEF interceptor
    <3> QED
      BY <2>1, <2>2, <3>1, DeliverInv DEF AllAnswers
  <2> QED
    BY <2>3, <2>4
<1>5. ASSUME NEW r \in Requests, pauseEnds(r)
      PROVE  IInv'
  <2>1. TypeOK'
    BY <1>5 DEF pauseEnds
  <2>2. \A q \in Requests : RequestInv(q)'
    BY <1>5, SpentStays DEF pauseEnds, RequestInv, Paid, Reported, Abortable
  <2> QED
    BY <2>1, <2>2
<1>6. ASSUME NEW r \in Requests, abort(r)
      PROVE  IInv'
  <2>1. CASE pc[r] = "sent"
    BY <1>6, <2>1, DeliverInv DEF abort, AllAnswers
  <2>2. CASE pc[r] # "sent"
    <3>1. TypeOK'
      BY <1>6, <2>2 DEF abort
    <3>2. \A q \in Requests : RequestInv(q)'
      BY <1>6, <2>2, SpentStays DEF abort, RequestInv, Paid, Reported, Abortable
    <3> QED
      BY <3>1, <3>2
  <2> QED
    BY <2>1, <2>2
<1>7. ASSUME NEW r \in Requests, reauthenticated(r)
      PROVE  IInv'
  <2>1. pc[r] = "reauth" /\ UNCHANGED <<use, aborted, again, sent, answer>>
    BY <1>7 DEF reauthenticated
  <2>2. /\ renewals[r] + 1 \in 0 .. MaxRenewals /\ use[r].layer = "session" /\ again[r] = 0
        /\ calls[r] = 0 /\ answer[r] = "refused" /\ r \notin aborted
    BY <2>1, HttpAssumption DEF RequestInv, Paid, Reported, Abortable
  <2>3. CASE /\ renewals' = [renewals EXCEPT ![r] = @ + 1]
             /\ numRetries' = [numRetries EXCEPT ![r] = 0]
             /\ pc' = [pc EXCEPT ![r] = "tick"]
             /\ UNCHANGED <<calls, result, threw>>
    <3>1. TypeOK'
      BY <2>1, <2>2, <2>3, HttpAssumption
    <3>2. \A q \in Requests : Reported(q)' /\ Abortable(q)'
      BY <2>1, <2>2, <2>3 DEF RequestInv, Reported, Abortable
    <3>3. ASSUME NEW q \in Requests, q # r
          PROVE  Paid(q)'
      BY <2>1, <2>3, <3>3, SpentStays DEF RequestInv, Paid
    <3>4. Spent(r)' = Spent(r) + Budget(r)
      <4>1. Budget(r)' = Budget(r) /\ renewals'[r] = 1 + renewals[r]
        BY <2>1, <2>3 DEF Budget
      <4>2. Spent(r)' = (1 + renewals[r]) * Budget(r)
        BY <4>1 DEF Spent
      <4> QED
        BY <4>2, BudgetFacts
    <3>5. Paid(r)'
      BY <2>1, <2>2, <2>3, <3>4, BudgetFacts DEF RequestInv, Paid
    <3> QED
      BY <3>1, <3>2, <3>3, <3>5 DEF RequestInv
  <2>4. CASE UNCHANGED <<renewals, numRetries>>
    <3>1. /\ pc' \in [Requests -> States] /\ pc'[r] \in {"done", "crashed"}
          /\ calls' = [calls EXCEPT ![r] = @ + 1] /\ result' = [result EXCEPT ![r] = "error"]
          /\ threw' \in {threw, threw \cup {r}}
          /\ \A q \in Requests \ {r} : pc'[q] = pc[q]
      <4>1. 1 + renewals[r] # renewals[r] /\ renewals \in [Requests -> Nat]
        BY <2>2, HttpAssumption
      <4>2. renewals' # [renewals EXCEPT ![r] = @ + 1]
        BY <2>4, <4>1
      <4> QED
        BY <1>7, <4>2 DEF reauthenticated, Report
    <3>2. TypeOK'
      BY <2>1, <2>4, <3>1
    <3>3. \A q \in Requests : Reported(q)' /\ Abortable(q)'
      BY <2>1, <2>2, <3>1 DEF RequestInv, Reported, Abortable
    <3>4. \A q \in Requests : Paid(q)'
      BY <2>1, <2>4, <3>1, SpentStays, BudgetFacts DEF RequestInv, Paid
    <3> QED
      BY <3>2, <3>3, <3>4 DEF RequestInv
  <2> QED
    BY <1>7, <2>3, <2>4 DEF reauthenticated
<1> QED
  BY <1>1, <1>2, <1>3, <1>4, <1>5, <1>6, <1>7 DEF Next, Step

\* The invariant holds before any request is made.
LEMMA InitInv == Init => IInv
<1> SUFFICES ASSUME Init PROVE IInv
  OBVIOUS
<1>1. TypeOK
  BY HttpAssumption DEF Init, TypeOK, States
<1>2. ASSUME NEW r \in Requests
      PROVE  RequestInv(r)
  <2>1. Spent(r) = 0
    <3>1. Budget(r) \in Nat /\ renewals[r] = 0
      BY HttpAssumption DEF Init, Budget
    <3> QED
      BY <3>1 DEF Spent
  <2> QED
    BY <2>1 DEF Init, RequestInv, Paid, Reported, Abortable, Waiting
<1> QED
  BY <1>1, <1>2 DEF IInv

\* However its answers, retries, aborts and throwing callbacks come, a request has one
\* result, that of its last answer.
THEOREM EachRequestHasOneResult == Spec => []OneResult
<1>1. IInv => OneResult
  BY DEF IInv, RequestInv, Reported, OneResult
<1> QED
  BY InitInv, StepInv, <1>1, PTL DEF Spec

\* The retries of getObject and those of the middleware do not multiply, whatever
\* their limits: a request is sent no more often than its layer allows each time that it
\* is made, and it is made anew once for each token that is refused.
THEOREM RetriesDoNotMultiply == Spec => []SentBounded
<1>1. IInv => SentBounded
  <2> SUFFICES ASSUME IInv, NEW r \in Requests
               PROVE  sent[r] <= (1 + renewals[r]) * Budget(r)
    BY DEF SentBounded
  <2>1. sent[r] <= Spent(r) + again[r] + numRetries[r] + 1
    BY BudgetFacts DEF IInv, TypeOK, RequestInv, Paid
  <2>2. sent[r] \in Nat /\ again[r] \in Nat /\ numRetries[r] \in Nat
    BY HttpAssumption DEF IInv, TypeOK
  <2> QED
    BY <2>1, <2>2, BudgetFacts
<1> QED
  BY InitInv, StepInv, <1>1, PTL DEF Spec

\* No timer, tick or answer sends a request after its abort().
THEOREM AbortIsFinal == Spec => NotSentAfterAbort
<1>1. IInv /\ [Next]_vars => [\A r \in aborted : sent'[r] = sent[r]]_vars
  <2> SUFFICES ASSUME IInv, Next, NEW q \in aborted
               PROVE  sent'[q] = sent[q]
    OBVIOUS
  <2> USE DEF IInv, TypeOK
  <2>1. PICK r \in Requests : Step(r) \/ abort(r)
    BY DEF Next
  <2>2. CASE issue(r)
    BY <2>2 DEF issue, RequestInv, Abortable
  <2>3. CASE nextTick(r)
    BY <2>3 DEF nextTick
  <2>4. CASE answers(r)
    BY <2>4 DEF answers
  <2>5. CASE backoffEnds(r)
    BY <2>5 DEF backoffEnds
  <2>6. CASE pauseEnds(r)
    BY <2>6 DEF pauseEnds
  <2>7. CASE abort(r)
    BY <2>7 DEF abort
  <2>8. CASE reauthenticated(r)
    BY <2>8 DEF reauthenticated
  <2> QED
    BY <2>1, <2>2, <2>3, <2>4, <2>5, <2>6, <2>7, <2>8 DEF Step
<1> QED
  BY InitInv, StepInv, <1>1, PTL DEF Spec, NotSentAfterAbort

-----------------------------------------------------------------------------
(* The invariants of the two revocation checks. *)

\* The elements of q that are in X, and that there is at most one of them.
Among(q, X)    == {q[i] : i \in DOMAIN q} \cap X
AtMostOne(q, X) == \A i, j \in DOMAIN q : q[i] \in X /\ q[j] \in X => i = j

\* The ticks of certificate c of socket s, and those of checks that run again.
TicksOf(s, c) == {t \in AnyTick : t.s = s /\ t.c = c /\ t.do # "rerun"}
Repeats == {t \in AnyTick : t.do = "rerun"}
Due(s, c) == Among(ticks, TicksOf(s, c))

\* The check of the certificate has not called back yet.
Awaited(s, c) == val[s][c] # "idle" \/ Due(s, c) # {}
HaveReported(s) == {c \in ChainOf(s) : ~Awaited(s, c)}

\* A certificate that FAIL_CLOSED may let through.
Good(c) == ocsp.kind[c] = "good" \/ c \in ocsp.file \cup ServerFile
Closed == ocsp.mode = "FAIL_CLOSED"

CacheInv == \A c \in Certs : store.cache[c] = "none" => Good(c)

TickInv(s, c) ==
    \A t \in Due(s, c) : t.do = "cb" =>
        /\ undecodable(c) => t.err # "none"
        /\ Closed /\ t.err = "none" => Good(c)

\* A certificate reports once, unless it cannot be decoded: then it reports an error,
\* and has done so before its other callbacks are counted.
OnceInv(s, c) ==
    /\ ~undecodable(c) =>
          /\ AtMostOne(ticks, TicksOf(s, c))
          /\ Due(s, c) # {} => val[s][c] = "idle"
          /\ ~CheckedTwice(s) /\ Awaited(s, c) => errors[s][c] = "none"
    /\ ~CheckedTwice(s) /\ undecodable(c) /\ s \in fresh /\ errors[s][c] = "none" =>
          \E t \in Due(s, c) : t.do = "cb"

CertInv(s, c) ==
    /\ s \notin fresh => ~Awaited(s, c) /\ errors[s][c] = "none"
    /\ val[s][c] \in {"request", "sleep"} => ocsp.kind[c] \notin {"undecodable", "noAIA"}
    /\ TickInv(s, c)
    /\ OnceInv(s, c)
    /\ Closed /\ ~CheckedTwice(s) /\ s \in fresh /\ ~Awaited(s, c) /\ errors[s][c] = "none" => Good(c)

ChainInv(s) ==
    /\ s \notin fresh => sock[s] \in {"corked", "open", "destroyed"} /\ completed[s] = 0
    /\ s \in fresh => sock[s] # "corked"
    /\ ~CheckedTwice(s) /\ (\A c \in ChainOf(s) : errors[s][c] = "none") =>
          completed[s] <= Cardinality(HaveReported(s))
    /\ Closed /\ ~CheckedTwice(s) /\ s \in fresh /\ sock[s] = "open" => \A c \in ChainOf(s) : Good(c)

\* Only a chain that is being checked is checked again; a second check that asks the
\* responder has something to ask, and one that has put off its end is over.
RecallInv(s, c) ==
    /\ <<s, c>> \in unread \/ rerun[s][c] # "none" => s \in fresh
    /\ rerun[s][c] = "request" => ocsp.kind[c] \notin {"undecodable", "noAIA"}
RepeatInv == \A t \in Among(ticks, Repeats) : rerun[t.s][t.c] = "over"

OcspInv ==
    /\ CacheInv
    /\ RepeatInv
    /\ \A s \in Sockets : \A c \in ChainOf(s) : RecallInv(s, c)
    /\ \A s \in Sockets : ChainInv(s) /\ \A c \in ChainOf(s) : CertInv(s, c)

\* A CRL of u that does not list a certificate is older than the revocation, and that
\* is not older than t.
Knows(list, u, t) ==
    \A c \in Certs : c \notin list.revoked => revokedAt[u][c] = Never \/ revokedAt[u][c] >= t

PublishedInv(u) == \A c \in Certs : c \notin published[u].revoked => revokedAt[u][c] = Never

MemoryInv(u) ==
    memory[u] # NoEntry =>
        memory[u].at <= now + Validity /\ Knows(memory[u].crl, u, memory[u].at - 2 * Validity)

DiskInv(u) == disk[u] # NoEntry => disk[u].at <= now /\ Knows(disk[u].crl, u, disk[u].at)

PendingInv(u) ==
    pending[u] # NoOne => fetch[pending[u]].pc # "none" /\ fetch[pending[u]].url = u

UrlInv(u) == PublishedInv(u) /\ MemoryInv(u) /\ DiskInv(u) /\ PendingInv(u)

FetchInv(s) ==
    /\ fetch[s].pc # "none" => fetch[s].url \in Urls /\ walk[s].pc = "await" /\ walk[s].on = s
    /\ fetch[s].pc = "write" => Knows(fetch[s].crl, fetch[s].url, now)

WalkInv(s) ==
    /\ sock[s] = "validating" <=> walk[s].pc # "none"
    /\ walk[s].pc # "none" => todo[s] # << >> /\ Head(todo[s])[2] \in Urls
    /\ walk[s].pc = "await" =>
          /\ walk[s].on \in Sockets
          /\ fetch[walk[s].on].pc # "none"
          /\ fetch[walk[s].on].url = Head(todo[s])[2]
    /\ walk[s].pc = "got" => Knows(walk[s].crl, Head(todo[s])[2], now - 2 * Validity + 1)

CrlInv ==
    /\ \A u \in Urls : UrlInv(u)
    /\ \A s \in Sockets : FetchInv(s) /\ WalkInv(s)

RevocationInv ==
    /\ RevocationOK
    /\ ocspDisabled \in BOOLEAN /\ (ocspDisabled => ~isCrlValidationEnabled)
    /\ viaOcsp => OcspInv
    /\ viaCrl => CrlInv

-----------------------------------------------------------------------------
(* CRLs and the constants. *)

\* Within one step, what is known of a list only depends on when revocations came.
LEMMA KnowsStays ==
    ASSUME CrlOK, NEW list, NEW u \in Urls, NEW t \in Int, Knows(list, u, t),
           NEW r \in Int, r <= t, revokedAt' = revokedAt
    PROVE  Knows(list, u, r)'
BY DEF Knows, CrlOK

\* What a CRL tells of a time it tells of an earlier one.
LEMMA LowerKnows ==
    ASSUME CrlOK, NEW list, NEW u \in Urls, NEW t \in Int, Knows(list, u, t), NEW r \in Int, r <= t
    PROVE  Knows(list, u, r)
BY DEF Knows, CrlOK

\* The CRL that is at its URL lists all that was revoked.
LEMMA PublishedKnows ==
    ASSUME CrlOK, NEW u \in Urls, UrlInv(u)
    PROVE  \A t \in Int : Knows(published[u], u, t)
BY DEF Knows, UrlInv, PublishedInv, MemoryInv, DiskInv, PendingInv

\* The constants, one by one.
LEMMA CrlConstants ==
    /\ MaxNow \in Nat /\ Life \in Nat /\ Validity \in Nat /\ Validity > 0 /\ NoOne \notin Sockets
    /\ NoCrl \in Crls /\ NoEntry \in Entries
BY CrlAssumption DEF NoCrl, NoEntry, Crls, Entries, Never

\* The types, one by one.
LEMMA CrlKinds ==
    ASSUME CrlOK
    PROVE  /\ now \in Nat /\ now <= MaxNow
           /\ \A u \in Urls :
                 /\ published[u] \in Crls /\ memory[u] \in Entries /\ disk[u] \in Entries
                 /\ pending[u] \in Sockets \cup {NoOne}
           /\ \A s \in Sockets :
                 /\ fetch[s] \in [pc : {"none", "download", "write"}, url : Places, crl : Crls]
                 /\ walk[s] \in [pc : {"none", "await", "disk", "got", "failed"},
                                 on : Sockets \cup {NoOne}, crl : Crls]
                 /\ todo[s] \in Seq(Certs \X Places)
           /\ memory \in [Urls -> Entries] /\ disk \in [Urls -> Entries]
BY CrlConstants DEF CrlOK

\* A list that is published now is put into the memory cache.
LEMMA PutInMemory ==
    ASSUME CrlOK, NEW list \in Crls
    PROVE  /\ [crl |-> list, at |-> Least(now + Validity, list.nextUpdate)] = setCrlInMemory(list)
           /\ setCrlInMemory(list) \in Entries
           /\ setCrlInMemory(list).crl = list
           /\ setCrlInMemory(list).at \in Int
           /\ setCrlInMemory(list).at <= now + Validity
<1>1. now \in Nat /\ now <= MaxNow /\ Validity \in Nat /\ MaxNow \in Nat /\ Life \in Nat
  BY CrlKinds, CrlConstants
<1>2. list.nextUpdate \in -1 .. MaxNow + Life
  BY DEF Crls
<1>3. PICK a : a = Least(now + Validity, list.nextUpdate)
  OBVIOUS
<1>4. a \in -1 .. MaxNow + Life /\ a <= now + Validity
  BY <1>1, <1>2, <1>3 DEF Least
<1> QED
  BY <1>1, <1>3, <1>4 DEF setCrlInMemory, Entries

\* The types of the walks that a step leaves.
LEMMA SocketsStep ==
    ASSUME SocketsOK, NEW s \in Sockets, NEW state \in SocketStates,
           sock' = [sock EXCEPT ![s] = state], fresh' \subseteq Sockets
    PROVE  SocketsOK' /\ sock'[s] = state /\ \A t \in Sockets \ {s} : sock'[t] = sock[t]
BY DEF SocketsOK

-----------------------------------------------------------------------------
(* Sequences of ticks. *)

\* A set of naturals has a least element: the library's well-foundedness of <, without
\* an operator parameter.
LEMMA LeastNatural ==
    ASSUME NEW T, T \subseteq Nat, T # {}
    PROVE  \E x \in T : \A y \in T : x <= y
<1>1. IsWellFoundedOn(OpToRel(<, Nat), Nat)
  BY NatLessThanWellFounded
<1>2. OpToRel(<, Nat) = {ss \in Nat \X Nat : ss[1] < ss[2]}
  BY DEF OpToRel
<1> PICK R : R = {ss \in Nat \X Nat : ss[1] < ss[2]}
  OBVIOUS
<1>3. IsWellFoundedOn(R, Nat)
  BY <1>1, <1>2
<1>4. PICK x \in T : \A y \in T : ~(<<y, x>> \in R)
  BY <1>3, WFMin
<1>5. ASSUME NEW y \in T PROVE x <= y
  <2>1. y < x => <<y, x>> \in R
    <3>1. <<y, x>> \in Nat \X Nat
      OBVIOUS
    <3>2. <<y, x>>[1] = y /\ <<y, x>>[2] = x
      OBVIOUS
    <3> QED BY ONLY <3>1, <3>2, R = {ss \in Nat \X Nat : ss[1] < ss[2]}
  <2>2. ~(y < x)
    BY <1>4, <2>1
  <2>3. x \in Nat /\ y \in Nat
    OBVIOUS
  <2> QED
    BY ONLY <2>2, <2>3
<1> QED
  BY <1>5

\* Induction over the naturals, with a set for the statement.
LEMMA Induction ==
    ASSUME NEW S, 0 \in S, \A n \in Nat : n \in S => n + 1 \in S
    PROVE  \A n \in Nat : n \in S
<1> SUFFICES ASSUME Nat \ S # {} PROVE FALSE
  OBVIOUS
<1>1. PICK x \in Nat \ S : \A y \in Nat \ S : x <= y
  <2>1. Nat \ S \subseteq Nat
    OBVIOUS
  <2> QED
    BY <2>1, LeastNatural
<1>2. x # 0 /\ x - 1 \in Nat
  BY <1>1
<1>3. x - 1 \in S
  BY <1>1, <1>2
<1> QED
  BY <1>1, <1>2, <1>3

\* Among and AtMostOne in terms of the elements of a sequence.
LEMMA AmongFacts ==
    ASSUME NEW S, NEW q \in Seq(S), NEW X
    PROVE  /\ \A c : c \in Among(q, X) <=> c \in X /\ \E i \in 1..Len(q) : q[i] = c
           /\ AtMostOne(q, X) <=> \A i, j \in 1..Len(q) : q[i] \in X /\ q[j] \in X => i = j
<1>1. DOMAIN q = 1..Len(q)
  BY LenProperties
<1> QED
  BY <1>1 DEF Among, AtMostOne

\* Among and AtMostOne of the empty sequence,
LEMMA AmongEmpty ==
    ASSUME NEW X
    PROVE  Among(<<>>, X) = {} /\ AtMostOne(<<>>, X)
BY DEF Among, AtMostOne

\* of a sequence to which an element is appended,
LEMMA AmongAppend ==
    ASSUME NEW S, NEW q \in Seq(S), NEW c \in S, NEW X
    PROVE  /\ Among(Append(q, c), X) = Among(q, X) \cup ({c} \cap X)
           /\ AtMostOne(q, X) /\ (c \in X => Among(q, X) = {}) => AtMostOne(Append(q, c), X)
<1>0. PICK p : p = Append(q, c)
  OBVIOUS
<1>1. /\ Len(q) \in Nat
      /\ p \in Seq(S)
      /\ Len(p) = Len(q) + 1
      /\ \A i \in 1..Len(q) : p[i] = q[i]
      /\ p[Len(q) + 1] = c
  BY <1>0, AppendProperties, LenProperties
<1>2. /\ \A d : d \in Among(p, X) <=> d \in X /\ \E i \in 1..Len(p) : p[i] = d
      /\ AtMostOne(p, X) <=> \A i, j \in 1..Len(p) : p[i] \in X /\ p[j] \in X => i = j
  BY <1>1, AmongFacts
<1>3. /\ \A d : d \in Among(q, X) <=> d \in X /\ \E i \in 1..Len(q) : q[i] = d
      /\ AtMostOne(q, X) <=> \A i, j \in 1..Len(q) : q[i] \in X /\ q[j] \in X => i = j
  BY AmongFacts
<1>4. \A i \in 1..Len(p) : i \in 1..Len(q) \/ i = Len(q) + 1
  BY <1>1
<1>5. \A i \in 1..Len(q) : i \in 1..Len(p)
  BY <1>1
<1>6. Len(q) + 1 \in 1..Len(p)
  BY <1>1
<1>7. ASSUME NEW d PROVE d \in Among(p, X) <=> d \in Among(q, X) \cup ({c} \cap X)
  BY <1>1, <1>2, <1>3, <1>4, <1>5, <1>6
<1>8. ASSUME AtMostOne(q, X), c \in X => Among(q, X) = {}
      PROVE  AtMostOne(p, X)
  <2> SUFFICES ASSUME NEW i \in 1..Len(p), NEW j \in 1..Len(p), p[i] \in X, p[j] \in X
               PROVE  i = j
    BY <1>2
  <2>1. CASE i \in 1..Len(q) /\ j \in 1..Len(q)
    BY <2>1, <1>1, <1>3, <1>8
  <2>2. CASE i = Len(q) + 1 \/ j = Len(q) + 1
    <3>1. CASE c \in X
      <4>1. \A m \in 1..Len(q) : q[m] \notin X
        BY <3>1, <1>3, <1>8
      <4> QED
        BY <4>1, <1>1, <1>4
    <3>2. CASE c \notin X
      BY <3>2, <2>2, <1>1
    <3> QED BY <3>1, <3>2
  <2> QED
    BY <2>1, <2>2, <1>4
<1>9. Among(p, X) = Among(q, X) \cup ({c} \cap X)
  BY <1>7
<1> QED
  BY <1>0, <1>8, <1>9

\* of two sequences in a row,
LEMMA AmongConcat ==
    ASSUME NEW S, NEW p \in Seq(S), NEW q \in Seq(S), NEW X
    PROVE  /\ Among(p \o q, X) = Among(p, X) \cup Among(q, X)
           /\ AtMostOne(p, X) /\ AtMostOne(q, X) /\ (Among(p, X) = {} \/ Among(q, X) = {})
                 => AtMostOne(p \o q, X)
<1>0. PICK r : r = p \o q
  OBVIOUS
<1>1. /\ Len(p) \in Nat /\ Len(q) \in Nat
      /\ r \in Seq(S)
      /\ Len(r) = Len(p) + Len(q)
      /\ \A i \in 1 .. Len(p) + Len(q) : r[i] = IF i <= Len(p) THEN p[i] ELSE q[i - Len(p)]
  BY <1>0, ConcatProperties, LenProperties
<1>2. /\ \A d : d \in Among(p, X) <=> d \in X /\ \E i \in 1..Len(p) : p[i] = d
      /\ AtMostOne(p, X) <=> \A i, j \in 1..Len(p) : p[i] \in X /\ p[j] \in X => i = j
  BY AmongFacts
<1>3. /\ \A d : d \in Among(q, X) <=> d \in X /\ \E i \in 1..Len(q) : q[i] = d
      /\ AtMostOne(q, X) <=> \A i, j \in 1..Len(q) : q[i] \in X /\ q[j] \in X => i = j
  BY AmongFacts
<1>4. /\ \A d : d \in Among(r, X) <=> d \in X /\ \E i \in 1..Len(r) : r[i] = d
      /\ AtMostOne(r, X) <=> \A i, j \in 1..Len(r) : r[i] \in X /\ r[j] \in X => i = j
  BY <1>1, AmongFacts
<1>5. ASSUME NEW i \in 1..Len(r)
      PROVE  \/ i \in 1..Len(p) /\ r[i] = p[i]
             \/ i - Len(p) \in 1..Len(q) /\ r[i] = q[i - Len(p)]
  BY <1>1
<1>6. ASSUME NEW i \in 1..Len(p)
      PROVE  i \in 1..Len(r) /\ r[i] = p[i]
  BY <1>1
<1>7. ASSUME NEW i \in 1..Len(q)
      PROVE  i + Len(p) \in 1..Len(r) /\ r[i + Len(p)] = q[i]
  <2>1. i + Len(p) \in 1..(Len(p) + Len(q)) /\ ~(i + Len(p) <= Len(p)) /\ (i + Len(p)) - Len(p) = i
    BY <1>1
  <2> QED
    BY <2>1, <1>1
<1>8. ASSUME NEW d PROVE d \in Among(r, X) <=> d \in Among(p, X) \cup Among(q, X)
  <2>1. d \in Among(r, X) => d \in Among(p, X) \cup Among(q, X)
    <3>1. ASSUME NEW i \in 1..Len(r), r[i] = d, d \in X
          PROVE  d \in Among(p, X) \cup Among(q, X)
      <4>1. CASE i \in 1..Len(p) /\ r[i] = p[i]
        BY <4>1, <3>1, <1>2
      <4>2. CASE i - Len(p) \in 1..Len(q) /\ r[i] = q[i - Len(p)]
        BY <4>2, <3>1, <1>3
      <4> QED
        BY <4>1, <4>2, <1>5
    <3> QED
      BY <3>1, <1>4
  <2>2. d \in Among(p, X) => d \in Among(r, X)
    BY <1>2, <1>4, <1>6
  <2>3. d \in Among(q, X) => d \in Among(r, X)
    <3>1. ASSUME NEW i \in 1..Len(q), q[i] = d, d \in X
          PROVE  d \in Among(r, X)
      <4>1. i + Len(p) \in 1..Len(r) /\ r[i + Len(p)] = d
        BY <3>1, <1>7
      <4> QED
        BY <4>1, <3>1, <1>4
    <3> QED
      BY <3>1, <1>3
  <2> QED
    BY <2>1, <2>2, <2>3
<1>9. ASSUME AtMostOne(p, X), AtMostOne(q, X), Among(p, X) = {} \/ Among(q, X) = {}
      PROVE  AtMostOne(r, X)
  <2> SUFFICES ASSUME NEW i \in 1..Len(r), NEW j \in 1..Len(r), r[i] \in X, r[j] \in X
               PROVE  i = j
    BY <1>4
  <2>1. CASE Among(p, X) = {}
    <3>1. \A m \in 1..Len(p) : p[m] \notin X
      BY <2>1, <1>2
    <3>2. i - Len(p) \in 1..Len(q) /\ r[i] = q[i - Len(p)]
      BY <3>1, <1>5
    <3>3. j - Len(p) \in 1..Len(q) /\ r[j] = q[j - Len(p)]
      BY <3>1, <1>5
    <3>4. i - Len(p) = j - Len(p)
      BY <3>2, <3>3, <1>3, <1>9
    <3> QED
      BY <3>4, <1>1
  <2>2. CASE Among(q, X) = {}
    <3>1. \A m \in 1..Len(q) : q[m] \notin X
      BY <2>2, <1>3
    <3>2. i \in 1..Len(p) /\ r[i] = p[i]
      BY <3>1, <1>5
    <3>3. j \in 1..Len(p) /\ r[j] = p[j]
      BY <3>1, <1>5
    <3> QED
      BY <3>2, <3>3, <1>2, <1>9
  <2> QED
    BY <2>1, <2>2, <1>9
<1>10. Among(r, X) = Among(p, X) \cup Among(q, X)
  BY <1>8
<1> QED
  BY <1>0, <1>9, <1>10

\* and of a sequence and its tail.
LEMMA AmongTail ==
    ASSUME NEW S, NEW q \in Seq(S), q # <<>>, NEW X
    PROVE  /\ Head(q) \in S /\ Tail(q) \in Seq(S)
           /\ Among(q, X) = Among(Tail(q), X) \cup ({Head(q)} \cap X)
           /\ AtMostOne(q, X) => /\ AtMostOne(Tail(q), X)
                                 /\ Head(q) \in X => Among(Tail(q), X) = {}
<1>0. PICK t : t = Tail(q)
  OBVIOUS
<1>1. /\ Len(q) \in Nat \ {0}
      /\ Head(q) \in S
      /\ t \in Seq(S)
      /\ Len(t) \in Nat
      /\ Len(t) = Len(q) - 1
      /\ \A i \in 1..Len(t) : t[i] = q[i + 1]
      /\ Head(q) = q[1]
  <2>1. Len(q) \in Nat \ {0} /\ Head(q) = q[1]
    BY EmptySeq
  <2>2. /\ Head(q) \in S
        /\ t \in Seq(S)
        /\ Len(t) = Len(q) - 1
        /\ \A i \in 1..Len(t) : t[i] = q[i + 1]
    BY <1>0, HeadTailProperties
  <2> QED
    BY <2>1, <2>2, LenProperties
<1>2. /\ \A d : d \in Among(t, X) <=> d \in X /\ \E i \in 1..Len(t) : t[i] = d
      /\ AtMostOne(t, X) <=> \A i, j \in 1..Len(t) : t[i] \in X /\ t[j] \in X => i = j
  BY <1>1, AmongFacts
<1>3. /\ \A d : d \in Among(q, X) <=> d \in X /\ \E i \in 1..Len(q) : q[i] = d
      /\ AtMostOne(q, X) <=> \A i, j \in 1..Len(q) : q[i] \in X /\ q[j] \in X => i = j
  BY AmongFacts
<1>4. ASSUME NEW i \in 1..Len(t)
      PROVE  i + 1 \in 1..Len(q) /\ t[i] = q[i + 1] /\ i + 1 # 1
  BY <1>1
<1>5. ASSUME NEW i \in 1..Len(q)
      PROVE  i = 1 \/ (i - 1 \in 1..Len(t) /\ t[i - 1] = q[i])
  <2>1. i # 1 => i - 1 \in 1..Len(t) /\ (i - 1) + 1 = i
    BY <1>1
  <2> QED
    BY <2>1, <1>4
<1>6. 1 \in 1..Len(q)
  BY <1>1
<1>7. ASSUME NEW d PROVE d \in Among(q, X) <=> d \in Among(t, X) \cup ({Head(q)} \cap X)
  <2>1. d \in Among(q, X) => d \in Among(t, X) \cup ({Head(q)} \cap X)
    <3>1. ASSUME NEW i \in 1..Len(q), q[i] = d, d \in X
          PROVE  d \in Among(t, X) \cup ({Head(q)} \cap X)
      <4>1. CASE i = 1
        BY <4>1, <3>1, <1>1
      <4>2. CASE i # 1
        <5>1. i - 1 \in 1..Len(t) /\ t[i - 1] = d
          BY <4>2, <3>1, <1>5
        <5> QED
          BY <5>1, <3>1, <1>2
      <4> QED
        BY <4>1, <4>2
    <3> QED
      BY <3>1, <1>3
  <2>2. d \in Among(t, X) => d \in Among(q, X)
    BY <1>2, <1>3, <1>4
  <2>3. d \in {Head(q)} \cap X => d \in Among(q, X)
    BY <1>1, <1>3, <1>6
  <2> QED
    BY <2>1, <2>2, <2>3
<1>8. ASSUME AtMostOne(q, X)
      PROVE  AtMostOne(t, X)
  <2> SUFFICES ASSUME NEW i \in 1..Len(t), NEW j \in 1..Len(t), t[i] \in X, t[j] \in X
               PROVE  i = j
    BY <1>2
  <2>1. i + 1 = j + 1
    BY <1>3, <1>4, <1>8
  <2> QED
    BY <2>1
<1>9. ASSUME AtMostOne(q, X), Head(q) \in X
      PROVE  Among(t, X) = {}
  <2> SUFFICES ASSUME NEW i \in 1..Len(t), t[i] \in X
               PROVE  FALSE
    BY <1>2
  <2>1. i + 1 = 1
    <3>1. i + 1 \in 1..Len(q) /\ q[i + 1] \in X /\ q[1] \in X
      BY <1>1, <1>4, <1>9
    <3> QED
      BY <3>1, <1>3, <1>6, <1>9
  <2> QED
    BY <2>1, <1>4
<1>10. Among(q, X) = Among(t, X) \cup ({Head(q)} \cap X)
  BY <1>7
<1> QED
  BY <1>0, <1>1, <1>8, <1>9, <1>10

-----------------------------------------------------------------------------
(* FlattenSeq. *)

\* FlattenSeq q is the last of the sequences f[1] = q[1], f[i] = f[i - 1] \o q[i].
Flattens(f, q, n, T) ==
    /\ f \in [1..n -> Seq(T)]
    /\ f[1] = q[1]
    /\ \A i \in 2..n : f[i] = f[i - 1] \o q[i]

\* The recursion of FlattenSeq has a solution.
LEMMA FlattensExists ==
    ASSUME NEW T, NEW q \in Seq(Seq(T))
    PROVE  \A n \in 1..Len(q) : \E f : Flattens(f, q, n, T)
<1> DEFINE S == {n \in Nat : n < Len(q) => \E f : Flattens(f, q, n + 1, T)}
<1>1. Len(q) \in Nat /\ \A i \in 1..Len(q) : q[i] \in Seq(T)
  BY LenProperties, ElementOfSeq
<1>2. 0 \in S
  <2>1. ASSUME 0 < Len(q)
        PROVE  \E f : Flattens(f, q, 0 + 1, T)
    <3> DEFINE g == [i \in 1..1 |-> q[1]]
    <3>1. q[1] \in Seq(T)
      BY <1>1, <2>1
    <3>2. g \in [1..1 -> Seq(T)] /\ g[1] = q[1] /\ (2..1) = {} /\ 0 + 1 = 1
      BY <3>1
    <3>3. Flattens(g, q, 0 + 1, T)
      BY <3>2 DEF Flattens
    <3> QED
      BY <3>3
  <2> QED
    BY <2>1
<1>3. ASSUME NEW n \in Nat, n \in S
      PROVE  n + 1 \in S
  <2>1. ASSUME n + 1 < Len(q)
        PROVE  \E f : Flattens(f, q, (n + 1) + 1, T)
    <3>1. PICK f : Flattens(f, q, n + 1, T)
      BY <1>1, <1>3, <2>1
    <3>2. f \in [1..(n + 1) -> Seq(T)] /\ f[1] = q[1] /\ \A i \in 2..(n + 1) : f[i] = f[i - 1] \o q[i]
      BY <3>1 DEF Flattens
    <3>3. PICK e : e = f[n + 1] \o q[n + 2]
      OBVIOUS
    <3>4. e \in Seq(T)
      <4>1. f[n + 1] \in Seq(T) /\ q[n + 2] \in Seq(T)
        BY <1>1, <2>1, <3>2
      <4> QED
        BY <3>3, <4>1, ConcatProperties
    <3> DEFINE g == [i \in 1..(n + 2) |-> IF i = n + 2 THEN e ELSE f[i]]
    <3>5. \A i \in 1..(n + 2) : g[i] = IF i = n + 2 THEN e ELSE f[i]
      OBVIOUS
    <3>6. \A i \in 1..(n + 2) : i = n + 2 \/ i \in 1..(n + 1)
      OBVIOUS
    <3>7. g \in [1..(n + 2) -> Seq(T)]
      BY <3>2, <3>4, <3>6
    <3> HIDE DEF g
    <3>8. g[1] = q[1]
      BY <3>2, <3>5
    <3>9. ASSUME NEW i \in 2..(n + 2)
          PROVE  g[i] = g[i - 1] \o q[i]
      <4>1. i \in 1..(n + 2) /\ i - 1 \in 1..(n + 2) /\ i - 1 # n + 2 /\ i - 1 \in 1..(n + 1)
        OBVIOUS
      <4>2. g[i - 1] = f[i - 1]
        BY <3>5, <4>1
      <4>3. CASE i = n + 2
        <5>1. i - 1 = n + 1
          BY <4>3
        <5> QED
          BY <3>3, <3>5, <4>1, <4>2, <4>3, <5>1
      <4>4. CASE i # n + 2
        <5>1. i \in 2..(n + 1)
          BY <4>4
        <5> QED
          BY <3>2, <3>5, <4>1, <4>2, <4>4, <5>1
      <4> QED
        BY <4>3, <4>4
    <3>10. Flattens(g, q, n + 2, T)
      BY <3>7, <3>8, <3>9 DEF Flattens
    <3>11. (n + 1) + 1 = n + 2
      OBVIOUS
    <3> QED
      BY <3>10, <3>11
  <2> QED
    BY <2>1
<1> HIDE DEF S
<1>4. \A n \in Nat : n \in S
  BY <1>2, <1>3, Induction
<1>5. ASSUME NEW n \in 1..Len(q)
      PROVE  \E f : Flattens(f, q, n, T)
  <2>1. n - 1 \in Nat /\ n - 1 < Len(q) /\ (n - 1) + 1 = n
    BY <1>1
  <2>2. \E f : Flattens(f, q, (n - 1) + 1, T)
    BY <1>4, <2>1 DEF S
  <2> QED
    BY <2>1, <2>2
<1> QED
  BY <1>5

\* FlattenSeq by its recursion.
LEMMA FlattenSeqIs ==
    ASSUME NEW T, NEW q \in Seq(Seq(T))
    PROVE  /\ q = << >> => FlattenSeq(q) = << >>
           /\ q # << >> => /\ Len(q) \in Nat \ {0}
                           /\ \E f : Flattens(f, q, Len(q), T) /\ FlattenSeq(q) = f[Len(q)]
<1>1. ASSUME q = << >>
      PROVE  FlattenSeq(q) = << >>
  <2>1. Len(q) = 0
    BY <1>1
  <2> QED
    BY <1>1, <2>1 DEF FlattenSeq
<1>2. ASSUME q # << >>
      PROVE  Len(q) \in Nat \ {0} /\ \E f : Flattens(f, q, Len(q), T) /\ FlattenSeq(q) = f[Len(q)]
  <2>1. Len(q) \in Nat \ {0}
    BY <1>2, EmptySeq, LenProperties
  <2>2. PICK flatten :
              /\ flatten = CHOOSE f : f = [i \in 1..Len(q) |-> IF i = 1 THEN q[i] ELSE f[i - 1] \o q[i]]
              /\ FlattenSeq(q) = flatten[Len(q)]
    BY <2>1 DEF FlattenSeq
  <2>3. PICK f : Flattens(f, q, Len(q), T)
    BY <2>1, FlattensExists
  <2>4. f = [i \in 1..Len(q) |-> IF i = 1 THEN q[i] ELSE f[i - 1] \o q[i]]
    <3>1. f \in [1..Len(q) -> Seq(T)] /\ f[1] = q[1] /\ \A i \in 2..Len(q) : f[i] = f[i - 1] \o q[i]
      BY <2>3 DEF Flattens
    <3>2. \A i \in 1..Len(q) : i = 1 \/ i \in 2..Len(q)
      BY <2>1
    <3>3. \A i \in 1..Len(q) : f[i] = IF i = 1 THEN q[i] ELSE f[i - 1] \o q[i]
      BY <3>1, <3>2
    <3> QED
      BY <3>1, <3>3
  <2>5. flatten = [i \in 1..Len(q) |-> IF i = 1 THEN q[i] ELSE flatten[i - 1] \o q[i]]
    BY ONLY <2>2, <2>4
  <2>6. Flattens(flatten, q, Len(q), T)
    <3>1. \A i \in 1..Len(q) : flatten[i] = IF i = 1 THEN q[i] ELSE flatten[i - 1] \o q[i]
      <4>1. PICK h : h = [i \in 1..Len(q) |-> IF i = 1 THEN q[i] ELSE flatten[i - 1] \o q[i]]
        OBVIOUS
      <4>2. \A i \in 1..Len(q) : h[i] = IF i = 1 THEN q[i] ELSE flatten[i - 1] \o q[i]
        BY ONLY <4>1
      <4>3. flatten = h
        BY ONLY <2>5, <4>1
      <4> QED
        BY ONLY <4>2, <4>3
    <3>2. flatten[1] = q[1]
      <4>1. 1 \in 1..Len(q)
        BY <2>1
      <4> QED
        BY ONLY <3>1, <4>1
    <3>3. \A i \in 2..Len(q) : flatten[i] = flatten[i - 1] \o q[i]
      <4>1. \A i \in 2..Len(q) : i \in 1..Len(q) /\ i # 1
        BY <2>1
      <4> QED
        BY ONLY <3>1, <4>1
    <3> DEFINE Z == {n \in Nat : n < Len(q) => flatten[n + 1] \in Seq(T)}
    <3>4. \A i \in 1..Len(q) : q[i] \in Seq(T)
      BY LenProperties, ElementOfSeq
    <3>5. 0 \in Z
      BY <2>1, <3>2, <3>4
    <3>6. ASSUME NEW n \in Nat, n \in Z
          PROVE  n + 1 \in Z
      <4>1. ASSUME n + 1 < Len(q)
            PROVE  flatten[(n + 1) + 1] \in Seq(T)
        <5>1. flatten[n + 1] \in Seq(T)
          BY <2>1, <3>6, <4>1
        <5>2. n + 2 \in 2..Len(q) /\ n + 2 \in 1..Len(q) /\ (n + 2) - 1 = n + 1 /\ (n + 1) + 1 = n + 2
          BY <2>1, <4>1
        <5>3. flatten[n + 2] = flatten[n + 1] \o q[n + 2]
          BY ONLY <3>3, <5>2
        <5>4. flatten[n + 1] \o q[n + 2] \in Seq(T)
          BY <3>4, <5>1, <5>2, ConcatProperties
        <5> QED
          BY ONLY <5>2, <5>3, <5>4
      <4> QED
        BY <4>1
    <3> HIDE DEF Z
    <3>7. \A n \in Nat : n \in Z
      BY <3>5, <3>6, Induction
    <3>8. ASSUME NEW i \in 1..Len(q)
          PROVE  flatten[i] \in Seq(T)
      <4>1. i - 1 \in Nat /\ i - 1 < Len(q) /\ (i - 1) + 1 = i
        BY <2>1
      <4>2. flatten[(i - 1) + 1] \in Seq(T)
        BY <3>7, <4>1 DEF Z
      <4> QED
        BY <4>1, <4>2
    <3>9. flatten \in [1..Len(q) -> Seq(T)]
      BY <2>5, <3>8
    <3> QED
      BY <3>2, <3>3, <3>9 DEF Flattens
  <2> QED
    BY <2>1, <2>2, <2>6
<1> QED
  BY <1>1, <1>2

\* Its elements: those of the parts.
LEMMA FlattenSeqElements ==
    ASSUME NEW T, NEW q \in Seq(Seq(T)), NEW X
    PROVE  /\ FlattenSeq(q) \in Seq(T)
           /\ \A d : d \in Among(FlattenSeq(q), X) <=> \E i \in 1..Len(q) : d \in Among(q[i], X)
           /\ /\ \A i \in 1..Len(q) : AtMostOne(q[i], X)
              /\ \A i, j \in 1..Len(q) : Among(q[i], X) # {} /\ Among(q[j], X) # {} => i = j
              => AtMostOne(FlattenSeq(q), X)
<1>1. CASE q = << >>
  <2>1. FlattenSeq(q) = << >> /\ Len(q) = 0
    BY <1>1, FlattenSeqIs
  <2>2. Among(<< >>, X) = {} /\ AtMostOne(<< >>, X)
    BY AmongEmpty
  <2> QED
    BY <2>1, <2>2
<1>2. CASE q # << >>
  <2>1. Len(q) \in Nat \ {0}
    BY <1>2, FlattenSeqIs
  <2>2. PICK f : Flattens(f, q, Len(q), T) /\ FlattenSeq(q) = f[Len(q)]
    BY <1>2, FlattenSeqIs
  <2>3. f \in [1..Len(q) -> Seq(T)] /\ f[1] = q[1] /\ \A i \in 2..Len(q) : f[i] = f[i - 1] \o q[i]
    BY <2>2 DEF Flattens
  <2>4. \A i \in 1..Len(q) : q[i] \in Seq(T)
    BY LenProperties, ElementOfSeq
  <2> DEFINE Once(n) == /\ \A i \in 1..n : AtMostOne(q[i], X)
                        /\ \A i, j \in 1..n : Among(q[i], X) # {} /\ Among(q[j], X) # {} => i = j
             Holds(n) == /\ \A d : d \in Among(f[n], X) <=> \E i \in 1..n : d \in Among(q[i], X)
                         /\ Once(n) => AtMostOne(f[n], X)
             Z == {n \in Nat : n < Len(q) => Holds(n + 1)}
  <2>5. 0 \in Z
    <3>1. 0 + 1 = 1 /\ 1..1 = {1}
      OBVIOUS
    <3>2. Holds(1)
      BY <2>3, <3>1
    <3> HIDE DEF Holds
    <3> QED
      BY <3>1, <3>2
  <2>6. ASSUME NEW n \in Nat, n \in Z
        PROVE  n + 1 \in Z
    <3>1. ASSUME n + 1 < Len(q)
          PROVE  Holds(n + 2)
      <4>1. n < Len(q) /\ n + 1 \in 1..Len(q) /\ n + 2 \in 1..Len(q) /\ n + 2 \in 2..Len(q)
            /\ (n + 2) - 1 = n + 1
        BY <2>1, <3>1
      <4>2. Holds(n + 1)
        <5> HIDE DEF Holds
        <5> QED
          BY <2>6, <4>1
      <4>3. f[n + 1] \in Seq(T) /\ q[n + 2] \in Seq(T) /\ f[n + 2] = f[n + 1] \o q[n + 2]
        BY <2>3, <2>4, <4>1
      <4>4. /\ Among(f[n + 2], X) = Among(f[n + 1], X) \cup Among(q[n + 2], X)
            /\ AtMostOne(f[n + 1], X) /\ AtMostOne(q[n + 2], X)
                 /\ (Among(f[n + 1], X) = {} \/ Among(q[n + 2], X) = {})
                 => AtMostOne(f[n + 2], X)
        BY <4>3, AmongConcat
      <4>5. /\ \A i \in 1..(n + 2) : i \in 1..(n + 1) \/ i = n + 2
            /\ \A i \in 1..(n + 1) : i \in 1..(n + 2) /\ i # n + 2
            /\ n + 2 \in 1..(n + 2)
        OBVIOUS
      <4>6. \A d : d \in Among(f[n + 1], X) <=> \E i \in 1..(n + 1) : d \in Among(q[i], X)
        BY <4>2
      <4>7. \A d : d \in Among(f[n + 2], X) <=> \E i \in 1..(n + 2) : d \in Among(q[i], X)
        <5>1. \A d : d \in Among(f[n + 2], X) <=> d \in Among(f[n + 1], X) \/ d \in Among(q[n + 2], X)
          BY <4>4
        <5> QED
          BY <4>5, <4>6, <5>1
      <4>8. ASSUME Once(n + 2)
            PROVE  AtMostOne(f[n + 2], X)
        <5>1. Once(n + 1)
          BY <4>5, <4>8
        <5>2. AtMostOne(f[n + 1], X)
          BY <4>2, <5>1
        <5>3. AtMostOne(q[n + 2], X)
          BY <4>5, <4>8
        <5>4. ASSUME Among(f[n + 1], X) # {}, Among(q[n + 2], X) # {}
              PROVE  FALSE
          <6>1. PICK d : d \in Among(f[n + 1], X)
            BY <5>4
          <6>2. PICK i \in 1..(n + 1) : d \in Among(q[i], X)
            BY <4>6, <6>1
          <6>3. Among(q[i], X) # {} /\ i \in 1..(n + 2) /\ i # n + 2
            BY <4>5, <6>2
          <6> QED
            BY <4>5, <4>8, <5>4, <6>3
        <5> QED
          BY <4>4, <5>2, <5>3, <5>4
      <4> QED
        BY <4>7, <4>8
    <3>2. (n + 1) + 1 = n + 2
      OBVIOUS
    <3> HIDE DEF Holds
    <3> QED
      BY <3>1, <3>2
  <2> HIDE DEF Z, Holds
  <2>7. \A n \in Nat : n \in Z
    BY <2>5, <2>6, Induction
  <2>8. Len(q) - 1 \in Nat /\ Len(q) - 1 < Len(q) /\ (Len(q) - 1) + 1 = Len(q)
    BY <2>1
  <2>9. Holds(Len(q))
    <3>1. Len(q) - 1 \in Z
      BY <2>7, <2>8
    <3>2. Holds((Len(q) - 1) + 1)
      BY ONLY <2>8, <3>1 DEF Z
    <3> QED
      BY ONLY <2>8, <3>2
  <2>10. f[Len(q)] \in Seq(T)
    <3>1. Len(q) \in 1..Len(q)
      BY <2>1
    <3> QED
      BY ONLY <2>3, <3>1
  <2> QED
    BY <2>1, <2>2, <2>9, <2>10 DEF Holds
<1> QED
  BY <1>1, <1>2

-----------------------------------------------------------------------------
(* The CRL check. *)

CrlTypes ==
    /\ crl \in AnyCrlConfig
    /\ now \in 0 .. MaxNow
    /\ published \in [Urls -> Crls]
    /\ {memory, disk} \subseteq [Urls -> Entries]
    /\ pending \in [Urls -> Sockets \cup {NoOne}]
    /\ fetch \in [Sockets -> [pc : {"none", "download", "write"}, url : Places, crl : Crls]]
    /\ walk \in [Sockets -> [pc : {"none", "await", "disk", "got", "failed"},
                             on : Sockets \cup {NoOne}, crl : Crls]]
    /\ todo \in [Sockets -> Seq(Certs \X Places)]
    /\ revokedAt \in [Urls -> [Certs -> -1 .. MaxNow]]
    /\ crlFaults \in 0 .. MaxCrlFaults

CrlGood == SocketsOK /\ CrlOK /\ isCrlValidationEnabled /\ CrlInv

\* The invariant of the CRL check, taken apart.
LEMMA CrlGoodIs ==
    ASSUME CrlGood
    PROVE  /\ SocketsOK /\ CrlOK /\ CrlTypes /\ isCrlValidationEnabled /\ CrlInv
           /\ \A u \in Urls : UrlInv(u)
           /\ \A s \in Sockets : FetchInv(s) /\ WalkInv(s)
BY DEF CrlGood, CrlOK, CrlTypes, CrlInv

\* A step of socket s leaves the others.
LEMMA OthersStay ==
    ASSUME CrlGood, NEW s \in Sockets, NEW t \in Sockets \ {s},
           now' = now, revokedAt' = revokedAt,
           sock'[t] = sock[t], walk'[t] = walk[t], todo'[t] = todo[t],
           \A r \in Sockets \ {s} : fetch'[r] = fetch[r],
           fetch[s].pc = "none" \/ fetch'[s] = fetch[s]
    PROVE  FetchInv(t)' /\ WalkInv(t)'
<1>1. FetchInv(t) /\ WalkInv(t) /\ t \in Sockets
  BY CrlGoodIs
<1>2. \A list, u, r : Knows(list, u, r)' = Knows(list, u, r)
  BY DEF Knows
<1>3. FetchInv(t)'
  BY <1>1, <1>2 DEF FetchInv
<1>4. walk[t].pc = "await" => fetch'[walk[t].on] = fetch[walk[t].on]
  BY <1>1 DEF WalkInv
<1> QED
  BY <1>1, <1>2, <1>3, <1>4 DEF WalkInv

\* A url whose entries a step leaves.
LEMMA UrlStays ==
    ASSUME CrlGood, NEW u \in Urls,
           now' = now, revokedAt' = revokedAt, published'[u] = published[u],
           memory'[u] \in {memory[u], NoEntry}, disk'[u] \in {disk[u], NoEntry},
           \/ pending'[u] = NoOne
           \/ pending'[u] = pending[u] /\ fetch'[pending[u]] = fetch[pending[u]]
    PROVE  UrlInv(u)'
<1>1. UrlInv(u)
  BY CrlGoodIs
<1>2. \A list, v, r : Knows(list, v, r)' = Knows(list, v, r)
  BY DEF Knows
<1> QED
  BY <1>1, <1>2 DEF UrlInv, PublishedInv, MemoryInv, DiskInv, PendingInv

\* A socket that starts a fetch awaits it.
LEMMA StartFetchStep ==
    ASSUME CrlGood, NEW s \in Sockets, NEW u \in Urls, startFetch(s, u),
           memory' \in [Urls -> Entries], \A v \in Urls : memory'[v] \in {memory[v], NoEntry},
           walk[s].pc # "await",
           todo'[s] # << >>, Head(todo'[s])[2] = u, todo' \in [Sockets -> Seq(Certs \X Places)],
           \A t \in Sockets \ {s} : todo'[t] = todo[t] /\ sock'[t] = sock[t],
           SocketsOK', sock'[s] = "validating",
           UNCHANGED <<crl, now, published, disk, revokedAt, crlFaults>>
    PROVE  CrlGood'
<1>1. /\ CrlTypes /\ CrlOK /\ isCrlValidationEnabled
      /\ \A v \in Urls : UrlInv(v)
      /\ \A t \in Sockets : FetchInv(t) /\ WalkInv(t)
  BY CrlGoodIs
<1>2. fetch[s].pc = "none"
  <2>1. FetchInv(s)
    BY <1>1
  <2>2. fetch[s] \in [pc : {"none", "download", "write"}, url : Places, crl : Crls]
    BY <1>1, CrlKinds
  <2> QED
    BY <2>1, <2>2 DEF FetchInv
<1>3. isCrlValidationEnabled'
  BY <1>1 DEF isCrlValidationEnabled
<1>4. /\ NoCrl \in Crls /\ NoEntry \in Entries /\ NoOne \notin Sockets
      /\ Validity \in Nat /\ Validity > 0
  BY CrlConstants
<1>5. /\ walk \in [Sockets -> [pc : {"none", "await", "disk", "got", "failed"},
                               on : Sockets \cup {NoOne}, crl : Crls]]
      /\ pending \in [Urls -> Sockets \cup {NoOne}] /\ memory \in [Urls -> Entries]
      /\ fetch \in [Sockets -> [pc : {"none", "download", "write"}, url : Places, crl : Crls]]
      /\ now \in Nat
  BY <1>1, CrlKinds DEF CrlTypes
<1>6. \A list, v, r : Knows(list, v, r)' = Knows(list, v, r)
  BY DEF Knows
<1>7. ASSUME memory' \in [Urls -> Entries], pending' \in [Urls -> Sockets \cup {NoOne}],
             fetch' \in [Sockets -> [pc : {"none", "download", "write"}, url : Places, crl : Crls]],
             walk' \in [Sockets -> [pc : {"none", "await", "disk", "got", "failed"},
                               on : Sockets \cup {NoOne}, crl : Crls]],
             \A t \in Sockets \ {s} : walk'[t] = walk[t] /\ fetch'[t] = fetch[t],
             \A v \in Urls : UrlInv(v)', FetchInv(s)', WalkInv(s)'
      PROVE  CrlGood'
  <2>1. CrlTypes'
    BY <1>1, <1>7 DEF CrlTypes
  <2>2. \A t \in Sockets : FetchInv(t)' /\ WalkInv(t)'
    BY <1>2, <1>7, OthersStay
  <2>3. CrlInv'
    BY <1>7, <2>2 DEF CrlInv
  <2> QED
    BY <1>3, <2>1, <2>3 DEF CrlGood, CrlOK, CrlTypes, CrlInv, WalkInv
<1>8. /\ fetch' = [fetch EXCEPT ![s] = [pc |-> "download", url |-> u, crl |-> NoCrl]]
      /\ pending' = [pending EXCEPT ![u] = s]
      /\ walk' = [walk EXCEPT ![s] = [pc |-> "await", on |-> s, crl |-> NoCrl]]
  BY DEF startFetch, At
<1>9. /\ fetch'[s] = [pc |-> "download", url |-> u, crl |-> NoCrl]
      /\ walk'[s] = [pc |-> "await", on |-> s, crl |-> NoCrl]
      /\ pending'[u] = s
  BY <1>5, <1>8
<1>10. ASSUME NEW v \in Urls
      PROVE  UrlInv(v)'
  <2>1. CASE v # u
    <3>1. pending'[v] = pending[v]
      BY <1>5, <1>8, <2>1
    <3>2. pending[v] # NoOne => fetch[pending[v]].pc # "none"
      BY <1>1 DEF UrlInv, PublishedInv, MemoryInv, DiskInv, PendingInv
    <3>3. \/ pending'[v] = NoOne
          \/ pending'[v] = pending[v] /\ fetch'[pending[v]] = fetch[pending[v]]
      <4>1. CASE pending[v] = NoOne
        BY ONLY <3>1, <4>1
      <4>2. CASE pending[v] # NoOne
        <5>1. pending[v] \in Sockets /\ pending[v] # s
          BY <1>2, <1>5, <3>2, <4>2
        <5> QED
          BY <1>5, <1>8, <3>1, <5>1
      <4> QED
        BY <4>1, <4>2
    <3> QED
      BY <3>3, UrlStays
  <2>2. CASE v = u
    <3>1. UrlInv(u)
      BY <1>1
    <3> QED
      BY <1>6, <1>9, <2>2, <3>1 DEF UrlInv, PublishedInv, MemoryInv, DiskInv, PendingInv
  <2> QED
    BY <2>1, <2>2
<1>11. FetchInv(s)' /\ WalkInv(s)'
  BY <1>9 DEF FetchInv, WalkInv
<1> QED
  BY <1>4, <1>5, <1>7, <1>8, <1>10, <1>11 DEF Places

\* A socket that asks for a CRL awaits it, has it, or looks for it in the directory.
LEMMA GetCrlStep ==
    ASSUME CrlGood, NEW s \in Sockets, NEW u \in Urls, getCrl(s, u),
           walk[s].pc # "await",
           todo'[s] # << >>, Head(todo'[s])[2] = u, todo' \in [Sockets -> Seq(Certs \X Places)],
           \A t \in Sockets \ {s} : todo'[t] = todo[t] /\ sock'[t] = sock[t],
           SocketsOK', sock'[s] = "validating",
           UNCHANGED <<crl, now, published, disk, revokedAt, crlFaults>>
    PROVE  CrlGood'
<1>1. /\ CrlTypes /\ CrlOK /\ isCrlValidationEnabled
      /\ \A v \in Urls : UrlInv(v)
      /\ \A t \in Sockets : FetchInv(t) /\ WalkInv(t)
  BY CrlGoodIs
<1>2. fetch[s].pc = "none"
  <2>1. FetchInv(s)
    BY <1>1
  <2>2. fetch[s] \in [pc : {"none", "download", "write"}, url : Places, crl : Crls]
    BY <1>1, CrlKinds
  <2> QED
    BY <2>1, <2>2 DEF FetchInv
<1>3. isCrlValidationEnabled'
  BY <1>1 DEF isCrlValidationEnabled
<1>4. /\ NoCrl \in Crls /\ NoEntry \in Entries /\ NoOne \notin Sockets
      /\ Validity \in Nat /\ Validity > 0
  BY CrlConstants
<1>5. /\ walk \in [Sockets -> [pc : {"none", "await", "disk", "got", "failed"},
                               on : Sockets \cup {NoOne}, crl : Crls]]
      /\ pending \in [Urls -> Sockets \cup {NoOne}] /\ memory \in [Urls -> Entries]
      /\ fetch \in [Sockets -> [pc : {"none", "download", "write"}, url : Places, crl : Crls]]
      /\ now \in Nat
  BY <1>1, CrlKinds DEF CrlTypes
<1>6. \A list, v, r : Knows(list, v, r)' = Knows(list, v, r)
  BY DEF Knows
<1>7. ASSUME memory' \in [Urls -> Entries], pending' \in [Urls -> Sockets \cup {NoOne}],
             fetch' \in [Sockets -> [pc : {"none", "download", "write"}, url : Places, crl : Crls]],
             walk' \in [Sockets -> [pc : {"none", "await", "disk", "got", "failed"},
                               on : Sockets \cup {NoOne}, crl : Crls]],
             \A t \in Sockets \ {s} : walk'[t] = walk[t] /\ fetch'[t] = fetch[t],
             \A v \in Urls : UrlInv(v)', FetchInv(s)', WalkInv(s)'
      PROVE  CrlGood'
  <2>1. CrlTypes'
    BY <1>1, <1>7 DEF CrlTypes
  <2>2. \A t \in Sockets : FetchInv(t)' /\ WalkInv(t)'
    BY <1>2, <1>7, OthersStay
  <2>3. CrlInv'
    BY <1>7, <2>2 DEF CrlInv
  <2> QED
    BY <1>3, <2>1, <2>3 DEF CrlGood, CrlOK, CrlTypes, CrlInv, WalkInv
<1>8. CASE /\ pending[u] # NoOne
           /\ At(s, "await", pending[u])
           /\ UNCHANGED <<memory, pending, fetch>>
  <2>1. pending[u] \in Sockets /\ fetch[pending[u]].pc # "none" /\ fetch[pending[u]].url = u
    BY <1>1, <1>5, <1>8 DEF UrlInv, PublishedInv, MemoryInv, DiskInv, PendingInv
  <2>2. walk' = [walk EXCEPT ![s] = [pc |-> "await", on |-> pending[u], crl |-> NoCrl]]
    BY <1>8 DEF At
  <2>3. walk'[s] = [pc |-> "await", on |-> pending[u], crl |-> NoCrl]
    BY <1>5, <2>2
  <2>4. \A v \in Urls : UrlInv(v)'
    BY <1>8, UrlStays
  <2>5. FetchInv(s)' /\ WalkInv(s)'
    BY <1>2, <1>8, <2>1, <2>3 DEF FetchInv, WalkInv
  <2> QED
    BY <1>4, <1>5, <1>7, <1>8, <2>1, <2>2, <2>4, <2>5
<1>9. CASE /\ pending[u] = NoOne
           /\ inMemory(u)
           /\ walk' = [walk EXCEPT ![s] = [pc |-> "got", on |-> NoOne, crl |-> memory[u].crl]]
           /\ UNCHANGED <<memory, pending, fetch>>
  <2>1. memory[u] \in Entries /\ memory[u] # NoEntry /\ memory[u].at > now
    BY <1>5, <1>9 DEF inMemory
  <2>2. memory[u].crl \in Crls /\ memory[u].at \in Int
    BY <2>1, CrlAssumption DEF Entries
  <2>3. Knows(memory[u].crl, u, memory[u].at - 2 * Validity)
    BY <1>1, <2>1 DEF UrlInv, PublishedInv, MemoryInv, DiskInv, PendingInv
  <2>4. Knows(memory[u].crl, u, now - 2 * Validity + 1)
    <3>1. memory[u].at - 2 * Validity \in Int /\ now - 2 * Validity + 1 \in Int
          /\ now - 2 * Validity + 1 <= memory[u].at - 2 * Validity
      BY ONLY <1>4, <1>5, <2>1, <2>2
    <3> QED
      BY ONLY <1>1, <2>3, <3>1, u \in Urls, LowerKnows
  <2>5. walk'[s] = [pc |-> "got", on |-> NoOne, crl |-> memory[u].crl]
    BY <1>5, <1>9
  <2>6. \A v \in Urls : UrlInv(v)'
    BY <1>9, UrlStays
  <2>7. FetchInv(s)' /\ WalkInv(s)'
    BY <1>2, <1>6, <1>9, <2>4, <2>5 DEF FetchInv, WalkInv
  <2> QED
    BY <1>4, <1>5, <1>7, <1>9, <2>2, <2>6, <2>7
<1>10. ASSUME memory' \in [Urls -> Entries], \A v \in Urls : memory'[v] \in {memory[v], NoEntry},
              startFetch(s, u)
       PROVE  CrlGood'
  BY <1>10, StartFetchStep
<1>11. CASE /\ pending[u] = NoOne
            /\ ~inMemory(u)
            /\ memory' = IF crl.inMemoryCache THEN [memory EXCEPT ![u] = NoEntry] ELSE memory
            /\ IF crl.onDiskCache THEN At(s, "disk", NoOne) /\ UNCHANGED <<pending, fetch>>
               ELSE startFetch(s, u)
  <2>1. memory' \in [Urls -> Entries] /\ \A v \in Urls : memory'[v] \in {memory[v], NoEntry}
    BY <1>4, <1>5, <1>11
  <2>2. CASE startFetch(s, u)
    BY <1>10, <2>1, <2>2
  <2>3. CASE At(s, "disk", NoOne) /\ UNCHANGED <<pending, fetch>>
    <3>1. walk' = [walk EXCEPT ![s] = [pc |-> "disk", on |-> NoOne, crl |-> NoCrl]]
      BY <2>3 DEF At
    <3>2. walk'[s] = [pc |-> "disk", on |-> NoOne, crl |-> NoCrl]
      BY <1>5, <3>1
    <3>3. \A v \in Urls : UrlInv(v)'
      BY <2>1, <2>3, UrlStays
    <3>4. FetchInv(s)' /\ WalkInv(s)'
      BY <1>2, <2>3, <3>2 DEF FetchInv, WalkInv
    <3> QED
      BY <1>4, <1>5, <1>7, <2>1, <2>3, <3>1, <3>3, <3>4
  <2> QED
    BY <1>11, <2>2, <2>3
<1> QED
  BY <1>8, <1>9, <1>11 DEF getCrl

\* A step of socket s that leaves the time.
LEMMA CrlGoodStep ==
    ASSUME CrlGood, NEW s \in Sockets, CrlTypes', SocketsOK',
           crl' = crl, now' = now, revokedAt' = revokedAt,
           \A t \in Sockets \ {s} : /\ sock'[t] = sock[t] /\ walk'[t] = walk[t]
                                    /\ todo'[t] = todo[t] /\ fetch'[t] = fetch[t],
           fetch[s].pc = "none" \/ fetch'[s] = fetch[s],
           \A u \in Urls : UrlInv(u)', FetchInv(s)', WalkInv(s)'
    PROVE  CrlGood'
<1>1. isCrlValidationEnabled'
  BY CrlGoodIs DEF isCrlValidationEnabled
<1>2. \A t \in Sockets : FetchInv(t)' /\ WalkInv(t)'
  BY OthersStay
<1>3. CrlInv'
  BY <1>2 DEF CrlInv
<1> QED
  BY <1>1, <1>3 DEF CrlGood, CrlOK, CrlTypes, CrlInv, WalkInv

\* A socket that does not wait for a fetch has none.
LEMMA NoFetchOf ==
    ASSUME CrlGood, NEW s \in Sockets, walk[s].pc # "await"
    PROVE  fetch[s].pc = "none"
<1>1. FetchInv(s) /\ fetch[s] \in [pc : {"none", "download", "write"}, url : Places, crl : Crls]
  BY CrlGoodIs, CrlKinds
<1> QED
  BY <1>1 DEF FetchInv

\* The end of a walk, or the beginning of a new connection.
LEMMA EndStep ==
    ASSUME CrlGood, NEW s \in Sockets, walk[s].pc # "await",
           NEW state \in {"corked", "open", "destroyed"}, sock' = [sock EXCEPT ![s] = state],
           fresh' \subseteq Sockets, walk' = [walk EXCEPT ![s] = Resting],
           NEW list \in Seq(Certs \X Places), todo' = [todo EXCEPT ![s] = list],
           UNCHANGED <<crl, now, published, memory, disk, pending, fetch, revokedAt, crlFaults>>
    PROVE  CrlGood'
<1>1. /\ SocketsOK /\ CrlTypes
      /\ \A v \in Urls : UrlInv(v)
      /\ \A t \in Sockets : FetchInv(t) /\ WalkInv(t)
  BY CrlGoodIs
<1>2. fetch[s].pc = "none"
  BY NoFetchOf
<1>3. SocketsOK' /\ sock'[s] = state /\ \A t \in Sockets \ {s} : sock'[t] = sock[t]
  BY <1>1 DEF SocketsOK, SocketStates
<1>4. Resting \in [pc : {"none", "await", "disk", "got", "failed"},
                   on : Sockets \cup {NoOne}, crl : Crls]
  BY CrlConstants DEF Resting
<1>5. CrlTypes' /\ walk'[s] = Resting
  BY <1>1, <1>4 DEF CrlTypes
<1>6. \A t \in Sockets \ {s} : walk'[t] = walk[t] /\ todo'[t] = todo[t] /\ fetch'[t] = fetch[t]
  BY <1>1 DEF CrlTypes
<1>7. \A u \in Urls : UrlInv(u)'
  BY UrlStays
<1>8. FetchInv(s)' /\ WalkInv(s)'
  BY <1>2, <1>3, <1>5 DEF FetchInv, WalkInv, Resting
<1> QED
  BY <1>2, <1>3, <1>5, <1>6, <1>7, <1>8, CrlGoodStep

\* The points of a chain, with their types.
LEMMA WorkListTypes ==
    ASSUME NEW s \in Sockets
    PROVE  WorkList(s) \in Seq(Certs \X Places)
<1>1. Chain[s] \in Seq(Certs)
  BY ChainAssumption
<1>2. ASSUME NEW c \in Certs
      PROVE  Points(c) \in Seq(Certs \X Places)
  <2>1. CrlUrls[c] \in Seq(Urls)
    BY CrlAssumption
  <2>2. << >> \in Seq(Certs \X Places)
    OBVIOUS
  <2>3. << <<c, "none">> >> \in Seq(Certs \X Places)
    <3>1. <<c, "none">> \in Certs \X Places
      BY DEF Places
    <3> QED
      BY <3>1
  <2>4. [i \in DOMAIN CrlUrls[c] |-> <<c, CrlUrls[c][i]>>] \in Seq(Certs \X Places)
    <3>1. DOMAIN CrlUrls[c] = 1..Len(CrlUrls[c]) /\ Len(CrlUrls[c]) \in Nat
      BY <2>1, LenProperties
    <3>2. \A i \in 1..Len(CrlUrls[c]) : CrlUrls[c][i] \in Urls
      BY <2>1, ElementOfSeq
    <3>3. \A i \in 1..Len(CrlUrls[c]) : <<c, CrlUrls[c][i]>> \in Certs \X Places
      BY <3>2 DEF Places
    <3>4. [i \in 1..Len(CrlUrls[c]) |-> <<c, CrlUrls[c][i]>>]
             \in [1..Len(CrlUrls[c]) -> Certs \X Places]
      BY <3>3
    <3> QED
      BY <3>1, <3>4, SeqDef
  <2> QED
    BY <2>2, <2>3, <2>4 DEF Points
<1> PICK q : q = [i \in DOMAIN Chain[s] |-> Points(Chain[s][i])]
  OBVIOUS
<1>3. q \in Seq(Seq(Certs \X Places))
  <2>1. DOMAIN Chain[s] = 1..Len(Chain[s]) /\ Len(Chain[s]) \in Nat
    BY <1>1, LenProperties
  <2>2. \A i \in 1..Len(Chain[s]) : Chain[s][i] \in Certs
    BY <1>1, ElementOfSeq
  <2>3. q \in [1..Len(Chain[s]) -> Seq(Certs \X Places)]
    BY <1>2, <2>1, <2>2
  <2> QED
    BY <2>1, <2>3, SeqDef
<1>4. FlattenSeq(q) \in Seq(Certs \X Places)
  BY <1>3, FlattenSeqElements
<1> QED
  BY <1>4 DEF WorkList

\* A list of points that is not empty.
LEMMA PointsHead ==
    ASSUME NEW list \in Seq(Certs \X Places), list # << >>
    PROVE  /\ Head(list) \in Certs \X Places
           /\ Head(list)[1] \in Certs /\ Head(list)[2] \in Places
           /\ Head(list)[2] # "none" => Head(list)[2] \in Urls
           /\ Tail(list) \in Seq(Certs \X Places)
<1>1. Head(list) \in Certs \X Places /\ Tail(list) \in Seq(Certs \X Places)
  OBVIOUS
<1> QED
  BY <1>1 DEF Places

\* The walk ends or goes on.
LEMMA AdvanceStep ==
    ASSUME CrlGood, NEW s \in Sockets, NEW list \in Seq(Certs \X Places),
           walk[s].pc # "await", sock[s] \in {"corked", "validating"},
           sock[s] = "corked" => list = << >> \/ Head(list)[2] = "none",
           Advance(s, list), fresh' \subseteq Sockets,
           UNCHANGED <<crl, now, published, disk, revokedAt, crlFaults>>
    PROVE  CrlGood'
<1>1. SocketsOK /\ CrlTypes
  BY CrlGoodIs
<1>2. << >> \in Seq(Certs \X Places)
  OBVIOUS
<1>3. CASE list # << >> /\ Head(list)[2] = "none"
  <2>1. Failed(s, FALSE) /\ UNCHANGED <<memory, pending, fetch>>
    BY <1>3 DEF Advance
  <2>2. /\ walk' = [walk EXCEPT ![s] = Resting] /\ todo' = [todo EXCEPT ![s] = << >>]
        /\ Uncork(s) \/ Destroy(s)
    BY <2>1 DEF Failed
  <2>3. sock' = [sock EXCEPT ![s] = "open"] \/ sock' = [sock EXCEPT ![s] = "destroyed"]
    BY <2>2 DEF Uncork, Destroy
  <2> QED
    BY <1>2, <2>1, <2>2, <2>3, EndStep
<1>4. CASE list = << >>
  <2>1. Continue(s, list)
    BY <1>4 DEF Advance
  <2>2. todo' = [todo EXCEPT ![s] = list] /\ Allowed(s) /\ UNCHANGED <<memory, pending, fetch>>
    BY <1>4, <2>1 DEF Continue
  <2>3. walk' = [walk EXCEPT ![s] = Resting] /\ sock' = [sock EXCEPT ![s] = "open"]
    BY <2>2 DEF Allowed, Uncork
  <2> QED
    BY <2>2, <2>3, EndStep
<1>5. CASE list # << >> /\ Head(list)[2] # "none"
  <2>1. Continue(s, list)
    BY <1>5 DEF Advance
  <2>2. todo' = [todo EXCEPT ![s] = list] /\ getCrl(s, Head(list)[2]) /\ UNCHANGED sock
    BY <1>5, <2>1 DEF Continue
  <2>3. Head(list)[2] \in Urls
    BY <1>5, PointsHead
  <2>4. todo' \in [Sockets -> Seq(Certs \X Places)] /\ todo'[s] = list
        /\ \A t \in Sockets \ {s} : todo'[t] = todo[t]
    BY <1>1, <2>2 DEF CrlTypes
  <2>5. SocketsOK' /\ sock'[s] = "validating" /\ \A t \in Sockets \ {s} : sock'[t] = sock[t]
    BY <1>1, <1>5, <2>2 DEF SocketsOK
  <2> QED
    BY <1>5, <2>2, <2>3, <2>4, <2>5, GetCrlStep
<1> QED
  BY <1>3, <1>4, <1>5

\* corkSocketAndValidateCrl keeps the invariant of the CRL check.
LEMMA CorkSocketStep ==
    ASSUME CrlGood, NEW s \in Sockets, corkSocketAndValidateCrl(s)
    PROVE  CrlGood'
<1>1. SocketsOK /\ CrlTypes /\ WalkInv(s)
  BY CrlGoodIs
<1>2. /\ sock[s] = "corked" /\ fresh' = fresh \cup {s}
      /\ UNCHANGED <<crl, now, published, disk, revokedAt, crlFaults>>
  BY DEF corkSocketAndValidateCrl, NoCrlFault
<1>3. walk[s].pc = "none"
  BY <1>1, <1>2 DEF WalkInv
<1>4. PICK list : list = WorkList(s)
  OBVIOUS
<1>5. list \in Seq(Certs \X Places)
  BY <1>4, WorkListTypes
<1>6. fresh' \subseteq Sockets
  BY <1>1, <1>2 DEF SocketsOK
<1>7. IF list = << >> \/ Head(list)[2] = "none"
      THEN Advance(s, list)
      ELSE /\ sock' = [sock EXCEPT ![s] = "validating"]
           /\ todo' = [todo EXCEPT ![s] = list]
           /\ getCrl(s, Head(list)[2])
  BY <1>4, Zenon DEF corkSocketAndValidateCrl
<1>8. CASE list = << >> \/ Head(list)[2] = "none"
  BY <1>2, <1>3, <1>5, <1>6, <1>7, <1>8, AdvanceStep
<1>9. CASE list # << >> /\ Head(list)[2] # "none"
  <2>1. /\ sock' = [sock EXCEPT ![s] = "validating"]
        /\ todo' = [todo EXCEPT ![s] = list]
        /\ getCrl(s, Head(list)[2])
    BY <1>7, <1>9
  <2>2. Head(list)[2] \in Urls
    BY <1>5, <1>9, PointsHead
  <2>3. todo' \in [Sockets -> Seq(Certs \X Places)] /\ todo'[s] = list
        /\ \A t \in Sockets \ {s} : todo'[t] = todo[t]
    BY <1>1, <1>5, <2>1 DEF CrlTypes
  <2>4. SocketsOK' /\ sock'[s] = "validating" /\ \A t \in Sockets \ {s} : sock'[t] = sock[t]
    BY <1>1, <1>6, <2>1 DEF SocketsOK, SocketStates
  <2> QED
    BY <1>2, <1>3, <1>9, <2>1, <2>2, <2>3, <2>4, GetCrlStep
<1> QED
  BY <1>8, <1>9

\* So does a walk that getCrl ends,
LEMMA GetCrlThrowsStep ==
    ASSUME CrlGood, NEW s \in Sockets, getCrlThrows(s)
    PROVE  CrlGood'
<1>1. SocketsOK /\ CrlTypes /\ WalkInv(s)
  BY CrlGoodIs
<1>2. /\ walk[s].pc = "failed" /\ Failed(s, FALSE)
      /\ UNCHANGED <<crl, now, published, memory, disk, pending, fetch, revokedAt, crlFaults, fresh>>
  BY DEF getCrlThrows, NoCrlFault
<1>3. sock[s] = "validating"
  BY <1>1, <1>2 DEF WalkInv
<1>4. /\ walk' = [walk EXCEPT ![s] = Resting] /\ todo' = [todo EXCEPT ![s] = << >>]
      /\ Uncork(s) \/ Destroy(s)
  BY <1>2 DEF Failed
<1>5. sock' = [sock EXCEPT ![s] = "open"] \/ sock' = [sock EXCEPT ![s] = "destroyed"]
  BY <1>3, <1>4 DEF Uncork, Destroy
<1>6. << >> \in Seq(Certs \X Places) /\ fresh' \subseteq Sockets
  BY <1>1, <1>2 DEF SocketsOK
<1> QED
  BY <1>2, <1>4, <1>5, <1>6, EndStep

\* the verdict of validateCrl,
LEMMA ValidateCrlStep ==
    ASSUME CrlGood, NEW s \in Sockets, validateCrl(s)
    PROVE  CrlGood'
<1>1. SocketsOK /\ CrlTypes /\ CrlOK /\ WalkInv(s)
  BY CrlGoodIs
<1>2. /\ walk[s].pc = "got"
      /\ UNCHANGED <<crl, now, published, disk, revokedAt, crlFaults, fresh>>
  BY DEF validateCrl, NoCrlFault
<1>3. sock[s] = "validating" /\ todo[s] # << >>
  BY <1>1, <1>2 DEF WalkInv
<1>4. \/ Advance(s, Tail(todo[s]))
      \/ \E revoked \in BOOLEAN : Failed(s, revoked) /\ UNCHANGED <<memory, pending, fetch>>
  BY DEF validateCrl, Trusted
<1>5. fresh' \subseteq Sockets /\ << >> \in Seq(Certs \X Places)
  BY <1>1, <1>2 DEF SocketsOK
<1>6. CASE Advance(s, Tail(todo[s]))
  <2>1. Tail(todo[s]) \in Seq(Certs \X Places)
    BY <1>1, <1>3, CrlKinds, PointsHead
  <2> QED
    BY <1>2, <1>3, <1>5, <1>6, <2>1, AdvanceStep
<1>7. ASSUME NEW revoked \in BOOLEAN, Failed(s, revoked), UNCHANGED <<memory, pending, fetch>>
      PROVE  CrlGood'
  <2>1. /\ walk' = [walk EXCEPT ![s] = Resting] /\ todo' = [todo EXCEPT ![s] = << >>]
        /\ Uncork(s) \/ Destroy(s)
    BY <1>7 DEF Failed
  <2>2. sock' = [sock EXCEPT ![s] = "open"] \/ sock' = [sock EXCEPT ![s] = "destroyed"]
    BY <1>3, <2>1 DEF Uncork, Destroy
  <2> QED
    BY <1>2, <1>5, <1>7, <2>1, <2>2, EndStep
<1> QED
  BY <1>4, <1>6, <1>7

\* a socket that is opened anew,
LEMMA ReconnectStep ==
    ASSUME CrlGood, NEW s \in Sockets, reconnect(s)
    PROVE  CrlGood'
<1>1. SocketsOK /\ CrlTypes /\ WalkInv(s)
  BY CrlGoodIs
<1>2. /\ sock[s] \in {"open", "destroyed"} /\ sock' = [sock EXCEPT ![s] = "corked"]
      /\ fresh' = fresh \ {s}
      /\ UNCHANGED <<crl, now, published, memory, disk, pending, fetch, walk, todo, revokedAt,
                     crlFaults>>
  BY DEF reconnect, crlVars
<1>3. walk[s].pc = "none"
  BY <1>1, <1>2 DEF WalkInv
<1>4. SocketsOK' /\ sock'[s] = "corked" /\ \A t \in Sockets \ {s} : sock'[t] = sock[t]
  BY <1>1, <1>2 DEF SocketsOK, SocketStates
<1>5. CrlTypes'
  BY <1>1, <1>2 DEF CrlTypes
<1>6. \A u \in Urls : UrlInv(u)'
  BY <1>2, UrlStays
<1>7. fetch[s].pc = "none"
  BY <1>3, NoFetchOf
<1>8. FetchInv(s)' /\ WalkInv(s)'
  BY <1>2, <1>3, <1>4, <1>7 DEF FetchInv, WalkInv
<1> QED
  BY <1>2, <1>4, <1>5, <1>6, <1>7, <1>8, CrlGoodStep

\* A CRL that is put into memory: what is known of it since t, for as long as it stays.
LEMMA PutKnows ==
    ASSUME CrlGood, NEW u \in Urls, NEW list \in Crls, Knows(list, u, now - Validity),
           memory' \in [Urls -> Entries], memory'[u] = setCrlInMemory(list),
           now' = now, revokedAt' = revokedAt
    PROVE  MemoryInv(u)'
<1>1. CrlOK
  BY CrlGoodIs
<1>2. /\ setCrlInMemory(list).crl = list /\ setCrlInMemory(list).at \in Int
      /\ setCrlInMemory(list).at <= now + Validity
  BY <1>1, PutInMemory
<1>3. now \in Nat /\ Validity \in Nat
  BY <1>1, CrlKinds, CrlConstants
<1>4. /\ now - Validity \in Int /\ setCrlInMemory(list).at - 2 * Validity \in Int
      /\ setCrlInMemory(list).at - 2 * Validity <= now - Validity
  BY <1>2, <1>3
<1>5. Knows(list, u, setCrlInMemory(list).at - 2 * Validity)
  BY ONLY <1>1, <1>4, LowerKnows, u \in Urls, Knows(list, u, now - Validity)
<1>6. \A l, v, r : Knows(l, v, r)' = Knows(l, v, r)
  BY DEF Knows
<1>7. PICK e : e = setCrlInMemory(list)
  OBVIOUS
<1>8. /\ memory'[u] = e /\ e.crl = list /\ e.at <= now + Validity
      /\ Knows(list, u, e.at - 2 * Validity)
  BY <1>2, <1>5, <1>7
<1>9. \A c \in Certs : c \notin list.revoked =>
         revokedAt'[u][c] = Never \/ revokedAt'[u][c] >= e.at - 2 * Validity
  BY <1>8 DEF Knows
<1> QED
  BY ONLY <1>8, <1>9, now' = now DEF MemoryInv, Knows

\* a CRL that is read from the directory,
LEMMA GetCrlFromDiskStep ==
    ASSUME CrlGood, NEW s \in Sockets, getCrlFromDisk(s)
    PROVE  CrlGood'
<1>1. /\ SocketsOK /\ CrlOK /\ CrlTypes /\ WalkInv(s)
      /\ \A v \in Urls : UrlInv(v)
  BY CrlGoodIs
<1>2. PICK u : u = Head(todo[s])[2]
  OBVIOUS
<1>3. /\ walk[s].pc = "disk"
      /\ \/ /\ usableOnDisk(u)
            /\ walk' = [walk EXCEPT ![s] = [pc |-> "got", on |-> NoOne, crl |-> disk[u].crl]]
            /\ memory' = IF crl.inMemoryCache
                         THEN [memory EXCEPT ![u] = setCrlInMemory(disk[u].crl)]
                         ELSE memory
            /\ UNCHANGED <<pending, fetch>>
         \/ startFetch(s, u) /\ UNCHANGED memory
      /\ UNCHANGED <<crl, now, published, disk, todo, revokedAt, crlFaults, sock, fresh>>
  BY <1>2 DEF getCrlFromDisk, NoCrlFault, socketVars
<1>4. todo[s] # << >> /\ u \in Urls /\ sock[s] = "validating"
  BY <1>1, <1>2, <1>3 DEF WalkInv
<1>5. fetch[s].pc = "none"
  BY <1>3, NoFetchOf
<1>6. SocketsOK'
  BY <1>1, <1>3 DEF SocketsOK
<1>7. /\ walk \in [Sockets -> [pc : {"none", "await", "disk", "got", "failed"},
                               on : Sockets \cup {NoOne}, crl : Crls]]
      /\ pending \in [Urls -> Sockets \cup {NoOne}]
      /\ memory \in [Urls -> Entries] /\ disk \in [Urls -> Entries]
      /\ fetch \in [Sockets -> [pc : {"none", "download", "write"}, url : Places, crl : Crls]]
      /\ now \in Nat /\ Validity \in Nat /\ Validity > 0 /\ NoCrl \in Crls /\ NoOne \notin Sockets
  BY <1>1, CrlKinds, CrlConstants DEF CrlTypes
<1>8. CASE /\ usableOnDisk(u)
           /\ walk' = [walk EXCEPT ![s] = [pc |-> "got", on |-> NoOne, crl |-> disk[u].crl]]
           /\ memory' = IF crl.inMemoryCache
                        THEN [memory EXCEPT ![u] = setCrlInMemory(disk[u].crl)]
                        ELSE memory
           /\ UNCHANGED <<pending, fetch>>
  <2>1. disk[u] \in Entries /\ disk[u] # NoEntry /\ now - disk[u].at <= Validity
    BY <1>4, <1>7, <1>8 DEF usableOnDisk
  <2>2. PICK list : list = disk[u].crl
    OBVIOUS
  <2>3. list \in Crls /\ disk[u].at \in Int
    BY <2>1, <2>2, CrlConstants DEF Entries
  <2>4. Knows(list, u, disk[u].at)
    BY <1>1, <1>4, <2>1, <2>2 DEF UrlInv, DiskInv
  <2>5. Knows(list, u, now - Validity) /\ Knows(list, u, now - 2 * Validity + 1)
    <3>1. /\ now - Validity \in Int /\ now - 2 * Validity + 1 \in Int
          /\ now - Validity <= disk[u].at /\ now - 2 * Validity + 1 <= disk[u].at
      BY ONLY <1>7, <2>1, <2>3
    <3> QED
      BY ONLY <1>1, <1>4, <2>3, <2>4, <3>1, LowerKnows
  <2>6. memory' \in [Urls -> Entries]
    <3>1. setCrlInMemory(list) \in Entries
      BY <1>1, <2>3, PutInMemory
    <3> QED
      BY <1>7, <1>8, <2>2, <3>1
  <2>7. walk'[s] = [pc |-> "got", on |-> NoOne, crl |-> list]
    BY <1>7, <1>8, <2>2
  <2>8. CrlTypes'
    BY <1>1, <1>3, <1>7, <1>8, <2>2, <2>3, <2>6 DEF CrlTypes
  <2>9. ASSUME NEW v \in Urls
        PROVE  UrlInv(v)'
    <3>1. CASE memory'[v] = memory[v]
      BY <1>3, <1>8, <3>1, UrlStays
    <3>2. CASE memory'[v] # memory[v]
      <4>1. v = u /\ memory'[u] = setCrlInMemory(list)
        BY <1>4, <1>7, <1>8, <2>2, <3>2
      <4>2. MemoryInv(u)'
        BY <1>3, <1>4, <2>3, <2>5, <2>6, <4>1, PutKnows
      <4>3. UrlInv(u) /\ \A l, w, r : Knows(l, w, r)' = Knows(l, w, r)
        BY <1>1, <1>3, <1>4 DEF Knows
      <4> QED
        BY <1>3, <1>8, <4>1, <4>2, <4>3 DEF UrlInv, PublishedInv, DiskInv, PendingInv
    <3> QED
      BY <3>1, <3>2
  <2>10. FetchInv(s)' /\ WalkInv(s)'
    <3>1. Knows(list, u, now - 2 * Validity + 1)'
      BY <1>3, <2>5 DEF Knows
    <3> QED
      BY <1>2, <1>3, <1>4, <1>5, <1>8, <2>7, <3>1 DEF FetchInv, WalkInv
  <2> QED
    BY <1>3, <1>5, <1>6, <1>7, <1>8, <2>8, <2>9, <2>10, CrlGoodStep
<1>9. CASE startFetch(s, u) /\ UNCHANGED memory
  <2>1. \A v \in Urls : memory'[v] \in {memory[v], NoEntry}
    BY <1>9
  <2>2. /\ todo'[s] # << >> /\ Head(todo'[s])[2] = u
        /\ todo' \in [Sockets -> Seq(Certs \X Places)]
        /\ \A t \in Sockets \ {s} : todo'[t] = todo[t] /\ sock'[t] = sock[t]
        /\ sock'[s] = "validating" /\ walk[s].pc # "await"
        /\ memory' \in [Urls -> Entries]
    BY <1>1, <1>2, <1>3, <1>4, <1>7, <1>9 DEF CrlTypes
  <2> QED
    BY <2>1, <2>2,  <1>3, <1>4, <1>6, <1>7, <1>9, StartFetchStep
<1> QED
  BY <1>3, <1>8, <1>9

\* The end of a fetch, whose CRL is put where the caches are.
LEMMA ResolveStep ==
    ASSUME CrlGood, NEW s \in Sockets, fetch[s].pc # "none",
           NEW place \in {"got", "failed"}, NEW list \in Crls, Resolve(s, place, list),
           place = "got" => Knows(list, fetch[s].url, now - 2 * Validity + 1),
           memory' \in [Urls -> Entries], disk' \in [Urls -> Entries],
           \A u \in Urls : MemoryInv(u)' /\ DiskInv(u)',
           crlFaults' \in 0 .. MaxCrlFaults,
           UNCHANGED <<crl, now, published, todo, revokedAt, socketVars>>
    PROVE  CrlGood'
<1>1. /\ SocketsOK /\ CrlOK /\ CrlTypes /\ isCrlValidationEnabled
      /\ \A v \in Urls : UrlInv(v)
      /\ \A t \in Sockets : FetchInv(t) /\ WalkInv(t)
  BY CrlGoodIs
<1>2. PICK rest : rest = [pc |-> place, on |-> NoOne, crl |-> list]
  OBVIOUS
<1>3. /\ walk' = [t \in Sockets |->
                     IF walk[t].pc = "await" /\ walk[t].on = s THEN rest ELSE walk[t]]
      /\ pending' = [pending EXCEPT ![fetch[s].url] = NoOne]
      /\ fetch' = [fetch EXCEPT ![s] = NoFetch]
  BY <1>2 DEF Resolve
<1>4. /\ walk \in [Sockets -> [pc : {"none", "await", "disk", "got", "failed"},
                               on : Sockets \cup {NoOne}, crl : Crls]]
      /\ pending \in [Urls -> Sockets \cup {NoOne}]
      /\ fetch \in [Sockets -> [pc : {"none", "download", "write"}, url : Places, crl : Crls]]
      /\ NoCrl \in Crls
  BY <1>1, CrlKinds, CrlConstants DEF CrlTypes
<1>5. fetch'[s] = NoFetch /\ \A t \in Sockets \ {s} : fetch'[t] = fetch[t]
  BY <1>3, <1>4
<1>6. CrlTypes'
  <2>1. rest \in [pc : {"none", "await", "disk", "got", "failed"},
                  on : Sockets \cup {NoOne}, crl : Crls]
    BY <1>2
  <2>2. NoFetch \in [pc : {"none", "download", "write"}, url : Places, crl : Crls]
    BY <1>4 DEF NoFetch, Places
  <2>3. walk' \in [Sockets -> [pc : {"none", "await", "disk", "got", "failed"},
                               on : Sockets \cup {NoOne}, crl : Crls]]
    BY <1>3, <1>4, <2>1
  <2>4. fetch' \in [Sockets -> [pc : {"none", "download", "write"}, url : Places, crl : Crls]]
    BY <1>3, <1>4, <2>2
  <2>5. pending' \in [Urls -> Sockets \cup {NoOne}]
    BY <1>3, <1>4
  <2> QED
    BY <1>1, <2>3, <2>4, <2>5 DEF CrlTypes
<1>7. \A l, v, r : Knows(l, v, r)' = Knows(l, v, r)
  BY DEF Knows
<1>8. ASSUME NEW v \in Urls
      PROVE  UrlInv(v)'
  <2>1. PublishedInv(v)'
    BY <1>1 DEF UrlInv, PublishedInv
  <2>2. PendingInv(v) /\ pending[v] \in Sockets \cup {NoOne}
    BY <1>1, <1>4 DEF UrlInv
  <2>3. CASE v = fetch[s].url
    <3>1. pending'[v] = NoOne
      BY <1>3, <1>4, <2>3
    <3> QED
      BY <2>1, <3>1 DEF UrlInv, PendingInv
  <2>4. CASE v # fetch[s].url
    <3>1. pending'[v] = pending[v]
      BY <1>3, <1>4, <2>4
    <3>2. pending[v] # NoOne => pending[v] \in Sockets \ {s}
      BY <2>2, <2>4 DEF PendingInv
    <3>3. PendingInv(v)'
      BY <1>5, <2>2, <3>1, <3>2 DEF PendingInv
    <3> QED
      BY <2>1, <3>3 DEF UrlInv
  <2> QED
    BY <2>3, <2>4
<1>9. ASSUME NEW t \in Sockets
      PROVE  FetchInv(t)' /\ WalkInv(t)'
  <2>1. FetchInv(t) /\ WalkInv(t) /\ FetchInv(s)
    BY <1>1
  <2>2. FetchInv(t)'
    <3>1. CASE t = s
      BY <1>5, <3>1 DEF FetchInv, NoFetch
    <3>2. CASE t # s
      <4>1. fetch'[t] = fetch[t]
        BY <1>5, <3>2
      <4>2. fetch[t].pc # "none" => walk'[t] = walk[t]
        BY <1>3, <2>1, <3>2 DEF FetchInv
      <4> QED
        BY <1>7, <2>1, <4>1, <4>2 DEF FetchInv
    <3> QED
      BY <3>1, <3>2
  <2>3. CASE walk[t].pc = "await" /\ walk[t].on = s
    <3>1. walk'[t] = rest
      BY <1>3, <2>3
    <3>2. Head(todo[t])[2] = fetch[s].url /\ todo[t] # << >> /\ Head(todo[t])[2] \in Urls
          /\ sock[t] = "validating"
      BY <2>1, <2>3 DEF WalkInv
    <3>3. WalkInv(t)'
      <4>1. place = "got" => Knows(list, Head(todo[t])[2], now - 2 * Validity + 1)'
        BY <3>2 DEF Knows
      <4> QED
        BY <1>2, <3>1, <3>2, <4>1 DEF WalkInv, socketVars
    <3> QED
      BY <2>2, <3>3
  <2>4. CASE ~(walk[t].pc = "await" /\ walk[t].on = s)
    <3>1. walk'[t] = walk[t]
      BY <1>3, <2>4
    <3>2. walk[t].pc = "await" => fetch'[walk[t].on] = fetch[walk[t].on]
      BY <1>5, <2>1, <2>4 DEF WalkInv
    <3>3. WalkInv(t)'
      BY <1>7, <2>1, <3>1, <3>2 DEF WalkInv, socketVars
    <3> QED
      BY <2>2, <3>3
  <2> QED
    BY <2>3, <2>4
<1>10. SocketsOK' /\ isCrlValidationEnabled' /\ CrlInv'
  BY <1>1, <1>8, <1>9 DEF SocketsOK, isCrlValidationEnabled, CrlInv, socketVars
<1> QED
  BY <1>6, <1>10 DEF CrlGood, CrlOK, CrlTypes, CrlInv, WalkInv

\* What CrlFault and NoCrlFault leave.
LEMMA Faults ==
    ASSUME CrlOK, CrlFault \/ NoCrlFault
    PROVE  crlFaults' \in 0 .. MaxCrlFaults
<1>1. crlFaults \in 0 .. MaxCrlFaults /\ MaxCrlFaults \in Nat
  BY CrlAssumption DEF CrlOK
<1> QED
  BY <1>1 DEF CrlFault, NoCrlFault

\* The fetch of a socket, and its url.
LEMMA FetchFacts ==
    ASSUME CrlGood, NEW s \in Sockets, fetch[s].pc # "none"
    PROVE  fetch[s].url \in Urls /\ fetch[s].crl \in Crls
BY CrlGoodIs, CrlKinds DEF FetchInv

\* A step that leaves the caches, or what it puts there, and the time.
LEMMA CachesStay ==
    ASSUME CrlGood, NEW u \in Urls, now' = now, revokedAt' = revokedAt
    PROVE  /\ memory'[u] = memory[u] => MemoryInv(u)'
           /\ disk'[u] = disk[u] => DiskInv(u)'
<1>1. MemoryInv(u) /\ DiskInv(u)
  BY CrlGoodIs DEF UrlInv
<1> QED
  BY <1>1 DEF MemoryInv, DiskInv, Knows

\* a download or a write that fails,
LEMMA FailsStep ==
    ASSUME CrlGood, NEW s \in Sockets, downloadFails(s) \/ writeFails(s)
    PROVE  CrlGood'
<1>1. /\ fetch[s].pc # "none" /\ Resolve(s, "failed", NoCrl) /\ CrlFault
      /\ UNCHANGED <<crl, now, published, memory, disk, todo, revokedAt, socketVars>>
  BY DEF downloadFails, writeFails
<1>2. CrlOK /\ CrlTypes
  BY CrlGoodIs
<1>3. \A u \in Urls : MemoryInv(u)' /\ DiskInv(u)'
  BY <1>1, CachesStay
<1>4. crlFaults' \in 0 .. MaxCrlFaults
  BY <1>1, <1>2, Faults
<1>5. memory' \in [Urls -> Entries] /\ disk' \in [Urls -> Entries]
  BY <1>1, <1>2 DEF CrlTypes
<1> QED
  BY <1>1, <1>3, <1>4, <1>5, CrlConstants, ResolveStep

\* the end of a write,
LEMMA WriteStep ==
    ASSUME CrlGood, NEW s \in Sockets, writeCrlToDisk(s)
    PROVE  CrlGood'
<1>1. /\ fetch[s].pc = "write" /\ Resolve(s, "got", fetch[s].crl) /\ NoCrlFault
      /\ disk' = [disk EXCEPT ![fetch[s].url] = [crl |-> fetch[s].crl, at |-> now]]
      /\ UNCHANGED <<crl, now, published, memory, todo, revokedAt, socketVars>>
  BY DEF writeCrlToDisk
<1>2. CrlOK /\ CrlTypes /\ FetchInv(s)
  BY CrlGoodIs
<1>3. PICK u, list : u = fetch[s].url /\ list = fetch[s].crl
  OBVIOUS
<1>4. u \in Urls /\ list \in Crls /\ Knows(list, u, now)
  BY <1>1, <1>2, <1>3, FetchFacts DEF FetchInv
<1>5. /\ memory \in [Urls -> Entries] /\ disk \in [Urls -> Entries]
      /\ now \in Nat /\ now <= MaxNow /\ Validity \in Nat /\ Validity > 0
      /\ MaxNow \in Nat /\ Life \in Nat
  BY <1>2, CrlKinds, CrlConstants
<1>6. [crl |-> list, at |-> now] \in Entries
  BY <1>4, <1>5 DEF Entries
<1>7. disk' \in [Urls -> Entries] /\ disk'[u] = [crl |-> list, at |-> now]
      /\ \A v \in Urls \ {u} : disk'[v] = disk[v]
  BY <1>1, <1>3, <1>4, <1>5, <1>6
<1>8. DiskInv(u)'
  <2>1. Knows(list, u, now)'
    BY <1>1, <1>4 DEF Knows
  <2>2. disk'[u].crl = list /\ disk'[u].at = now' /\ now' <= now'
    BY <1>1, <1>5, <1>7
  <2>3. \A c \in Certs : c \notin list.revoked => revokedAt'[u][c] = Never \/ revokedAt'[u][c] >= now'
    BY <2>1 DEF Knows
  <2> QED
    BY ONLY <2>2, <2>3 DEF DiskInv, Knows
<1>9. \A v \in Urls : MemoryInv(v)' /\ DiskInv(v)'
  BY <1>1, <1>7, <1>8, CachesStay
<1>10. Knows(list, u, now - 2 * Validity + 1)
  <2>1. now - 2 * Validity + 1 \in Int /\ now - 2 * Validity + 1 <= now /\ now \in Int
    BY ONLY <1>5
  <2> QED
    BY ONLY <1>2, <1>4, <2>1, LowerKnows
<1>11. crlFaults' \in 0 .. MaxCrlFaults
  BY <1>1, <1>2, Faults
<1> QED
  BY <1>1, <1>3, <1>4, <1>5, <1>7, <1>9, <1>10, <1>11, ResolveStep

\* the answer of a download,
LEMMA DownloadAnswersStep ==
    ASSUME CrlGood, NEW s \in Sockets, downloadAnswers(s)
    PROVE  CrlGood'
<1>1. PICK u, list : u = fetch[s].url /\ list = published[u]
  OBVIOUS
<1>2. /\ fetch[s].pc = "download"
      /\ memory' = IF crl.inMemoryCache THEN [memory EXCEPT ![u] = setCrlInMemory(list)]
                   ELSE memory
      /\ IF crl.onDiskCache
         THEN /\ fetch' = [fetch EXCEPT ![s].pc = "write", ![s].crl = list]
              /\ UNCHANGED <<walk, pending>>
         ELSE Resolve(s, "got", list)
      /\ NoCrlFault
      /\ UNCHANGED <<crl, now, published, disk, todo, revokedAt, socketVars>>
  BY <1>1, Zenon DEF downloadAnswers
<1>3. /\ SocketsOK /\ CrlOK /\ CrlTypes /\ isCrlValidationEnabled
      /\ \A v \in Urls : UrlInv(v)
      /\ \A t \in Sockets : FetchInv(t) /\ WalkInv(t)
  BY CrlGoodIs
<1>4. /\ memory \in [Urls -> Entries] /\ disk \in [Urls -> Entries]
      /\ fetch \in [Sockets -> [pc : {"none", "download", "write"}, url : Places, crl : Crls]]
      /\ now \in Nat /\ Validity \in Nat
  BY <1>3, CrlKinds, CrlConstants DEF CrlTypes
<1>5. u \in Urls /\ list \in Crls
  BY <1>1, <1>2, <1>3, FetchFacts, CrlKinds
<1>6. /\ Knows(list, u, now) /\ Knows(list, u, now - Validity)
      /\ Knows(list, u, now - 2 * Validity + 1)
  <2>1. \A t \in Int : Knows(list, u, t)
    BY <1>1, <1>3, <1>5, PublishedKnows
  <2>2. now \in Int /\ now - Validity \in Int /\ now - 2 * Validity + 1 \in Int
    BY ONLY <1>4
  <2> QED
    BY ONLY <2>1, <2>2
<1>7. memory' \in [Urls -> Entries] /\ disk' \in [Urls -> Entries]
  <2>1. setCrlInMemory(list) \in Entries
    BY <1>3, <1>5, PutInMemory
  <2> QED
    BY <1>2, <1>4, <2>1
<1>8. ASSUME NEW v \in Urls
      PROVE  MemoryInv(v)' /\ DiskInv(v)'
  <2>1. CASE memory'[v] = memory[v]
    BY <1>2, <2>1, CachesStay
  <2>2. CASE memory'[v] # memory[v]
    <3>1. v = u /\ memory'[u] = setCrlInMemory(list)
      BY <1>2, <1>4, <1>5, <2>2
    <3>2. MemoryInv(u)'
      BY <1>2, <1>5, <1>6, <1>7, <3>1, PutKnows
    <3> QED
      BY <1>2, <3>1, <3>2, CachesStay
  <2> QED
    BY <2>1, <2>2
<1>9. crlFaults' \in 0 .. MaxCrlFaults
  BY <1>2, <1>3, Faults
<1>10. CASE crl.onDiskCache
  <2>1. /\ fetch' = [fetch EXCEPT ![s].pc = "write", ![s].crl = list]
        /\ UNCHANGED <<walk, pending>>
    BY <1>2, <1>10
  <2>2. /\ fetch' \in [Sockets -> [pc : {"none", "download", "write"}, url : Places, crl : Crls]]
        /\ fetch'[s].pc = "write" /\ fetch'[s].crl = list /\ fetch'[s].url = u
        /\ \A t \in Sockets \ {s} : fetch'[t] = fetch[t]
    BY <1>1, <1>4, <1>5, <2>1
  <2>3. CrlTypes'
    BY <1>2, <1>3, <1>7, <1>9, <2>1, <2>2 DEF CrlTypes
  <2>4. \A t \in Sockets : /\ fetch[t].pc # "none" => fetch'[t].pc # "none"
                           /\ fetch'[t].url = fetch[t].url
    BY <1>1, <2>2
  <2>5. ASSUME NEW v \in Urls
        PROVE  UrlInv(v)'
    <3>1. PublishedInv(v) /\ PendingInv(v) /\ pending[v] \in Sockets \cup {NoOne}
      BY <1>3, CrlKinds DEF UrlInv
    <3>2. PublishedInv(v)'
      BY <1>2, <3>1 DEF PublishedInv
    <3>3. PendingInv(v)'
      BY <2>1, <2>4, <3>1 DEF PendingInv
    <3> QED
      BY <1>8, <3>2, <3>3 DEF UrlInv
  <2>6. ASSUME NEW t \in Sockets
        PROVE  FetchInv(t)' /\ WalkInv(t)'
    <3>1. FetchInv(t) /\ WalkInv(t)
      BY <1>3
    <3>2. Knows(list, u, now)' /\ \A l, v, r : Knows(l, v, r)' = Knows(l, v, r)
      BY <1>2, <1>6 DEF Knows
    <3>3. FetchInv(t)'
      <4>1. CASE t = s
        BY <1>1, <1>2, <2>1, <2>2, <3>1, <3>2, <4>1 DEF FetchInv
      <4>2. CASE t # s
        BY <1>2, <2>1, <2>2, <3>1, <3>2, <4>2 DEF FetchInv
      <4> QED
        BY <4>1, <4>2
    <3>4. WalkInv(t)'
      BY <1>2, <2>1, <2>4, <3>1, <3>2 DEF WalkInv, socketVars
    <3> QED
      BY <3>3, <3>4
  <2>7. SocketsOK' /\ isCrlValidationEnabled' /\ CrlInv'
    BY <1>2, <1>3, <2>5, <2>6 DEF SocketsOK, isCrlValidationEnabled, CrlInv, socketVars
  <2> QED
    BY <2>3, <2>7 DEF CrlGood, CrlOK, CrlTypes, CrlInv, WalkInv
<1>11. CASE ~crl.onDiskCache
  BY <1>1, <1>2, <1>5, <1>6, <1>7, <1>8, <1>9, <1>11, ResolveStep
<1> QED
  BY <1>10, <1>11

\* The cleaner takes entries away.
LEMMA ClearStep ==
    ASSUME CrlGood,
           clearExpiredCrlFromMemoryCache \/ \E u \in Urls : clearExpiredCrlFromDiskCache(u)
    PROVE  CrlGood'
<1>1. /\ SocketsOK /\ CrlOK /\ CrlTypes /\ isCrlValidationEnabled
      /\ \A t \in Sockets : FetchInv(t) /\ WalkInv(t)
  BY CrlGoodIs
<1>2. UNCHANGED <<crl, now, published, pending, fetch, walk, todo, revokedAt, crlFaults, sock, fresh>>
  BY DEF clearExpiredCrlFromMemoryCache, clearExpiredCrlFromDiskCache, socketVars
<1>3. memory \in [Urls -> Entries] /\ disk \in [Urls -> Entries] /\ NoEntry \in Entries
  BY <1>1, CrlKinds, CrlConstants
<1>4. /\ memory' \in [Urls -> Entries] /\ disk' \in [Urls -> Entries]
      /\ \A u \in Urls : memory'[u] \in {memory[u], NoEntry} /\ disk'[u] \in {disk[u], NoEntry}
  <2>1. CASE clearExpiredCrlFromMemoryCache
    BY <1>3, <2>1 DEF clearExpiredCrlFromMemoryCache
  <2>2. ASSUME NEW u \in Urls, clearExpiredCrlFromDiskCache(u)
        PROVE  /\ memory' \in [Urls -> Entries] /\ disk' \in [Urls -> Entries]
               /\ \A v \in Urls : memory'[v] \in {memory[v], NoEntry} /\ disk'[v] \in {disk[v], NoEntry}
    BY <1>3, <2>2 DEF clearExpiredCrlFromDiskCache
  <2> QED
    BY <2>1, <2>2
<1>5. CrlTypes'
  BY <1>1, <1>2, <1>4 DEF CrlTypes
<1>6. \A u \in Urls : UrlInv(u)'
  BY <1>2, <1>4, UrlStays
<1>7. \A l, v, r : Knows(l, v, r)' = Knows(l, v, r)
  BY <1>2 DEF Knows
<1>8. \A t \in Sockets : FetchInv(t)' /\ WalkInv(t)'
  BY <1>1, <1>2, <1>7 DEF FetchInv, WalkInv
<1>9. SocketsOK' /\ isCrlValidationEnabled' /\ CrlInv'
  BY <1>1, <1>2, <1>6, <1>8 DEF SocketsOK, isCrlValidationEnabled, CrlInv
<1> QED
  BY <1>5, <1>9 DEF CrlGood, CrlOK, CrlTypes, CrlInv, WalkInv

\* a new CRL at a URL,
LEMMA PublishStep ==
    ASSUME CrlGood, NEW u \in Urls, publishCrl(u)
    PROVE  CrlGood'
<1>1. /\ SocketsOK /\ CrlOK /\ CrlTypes /\ isCrlValidationEnabled
      /\ \A v \in Urls : UrlInv(v)
      /\ \A t \in Sockets : FetchInv(t) /\ WalkInv(t)
  BY CrlGoodIs
<1>2. UNCHANGED <<crl, now, memory, disk, pending, fetch, walk, todo, crlFaults, sock, fresh>>
  BY DEF publishCrl, socketVars
<1>3. PICK added \in SUBSET {c \in Revocable \ published[u].revoked : u \in ToSet(CrlUrls[c])} :
         /\ published' = [published EXCEPT ![u].revoked = @ \cup added, ![u].nextUpdate = now + Life]
         /\ revokedAt' = [revokedAt EXCEPT ![u] = [c \in Certs |-> IF c \in added THEN now ELSE @[c]]]
  BY DEF publishCrl
<1>4. added \subseteq Certs /\ added \cap published[u].revoked = {}
  BY <1>3, CrlAssumption
<1>5. /\ published \in [Urls -> Crls] /\ revokedAt \in [Urls -> [Certs -> -1 .. MaxNow]]
      /\ now \in Nat /\ now <= MaxNow /\ MaxNow \in Nat /\ Life \in Nat
      /\ Validity \in Nat /\ Validity > 0
  BY <1>1, CrlKinds, CrlConstants DEF CrlTypes
<1>6. /\ published' \in [Urls -> Crls]
      /\ published'[u].revoked = published[u].revoked \cup added
      /\ \A v \in Urls \ {u} : published'[v] = published[v]
  <2>1. published[u] \in Crls
    BY <1>5
  <2>2. now + Life \in -1 .. MaxNow + Life
    BY <1>5
  <2>3. [published[u] EXCEPT !.revoked = published[u].revoked \cup added,
                             !.nextUpdate = now + Life] \in Crls
    BY <1>4, <2>1, <2>2 DEF Crls
  <2>4. published' = [published EXCEPT
           ![u] = [published[u] EXCEPT !.revoked = published[u].revoked \cup added,
                                       !.nextUpdate = now + Life]]
    BY <1>3, <1>5
  <2> QED
    BY <1>5, <2>1, <2>3, <2>4 DEF Crls
<1>7. /\ revokedAt' \in [Urls -> [Certs -> -1 .. MaxNow]]
      /\ \A c \in Certs : revokedAt'[u][c] = IF c \in added THEN now ELSE revokedAt[u][c]
      /\ \A v \in Urls \ {u} : revokedAt'[v] = revokedAt[v]
  <2>1. PICK row : row = [c \in Certs |-> IF c \in added THEN now ELSE revokedAt[u][c]]
    OBVIOUS
  <2>2. row \in [Certs -> -1 .. MaxNow]
    BY <1>5, <2>1
  <2>3. revokedAt' = [revokedAt EXCEPT ![u] = row]
    BY <1>3, <1>5, <2>1
  <2> QED
    BY <1>5, <2>1, <2>2, <2>3
<1>8. CrlTypes'
  BY <1>1, <1>2, <1>6, <1>7 DEF CrlTypes
<1>9. ASSUME NEW list, NEW v \in Urls, NEW t \in Int, t <= now, Knows(list, v, t)
      PROVE  Knows(list, v, t)'
  <2>1. \A c \in Certs : revokedAt'[v][c] = revokedAt[v][c] \/ revokedAt'[v][c] = now
    BY <1>7
  <2> QED
    BY <1>9, <2>1 DEF Knows
<1>10. ASSUME NEW v \in Urls
       PROVE  UrlInv(v)'
  <2>1. UrlInv(v) /\ memory[v] \in Entries /\ disk[v] \in Entries
    BY <1>1, CrlKinds
  <2>2. PublishedInv(v)'
    <3>1. CASE v = u
      BY <1>6, <1>7, <2>1, <3>1 DEF UrlInv, PublishedInv
    <3>2. CASE v # u
      BY <1>6, <1>7, <2>1, <3>2 DEF UrlInv, PublishedInv
    <3> QED
      BY <3>1, <3>2
  <2>3. MemoryInv(v)'
    <3>1. ASSUME memory[v] # NoEntry
          PROVE  /\ memory[v].at <= now + Validity
                 /\ Knows(memory[v].crl, v, memory[v].at - 2 * Validity)'
      <4>1. /\ memory[v].at <= now + Validity
            /\ Knows(memory[v].crl, v, memory[v].at - 2 * Validity)
        BY <2>1, <3>1 DEF UrlInv, MemoryInv
      <4>2. memory[v].at \in Int
        BY <1>5, <2>1 DEF Entries
      <4>3. memory[v].at - 2 * Validity \in Int /\ memory[v].at - 2 * Validity <= now
        BY ONLY <1>5, <4>1, <4>2
      <4>4. PICK e : e = memory[v]
        OBVIOUS
      <4>5. Knows(e.crl, v, e.at - 2 * Validity)'
        BY <1>9, <4>1, <4>3, <4>4
      <4>6. memory'[v] = e
        BY <1>2, <4>4
      <4> QED
        BY <1>2, <4>1, <4>4, <4>5, <4>6 DEF Knows
    <3> QED
      BY <1>2, <3>1 DEF MemoryInv, Knows
  <2>4. DiskInv(v)'
    <3>1. ASSUME disk[v] # NoEntry
          PROVE  disk[v].at <= now /\ Knows(disk[v].crl, v, disk[v].at)'
      <4>1. disk[v].at <= now /\ Knows(disk[v].crl, v, disk[v].at)
        BY <2>1, <3>1 DEF UrlInv, DiskInv
      <4>2. disk[v].at \in Int
        BY <1>5, <2>1 DEF Entries
      <4>3. PICK e : e = disk[v]
        OBVIOUS
      <4>4. Knows(e.crl, v, e.at)'
        BY <1>9, <4>1, <4>2, <4>3
      <4>5. disk'[v] = e
        BY <1>2, <4>3
      <4> QED
        BY <1>2, <4>1, <4>3, <4>4, <4>5 DEF Knows
    <3> QED
      BY <1>2, <3>1 DEF DiskInv, Knows
  <2>5. PendingInv(v)'
    BY <1>2, <2>1 DEF UrlInv, PendingInv
  <2> QED
    BY <2>2, <2>3, <2>4, <2>5 DEF UrlInv
<1>11. ASSUME NEW t \in Sockets
       PROVE  FetchInv(t)' /\ WalkInv(t)'
  <2>1. FetchInv(t) /\ WalkInv(t)
    BY <1>1
  <2>2. FetchInv(t)'
    <3>1. ASSUME fetch[t].pc = "write"
          PROVE  Knows(fetch[t].crl, fetch[t].url, now)'
      <4>1. PICK l, v : l = fetch[t].crl /\ v = fetch[t].url
        OBVIOUS
      <4>2. Knows(l, v, now) /\ v \in Urls
        BY <2>1, <3>1, <4>1 DEF FetchInv
      <4>3. Knows(l, v, now)'
        <5>1. PICK n : n = now
          OBVIOUS
        <5>2. Knows(l, v, n)'
          BY <1>5, <1>9, <4>2, <5>1
        <5> QED
          BY <1>2, <5>1, <5>2
      <4> QED
        BY <1>2, <4>1, <4>3 DEF Knows
    <3> QED
      BY <1>2, <2>1, <3>1 DEF FetchInv
  <2>3. WalkInv(t)'
    <3>1. ASSUME walk[t].pc = "got"
          PROVE  Knows(walk[t].crl, Head(todo[t])[2], now - 2 * Validity + 1)'
      <4>1. PICK l, v : l = walk[t].crl /\ v = Head(todo[t])[2]
        OBVIOUS
      <4>2. Knows(l, v, now - 2 * Validity + 1) /\ v \in Urls
        BY <2>1, <3>1, <4>1 DEF WalkInv
      <4>3. PICK n : n = now - 2 * Validity + 1
        OBVIOUS
      <4>4. n \in Int /\ n <= now
        BY ONLY <1>5, <4>3
      <4>5. Knows(l, v, n)'
        BY <1>9, <4>2, <4>3, <4>4
      <4>6. n = now' - 2 * Validity + 1
        BY <1>2, <4>3
      <4>7. \A c \in Certs : c \notin l.revoked => revokedAt'[v][c] = Never \/ revokedAt'[v][c] >= n
        BY <4>5 DEF Knows
      <4>8. walk'[t].crl = l /\ Head(todo'[t])[2] = v
        BY <1>2, <4>1
      <4> QED
        BY ONLY <4>6, <4>7, <4>8 DEF Knows
    <3> QED
      BY <1>2, <2>1, <3>1 DEF WalkInv
  <2> QED
    BY <2>2, <2>3
<1>12. SocketsOK' /\ isCrlValidationEnabled' /\ CrlInv'
  BY <1>1, <1>2, <1>10, <1>11 DEF SocketsOK, isCrlValidationEnabled, CrlInv
<1> QED
  BY <1>8, <1>12 DEF CrlGood, CrlOK, CrlTypes, CrlInv, WalkInv

\* and the clock, which waits for all that takes no time.
LEMMA ClockStep ==
    ASSUME CrlGood, clock
    PROVE  CrlGood'
<1>1. /\ SocketsOK /\ CrlOK /\ CrlTypes /\ isCrlValidationEnabled
      /\ \A v \in Urls : UrlInv(v)
      /\ \A t \in Sockets : FetchInv(t) /\ WalkInv(t)
  BY CrlGoodIs
<1>2. /\ now < MaxNow /\ now' = now + 1
      /\ \A t \in Sockets : walk[t].pc \notin {"disk", "got", "failed"} /\ fetch[t].pc # "write"
      /\ UNCHANGED <<crl, published, memory, disk, pending, fetch, walk, todo, revokedAt, crlFaults, sock, fresh>>
  BY DEF clock, socketVars
<1>3. now \in Nat /\ now <= MaxNow /\ MaxNow \in Nat /\ Validity \in Nat /\ Life \in Nat
  BY <1>1, CrlKinds, CrlConstants
<1>4. CrlTypes'
  BY <1>1, <1>2, <1>3 DEF CrlTypes
<1>5. \A l, v, r : Knows(l, v, r)' = Knows(l, v, r)
  BY <1>2 DEF Knows
<1>6. ASSUME NEW v \in Urls
      PROVE  UrlInv(v)'
  <2>1. /\ PublishedInv(v) /\ MemoryInv(v) /\ DiskInv(v) /\ PendingInv(v)
        /\ memory[v] \in Entries /\ disk[v] \in Entries
    BY <1>1, CrlKinds DEF UrlInv
  <2>2. memory[v].at \in Int /\ disk[v].at \in Int
    BY <1>3, <2>1 DEF Entries
  <2>3. PublishedInv(v)' /\ PendingInv(v)'
    BY <1>2, <2>1 DEF PublishedInv, PendingInv
  <2>4. MemoryInv(v)'
    BY <1>2, <1>3, <2>1, <2>2 DEF MemoryInv, Knows
  <2>5. DiskInv(v)'
    BY <1>2, <1>3, <2>1, <2>2 DEF DiskInv, Knows
  <2> QED
    BY <2>3, <2>4, <2>5 DEF UrlInv
<1>7. \A t \in Sockets : FetchInv(t)' /\ WalkInv(t)'
  BY <1>1, <1>2, <1>5 DEF FetchInv, WalkInv
<1>8. SocketsOK' /\ isCrlValidationEnabled' /\ CrlInv'
  BY <1>1, <1>2, <1>6, <1>7 DEF SocketsOK, isCrlValidationEnabled, CrlInv
<1> QED
  BY <1>4, <1>8 DEF CrlGood, CrlOK, CrlTypes, CrlInv, WalkInv

\* No step of the CRL check breaks its invariant.
LEMMA CrlNextGood ==
    ASSUME CrlGood, CrlNext
    PROVE  CrlGood'
BY CorkSocketStep, GetCrlFromDiskStep, GetCrlThrowsStep, ValidateCrlStep, DownloadAnswersStep,
   FailsStep, WriteStep, ReconnectStep, ClearStep, PublishStep, ClockStep
   DEF CrlNext, WalkStep, FetchStep

\* A socket that leaves the point it has a CRL for, without being destroyed, leaves it by
\* validateCrl, and the CRL did not list the certificate.
LEMMA NoticedStep ==
    ASSUME CrlGood, CrlNext, NEW s \in Sockets, walk[s].pc = "got", walk'[s] # walk[s],
           sock'[s] # "destroyed", crl.checkMode = "ENABLED"
    PROVE  LET point == Head(todo[s])
               since == revokedAt[point[2]][point[1]]
           IN  since = Never \/ now - since < 2 * Validity
<1>1. /\ SocketsOK /\ CrlOK /\ CrlTypes /\ WalkInv(s)
      /\ \A t \in Sockets : FetchInv(t) /\ WalkInv(t)
  BY CrlGoodIs
<1>2. walk \in [Sockets -> [pc : {"none", "await", "disk", "got", "failed"},
                             on : Sockets \cup {NoOne}, crl : Crls]]
  BY <1>1 DEF CrlTypes
<1>3. validateCrl(s)
  <2>1. ASSUME NEW t \in Sockets, t # s, corkSocketAndValidateCrl(t) \/ WalkStep(t)
        PROVE  FALSE
    <3>1. walk'[s] = walk[s]
      BY <1>2, <2>1 DEF corkSocketAndValidateCrl, WalkStep, getCrlFromDisk, getCrlThrows,
         validateCrl,
                        Advance, Continue, getCrl, startFetch, At, Failed, Allowed
    <3> QED
      BY <3>1
  <2>2. ~corkSocketAndValidateCrl(s)
    BY <1>1 DEF corkSocketAndValidateCrl, WalkInv
  <2>3. ~getCrlFromDisk(s) /\ ~getCrlThrows(s)
    BY DEF getCrlFromDisk, getCrlThrows
  <2>4. ASSUME NEW t \in Sockets, FetchStep(t)
        PROVE  FALSE
    <3>1. \/ walk' = walk
          \/ \E place, list : Resolve(t, place, list)
      BY <2>4 DEF FetchStep, downloadAnswers, downloadFails, writeCrlToDisk, writeFails
    <3>2. walk'[s] = walk[s]
      BY <1>2, <3>1 DEF Resolve
    <3> QED
      BY <3>2
  <2>5. walk' # walk
    OBVIOUS
  <2>6. ~(\E t \in Sockets : reconnect(t)) /\ ~clearExpiredCrlFromMemoryCache
        /\ ~(\E u \in Urls : clearExpiredCrlFromDiskCache(u) \/ publishCrl(u)) /\ ~clock
    BY <2>5 DEF reconnect, crlVars, clearExpiredCrlFromMemoryCache,
       clearExpiredCrlFromDiskCache,
                publishCrl, clock
  <2> QED
    BY <2>1, <2>2, <2>3, <2>4, <2>6 DEF CrlNext, WalkStep
<1>4. PICK c, u, list : c = Head(todo[s])[1] /\ u = Head(todo[s])[2] /\ list = walk[s].crl
  OBVIOUS
<1>5. sock \in [Sockets -> SocketStates]
  BY <1>1 DEF SocketsOK
<1>6. ~isCertificateRevoked(c, list)
  <2>1. ASSUME isCertificateRevoked(c, list) \/ ~Trusted(list)
        PROVE  FALSE
    <3>1. Failed(s, Trusted(list))
      BY <1>3, <1>4, <2>1 DEF validateCrl
    <3>2. crl.checkMode # "ADVISORY"
      OBVIOUS
    <3>3. Destroy(s)
      BY <3>1, <3>2 DEF Failed
    <3> QED
      BY <1>5, <3>3 DEF Destroy
  <2> QED
    BY <2>1
<1>7. /\ c \in Certs /\ u \in Urls
      /\ Knows(list, u, now - 2 * Validity + 1)
  BY <1>1, <1>4, CrlKinds, PointsHead DEF WalkInv
<1>8. revokedAt[u][c] = Never \/ revokedAt[u][c] >= now - 2 * Validity + 1
  BY <1>6, <1>7 DEF Knows, isCertificateRevoked
<1>9. revokedAt[u][c] \in Int /\ now \in Nat /\ Validity \in Nat
  BY <1>1, <1>7, CrlKinds, CrlConstants DEF CrlTypes
<1>10. revokedAt[u][c] = Never \/ now - revokedAt[u][c] < 2 * Validity
  BY ONLY <1>8, <1>9
<1> QED
  BY <1>4, <1>10

-----------------------------------------------------------------------------
(* The OCSP check. *)

\* A response cache that can be looked into.
StoreOK(st) ==
    /\ st \in AnyStore
    /\ Cardinality(Cached(st.cache)) <= st.maxSize
    /\ \A c \in Certs : st.cache[c] = "none" => Good(c)

OcspGood == SocketsOK /\ OcspOK /\ OcspInv

\* The invariant of the OCSP check, taken apart.
LEMMA OcspGoodIs ==
    ASSUME OcspGood
    PROVE  /\ SocketsOK /\ OcspOK /\ OcspInv /\ StoreOK(store)
           /\ \A s \in Sockets : ChainInv(s) /\ \A c \in ChainOf(s) : CertInv(s, c)
           /\ RepeatInv /\ \A s \in Sockets : \A c \in ChainOf(s) : RecallInv(s, c)
BY DEF OcspGood, OcspInv, StoreOK, OcspOK, CacheInv

\* The types, one by one.
LEMMA OcspKinds ==
    ASSUME OcspOK
    PROVE  /\ ocsp.mode \in {"FAIL_OPEN", "FAIL_CLOSED"} /\ ocsp.useCacheServer \in BOOLEAN
           /\ ocsp.kind \in [Certs -> Kinds] /\ ocsp.file \subseteq Certs
           /\ store \in AnyStore
           /\ val \in [Sockets -> [Certs -> Waits]]
           /\ errors \in [Sockets -> [Certs -> Results]]
           /\ completed \in [Sockets -> Nat]
           /\ ticks \in Seq(AnyTick)
           /\ rerun \in [Sockets -> [Certs -> Repetitions]] /\ unread \subseteq Sockets \X Certs
           /\ tries \in [Sockets -> [Certs -> 1 .. maxNumRetries]]
BY DEF OcspOK

\* The certificates of a chain.
LEMMA ChainFacts ==
    ASSUME NEW s \in Sockets
    PROVE  /\ Chain[s] \in Seq(Certs) /\ Len(Chain[s]) \in Nat
           /\ DOMAIN Chain[s] = 1..Len(Chain[s])
           /\ \A i \in 1..Len(Chain[s]) : Chain[s][i] \in ChainOf(s)
           /\ \A c \in ChainOf(s) : \E i \in 1..Len(Chain[s]) : Chain[s][i] = c
           /\ \A i, j \in 1..Len(Chain[s]) : Chain[s][i] = Chain[s][j] => i = j
           /\ ChainOf(s) \subseteq Certs
           /\ IsFiniteSet(ChainOf(s))
           /\ Cardinality(ChainOf(s)) = Len(Chain[s])
<1>1. Chain[s] \in Seq(Certs) /\ IsInjective(Chain[s])
  BY ChainAssumption
<1>2. DOMAIN Chain[s] = 1..Len(Chain[s]) /\ Len(Chain[s]) \in Nat
  BY <1>1, LenProperties
<1>3. \A i \in 1..Len(Chain[s]) : Chain[s][i] \in Certs
  BY <1>1, ElementOfSeq
<1>4. ChainOf(s) = {Chain[s][i] : i \in 1..Len(Chain[s])}
  BY <1>2 DEF ChainOf, ToSet
<1>5. \A i, j \in 1..Len(Chain[s]) : Chain[s][i] = Chain[s][j] => i = j
  BY <1>1, <1>2 DEF IsInjective
<1>6. IsFiniteSet(1..Len(Chain[s])) /\ Cardinality(1..Len(Chain[s])) = Len(Chain[s])
  <2>1. 1 \in Int /\ Len(Chain[s]) \in Int
    BY <1>2
  <2>2. IsFiniteSet(1..Len(Chain[s]))
        /\ Cardinality(1..Len(Chain[s])) = IF 1 > Len(Chain[s]) THEN 0 ELSE Len(Chain[s]) - 1 + 1
    BY <2>1, FS_Interval
  <2> QED
    BY <1>2, <2>2
<1>7. ExistsBijection(1..Len(Chain[s]), ChainOf(s))
  <2>1. PICK f, N : N = 1..Len(Chain[s]) /\ f = [i \in N |-> Chain[s][i]]
    OBVIOUS
  <2>2. f \in [N -> ChainOf(s)] /\ DOMAIN f = N
    BY <1>4, <2>1
  <2>3. \A i, j \in N : f[i] = f[j] => i = j
    BY <1>5, <2>1
  <2>4. \A c \in ChainOf(s) : \E i \in N : f[i] = c
    BY <1>4, <2>1
  <2>5. f \in Injection(N, ChainOf(s))
    BY <2>2, <2>3 DEF Injection, IsInjective
  <2>6. f \in Surjection(N, ChainOf(s))
    BY <2>2, <2>4 DEF Surjection
  <2>7. f \in Bijection(N, ChainOf(s))
    BY <2>5, <2>6 DEF Bijection
  <2> QED
    BY <2>1, <2>7 DEF ExistsBijection
<1>8. IsFiniteSet(ChainOf(s)) /\ Cardinality(ChainOf(s)) = Cardinality(1..Len(Chain[s]))
  BY <1>6, <1>7, FS_Bijection
<1> QED
  BY <1>1, <1>2, <1>3, <1>4, <1>5, <1>6, <1>8

-----------------------------------------------------------------------------
\* The operations of the response cache.

\* There are finitely many cached responses.
LEMMA CachedFinite ==
    ASSUME NEW responses \in Responses
    PROVE  IsFiniteSet(Cached(responses)) /\ Cardinality(Cached(responses)) \in Nat
<1>1. Cached(responses) \subseteq Certs /\ IsFiniteSet(Certs)
  BY ChainAssumption DEF Cached
<1> QED
  BY <1>1, FS_Subset, FS_CardinalityType

\* Changes of the status, and of the expiry, keep the response cache good.
LEMMA LookedOK ==
    ASSUME NEW st, StoreOK(st)
    PROVE  /\ StoreOK(resetCacheStatus(st)) /\ StoreOK(Looked(st)) /\ StoreOK(Finish(st))
           /\ StoreOK([st EXCEPT !.status = "started"])
           /\ StoreOK([st EXCEPT !.expired = TRUE])
<1>1. PICK r : r = resetCacheStatus(st)
  OBVIOUS
<1>2. r \in AnyStore /\ r.cache = st.cache /\ r.maxSize = st.maxSize
  BY <1>1 DEF StoreOK, AnyStore, resetCacheStatus
<1>3. StoreOK(r)
  BY <1>2 DEF StoreOK
<1>4. ASSUME NEW x \in {Finish(st), [st EXCEPT !.status = "started"], [st EXCEPT !.expired = TRUE]}
      PROVE  StoreOK(x)
  <2>1. x \in AnyStore /\ x.cache = st.cache /\ x.maxSize = st.maxSize
    BY DEF StoreOK, AnyStore, Finish
  <2> QED
    BY <2>1 DEF StoreOK
<1> QED
  BY <1>1, <1>3, <1>4 DEF Looked

\* So does the file of the cache server,
LEMMA UpdateCacheOK ==
    ASSUME NEW st, StoreOK(st)
    PROVE  StoreOK(updateCache(st))
<1>1. ServerFile \subseteq Certs /\ IsFiniteSet(Certs)
  BY OcspAssumption, ChainAssumption
<1>2. IsFiniteSet(ServerFile) /\ Cardinality(ServerFile) \in Nat
  BY <1>1, FS_Subset, FS_CardinalityType
<1>3. /\ Loaded(ServerFile) \in Responses
      /\ \A c \in Certs : Loaded(ServerFile)[c] = "none" => c \in ServerFile
  BY DEF Loaded, Responses, Results, Absent
<1>4. Cached(Loaded(ServerFile)) = ServerFile
  BY <1>1 DEF Cached, Loaded, Absent
<1>5. PICK r : r = updateCache(st)
  OBVIOUS
<1>6. /\ r.cache = Loaded(ServerFile) /\ r.maxSize = Cardinality(ServerFile)
      /\ r \in AnyStore
  BY <1>2, <1>3, <1>5 DEF StoreOK, AnyStore, updateCache
<1>7. Cardinality(Cached(r.cache)) <= r.maxSize
  BY <1>2, <1>4, <1>6
<1>8. StoreOK(r)
  BY <1>3, <1>6, <1>7 DEF StoreOK, Good
<1> QED
  BY <1>5, <1>8

\* the cache of one entry,
LEMMA InitCacheOK ==
    ASSUME NEW st, StoreOK(st), NEW c \in Certs, NEW r \in Results, r = "none" => Good(c)
    PROVE  StoreOK(initCache(st, c, r))
<1>1. PICK x : x = initCache(st, c, r)
  OBVIOUS
<1>2. PICK responses : responses = [NoResponses EXCEPT ![c] = r]
  OBVIOUS
<1>3. /\ responses \in Responses
      /\ \A d \in Certs : responses[d] = IF d = c THEN r ELSE Absent
  BY <1>2 DEF NoResponses, Responses
<1>4. r # Absent
  BY DEF Results, Absent
<1>5. Cached(responses) = {c}
  BY <1>3, <1>4 DEF Cached
<1>6. x.cache = responses /\ x.maxSize = 1 /\ x \in AnyStore
  BY <1>1, <1>2, <1>3 DEF StoreOK, AnyStore, initCache
<1>7. Cardinality({c}) = 1
  BY FS_Singleton
<1>8. StoreOK(x)
  BY <1>3, <1>5, <1>6, <1>7 DEF StoreOK, Absent
<1> QED
  BY <1>1, <1>8

\* and a response that is put into a cache, be it full.
LEMMA SetResponseOK ==
    ASSUME NEW st, StoreOK(st), NEW c \in Certs, NEW r \in Results, r = "none" => Good(c),
           NEW x \in setResponse(st, c, r)
    PROVE  StoreOK(x)
<1>1. PICK put : put = [st.cache EXCEPT ![c] = r]
  OBVIOUS
<1>3. st \in AnyStore /\ st.cache \in Responses /\ st.maxSize \in Nat
      /\ Cardinality(Cached(st.cache)) <= st.maxSize
      /\ \A d \in Certs : st.cache[d] = "none" => Good(d)
  BY DEF StoreOK, AnyStore
<1>4. \/ /\ ~(Cardinality(Cached(put)) > st.maxSize)
         /\ x = [st EXCEPT !.cache = put, !.updated = TRUE]
      \/ /\ Cardinality(Cached(put)) > st.maxSize
         /\ \E d \in Cached(put) \ {c} :
               x = [st EXCEPT !.cache = [put EXCEPT ![d] = Absent], !.updated = TRUE]
  BY <1>1 DEF setResponse
<1>5. put \in Responses /\ \A e \in Certs : put[e] = IF e = c THEN r ELSE st.cache[e]
  BY <1>1, <1>3 DEF Responses
<1>6. r # Absent
  BY DEF Results, Absent
<1>7. Cached(put) = Cached(st.cache) \cup {c}
  BY <1>5, <1>6 DEF Cached
<1>8. /\ IsFiniteSet(Cached(st.cache)) /\ Cardinality(Cached(st.cache)) \in Nat
      /\ IsFiniteSet(Cached(put)) /\ Cardinality(Cached(put)) \in Nat
  BY <1>3, <1>5, CachedFinite
<1>9. Cardinality(Cached(put)) <= Cardinality(Cached(st.cache)) + 1
  <2>1. Cardinality(Cached(st.cache) \cup {c}) =
           IF c \in Cached(st.cache) THEN Cardinality(Cached(st.cache))
           ELSE Cardinality(Cached(st.cache)) + 1
    BY <1>8, FS_AddElement
  <2> QED
    BY <1>7, <1>8, <2>1
<1>10. \A e \in Certs : put[e] = "none" => Good(e)
  BY <1>3, <1>5
<1>11. CASE /\ ~(Cardinality(Cached(put)) > st.maxSize)
            /\ x = [st EXCEPT !.cache = put, !.updated = TRUE]
  <2>1. x.cache = put /\ x.maxSize = st.maxSize /\ x \in AnyStore
    BY <1>3, <1>5, <1>11 DEF AnyStore
  <2>2. Cardinality(Cached(put)) <= st.maxSize
    BY <1>3, <1>8, <1>11
  <2> QED
    BY <1>10, <2>1, <2>2 DEF StoreOK
<1>12. ASSUME Cardinality(Cached(put)) > st.maxSize, NEW d \in Cached(put) \ {c},
              x = [st EXCEPT !.cache = [put EXCEPT ![d] = Absent], !.updated = TRUE]
       PROVE  StoreOK(x)
  <2>1. d \in Cached(put) /\ d # c
    OBVIOUS
  <2>2. d \in Certs
    BY <2>1 DEF Cached
  <2>3. PICK less : less = [put EXCEPT ![d] = Absent]
    OBVIOUS
  <2>4. less \in Responses /\ \A e \in Certs : less[e] = IF e = d THEN Absent ELSE put[e]
    BY <1>5, <2>2, <2>3 DEF Responses
  <2>5. Cached(less) = Cached(put) \ {d}
    BY <2>4 DEF Cached
  <2>6. Cardinality(Cached(put) \ {d}) = Cardinality(Cached(put)) - 1
    BY <1>8, <2>1, FS_RemoveElement
  <2>7. x.cache = less /\ x.maxSize = st.maxSize /\ x \in AnyStore
    BY <1>3, <1>12, <2>3, <2>4 DEF AnyStore
  <2>8. Cardinality(Cached(less)) <= st.maxSize
    BY <1>3, <1>8, <1>9, <2>5, <2>6
  <2>9. \A e \in Certs : less[e] = "none" => Good(e)
    BY <1>10, <2>4 DEF Absent
  <2> QED
    BY <2>7, <2>8, <2>9 DEF StoreOK
<1> QED
  BY <1>4, <1>11, <1>12

\* No check is run again, and only those of a chain that is being checked can be.
RecallStays == rerun' = rerun /\ unread' \subseteq unread \cup (fresh \X Certs)

\* What follows from it.
LEMMA RecallFacts ==
    ASSUME OcspGood, RecallStays, ocsp' = ocsp, fresh \subseteq fresh',
           Among(ticks', Repeats) \subseteq Among(ticks, Repeats)
    PROVE  /\ \A r \in Sockets : CheckedTwice(r)' <=> CheckedTwice(r)
           /\ RepeatInv'
           /\ \A r \in Sockets : \A d \in ChainOf(r) : RecallInv(r, d)'
<1>1. \A r : ChainOf(r)' = ChainOf(r)
  BY DEF ChainOf
<1>2. \A r \in Sockets : CheckedTwice(r)' <=> CheckedTwice(r)
  BY <1>1 DEF CheckedTwice, RecallStays
<1>3. RepeatInv'
  BY OcspGoodIs DEF RepeatInv, RecallStays
<1>4. ASSUME NEW r \in Sockets, NEW d \in ChainOf(r)
      PROVE  RecallInv(r, d)'
  BY OcspGoodIs DEF RecallInv, RecallStays
<1> QED
  BY <1>2, <1>3, <1>4

\* A step that leaves a certificate of a chain.
SameCert(r, d) ==
    /\ val'[r][d] = val[r][d]
    /\ errors'[r][d] = errors[r][d]
    /\ Among(ticks', TicksOf(r, d)) = Due(r, d)
    /\ AtMostOne(ticks, TicksOf(r, d)) => AtMostOne(ticks', TicksOf(r, d))

\* The invariant of a certificate that a step leaves.
LEMMA CertStays ==
    ASSUME OcspGood, NEW r \in Sockets, NEW d \in ChainOf(r), SameCert(r, d), ocsp' = ocsp,
           r \in fresh' <=> r \in fresh, CheckedTwice(r)' <=> CheckedTwice(r)
    PROVE  CertInv(r, d)' /\ (Awaited(r, d)' <=> Awaited(r, d))
<1>1. CertInv(r, d)
  BY OcspGoodIs
<1>2. /\ undecodable(d)' = undecodable(d) /\ Closed' = Closed /\ Good(d)' = Good(d)
      /\ ocsp'.kind[d] = ocsp.kind[d]
  BY DEF undecodable, Closed, Good
<1>3. Due(r, d)' = Due(r, d)
  BY DEF Due, SameCert
<1>4. Awaited(r, d)' <=> Awaited(r, d)
  BY <1>3 DEF Awaited, SameCert
<1>5. TickInv(r, d)'
  BY <1>1, <1>2, <1>3 DEF CertInv, TickInv
<1>6. OnceInv(r, d)'
  BY <1>1, <1>2, <1>3, <1>4 DEF CertInv, OnceInv, SameCert
<1> QED
  BY <1>1, <1>2, <1>4, <1>5, <1>6 DEF CertInv, SameCert

\* A step of one certificate leaves the others.
LEMMA OneCertStep ==
    ASSUME OcspGood, NEW s \in Sockets, NEW c \in ChainOf(s),
           ocsp' = ocsp, fresh' = fresh, StoreOK(store)',
           \A r \in Sockets : \A d \in ChainOf(r) : r # s \/ d # c => SameCert(r, d),
           \A r \in Sockets \ {s} : sock'[r] = sock[r] /\ completed'[r] = completed[r],
           \A r \in Sockets : CheckedTwice(r)' <=> CheckedTwice(r),
           RepeatInv', \A r \in Sockets : \A d \in ChainOf(r) : RecallInv(r, d)',
           CertInv(s, c)', ChainInv(s)'
    PROVE  OcspInv'
<1>1. CacheInv'
  BY DEF StoreOK, CacheInv
<1>2. \A r \in Sockets : \A d \in ChainOf(r) :
         r # s \/ d # c => CertInv(r, d)' /\ (Awaited(r, d)' <=> Awaited(r, d))
  BY CertStays
<1>3. ASSUME NEW r \in Sockets \ {s}
      PROVE  ChainInv(r)'
  <2>1. ChainInv(r)
    BY OcspGoodIs
  <2>2. HaveReported(r)' = HaveReported(r)
    <3>1. ChainOf(r)' = ChainOf(r)
      BY DEF ChainOf
    <3> QED
      BY <1>2, <3>1 DEF HaveReported
  <2>3. \A d \in ChainOf(r) : errors'[r][d] = errors[r][d] /\ (Good(d)' <=> Good(d))
    BY DEF SameCert, Good
  <2> QED
    BY <2>1, <2>2, <2>3 DEF ChainInv, Closed
<1>4. \A r \in Sockets : (\A d \in ChainOf(r) : RecallInv(r, d))'
  BY DEF ChainOf
<1> QED
  BY <1>1, <1>2, <1>3, <1>4 DEF OcspInv

\* The ticks without one of certificate c of socket s.
Rest(q, s, c) ==
    /\ q \in Seq(AnyTick)
    /\ \A i \in DOMAIN q : q[i].c \in ChainOf(q[i].s)
    /\ \A r, d : r # s \/ d # c =>
          /\ Among(q, TicksOf(r, d)) = Due(r, d)
          /\ AtMostOne(ticks, TicksOf(r, d)) => AtMostOne(q, TicksOf(r, d))
    /\ Among(q, TicksOf(s, c)) \subseteq Due(s, c)
    /\ ~undecodable(c) => Among(q, TicksOf(s, c)) = {}
    /\ Among(q, Repeats) \subseteq Among(ticks, Repeats)

\* Ticks that are added for certificate c of socket s.
NewTicks(q, s, c) ==
    /\ q \in Seq(AnyTick)
    /\ \A i \in DOMAIN q : q[i].s = s /\ q[i].c = c /\ q[i].do # "rerun"
    /\ \A i \in DOMAIN q : q[i].do = "cb" =>
          /\ undecodable(c) => q[i].err # "none"
          /\ Closed /\ q[i].err = "none" => Good(c)
    /\ ~undecodable(c) => AtMostOne(q, TicksOf(s, c))

\* A certificate that waits while no tick is due.
LEMMA QuietRest ==
    ASSUME OcspGood, Quiet, NEW s \in Sockets, NEW c \in ChainOf(s), val[s][c] # "idle"
    PROVE  /\ Rest(<< >>, s, c) /\ s \in fresh /\ Awaited(s, c) /\ ticks = << >>
           /\ ~(~CheckedTwice(s) /\ undecodable(c) /\ errors[s][c] = "none")
<1>1. CertInv(s, c)
  BY OcspGoodIs
<1>2. \A X : Among(<< >>, X) = {} /\ AtMostOne(<< >>, X)
  BY AmongEmpty
<1>3. ticks = << >> /\ \A r, d : Due(r, d) = {}
  BY <1>2 DEF Quiet, Due
<1>4. Awaited(s, c)
  BY DEF Awaited
<1>5. Rest(<< >>, s, c)
  <2>1. PICK e : e = << >>
    OBVIOUS
  <2>2. e \in Seq(AnyTick) /\ DOMAIN e = {}
    BY <2>1
  <2>3. \A X : Among(e, X) = {} /\ AtMostOne(e, X)
    BY <1>2, <2>1
  <2>4. Rest(e, s, c)
    BY <1>3, <2>2, <2>3 DEF Rest
  <2> QED
    BY <2>1, <2>4
<1> QED
  BY <1>1, <1>3, <1>4, <1>5 DEF CertInv, OnceInv

\* The certificate of the first tick, and the ticks without that one.
LEMMA TailRest ==
    ASSUME OcspGood, ~Quiet, NEW t, t = Head(ticks), t.do # "rerun"
    PROVE  /\ t \in AnyTick /\ t.s \in Sockets /\ t.c \in ChainOf(t.s)
           /\ t \in Due(t.s, t.c) /\ Awaited(t.s, t.c) /\ t.s \in fresh
           /\ Rest(Tail(ticks), t.s, t.c)
           /\ t.do # "cb" /\ ~CheckedTwice(t.s) /\ undecodable(t.c) /\ errors[t.s][t.c] = "none" =>
                 \E u \in Among(Tail(ticks), TicksOf(t.s, t.c)) : u.do = "cb"
           /\ ~undecodable(t.c) => val[t.s][t.c] = "idle"
<1>1. ticks \in Seq(AnyTick) /\ ticks # << >> /\ \A i \in DOMAIN ticks : ticks[i].c \in ChainOf(ticks[i].s)
  BY OcspGoodIs DEF Quiet, OcspOK
<1>2. PICK q : q = Tail(ticks)
  OBVIOUS
<1>3. /\ t \in AnyTick /\ q \in Seq(AnyTick)
      /\ \A X : /\ Among(ticks, X) = Among(q, X) \cup ({t} \cap X)
                /\ AtMostOne(ticks, X) => AtMostOne(q, X) /\ (t \in X => Among(q, X) = {})
  <2>1. ASSUME NEW X
        PROVE  /\ Among(ticks, X) = Among(q, X) \cup ({t} \cap X)
               /\ AtMostOne(ticks, X) => AtMostOne(q, X) /\ (t \in X => Among(q, X) = {})
               /\ t \in AnyTick /\ q \in Seq(AnyTick)
    <3>1. /\ Head(ticks) \in AnyTick /\ Tail(ticks) \in Seq(AnyTick)
          /\ Among(ticks, X) = Among(Tail(ticks), X) \cup ({Head(ticks)} \cap X)
          /\ AtMostOne(ticks, X) => /\ AtMostOne(Tail(ticks), X)
                                    /\ Head(ticks) \in X => Among(Tail(ticks), X) = {}
      <4>1. ticks \in Seq(AnyTick) /\ ticks # << >>
        BY <1>1
      <4> QED
        BY ONLY <4>1, AmongTail
    <3>2. /\ t \in AnyTick /\ q \in Seq(AnyTick)
      BY <1>2, <3>1
    <3>3. Among(ticks, X) = Among(q, X) \cup ({t} \cap X)
      BY ONLY <1>2, <3>1, t = Head(ticks), Zenon
    <3>4. AtMostOne(ticks, X) => AtMostOne(q, X) /\ (t \in X => Among(q, X) = {})
      BY ONLY <1>2, <3>1, t = Head(ticks), Zenon
    <3> QED
      BY ONLY <3>2, <3>3, <3>4
  <2> QED
    BY <2>1
<1>4. Len(ticks) \in Nat \ {0} /\ DOMAIN ticks = 1..Len(ticks) /\ t = ticks[1]
  BY <1>1, EmptySeq, LenProperties
<1>5. PICK s, c : s = t.s /\ c = t.c
  OBVIOUS
<1>6. s \in Sockets /\ c \in ChainOf(s) /\ t.s = s /\ t.c = c
  BY <1>1, <1>3, <1>4, <1>5 DEF AnyTick
<1>7. t \in TicksOf(s, c) /\ \A r, d : r # s \/ d # c => t \notin TicksOf(r, d)
  BY <1>3, <1>6 DEF TicksOf
<1>8. t \in Due(s, c)
  BY <1>3, <1>7 DEF Due
<1>9. Awaited(s, c)
  BY <1>8 DEF Awaited
<1>10. CertInv(s, c)
  BY <1>6, OcspGoodIs
<1>11. s \in fresh
  BY <1>9, <1>10 DEF CertInv
<1>12. \A i \in DOMAIN q : q[i].c \in ChainOf(q[i].s)
  <2>1. /\ Len(q) \in Nat /\ Len(q) = Len(ticks) - 1 /\ DOMAIN q = 1..Len(q)
        /\ \A i \in 1..Len(q) : q[i] = ticks[i + 1]
    BY <1>1, <1>2, HeadTailProperties, LenProperties
  <2>2. \A i \in 1..Len(q) : i + 1 \in 1..Len(ticks)
    BY <1>4, <2>1
  <2> QED
    BY <1>1, <1>4, <2>1, <2>2
<1>13. Rest(q, s, c)
  <2>1. \A r, d : r # s \/ d # c =>
          /\ Among(q, TicksOf(r, d)) = Due(r, d)
          /\ AtMostOne(ticks, TicksOf(r, d)) => AtMostOne(q, TicksOf(r, d))
    <3>1. ASSUME NEW X, t \notin X
          PROVE  /\ Among(ticks, X) = Among(q, X) /\ (AtMostOne(ticks, X) => AtMostOne(q, X))
      <4>1. {t} \cap X = {}
        BY <3>1
      <4>2. /\ Among(ticks, X) = Among(q, X) \cup ({t} \cap X)
            /\ AtMostOne(ticks, X) => AtMostOne(q, X)
        BY <1>3
      <4> QED
        BY ONLY <4>1, <4>2
    <3> QED
      BY <1>7, <3>1 DEF Due
  <2>2. Among(q, TicksOf(s, c)) \subseteq Due(s, c)
    BY <1>3 DEF Due
  <2>3. ~undecodable(c) => Among(q, TicksOf(s, c)) = {}
    BY <1>3, <1>7, <1>10 DEF CertInv, OnceInv
  <2>4. Among(q, Repeats) \subseteq Among(ticks, Repeats)
    BY <1>3
  <2> QED
    BY <1>3, <1>12, <2>1, <2>2, <2>3, <2>4 DEF Rest
<1>14. ASSUME t.do # "cb", ~CheckedTwice(s), undecodable(c), errors[s][c] = "none"
       PROVE  \E u \in Among(q, TicksOf(s, c)) : u.do = "cb"
  <2>1. PICK u \in Due(s, c) : u.do = "cb"
    BY <1>10, <1>11, <1>14 DEF CertInv, OnceInv
  <2>2. u # t
    BY <1>14, <2>1
  <2>3. u \in Among(q, TicksOf(s, c))
    BY <1>3, <2>1, <2>2 DEF Due
  <2> QED
    BY <2>1, <2>3
<1>15. ~undecodable(c) => val[s][c] = "idle"
  BY <1>8, <1>10 DEF CertInv, OnceInv
<1> QED
  BY <1>2, <1>3, <1>5, <1>6, <1>8, <1>9, <1>11, <1>13, <1>14, <1>15

\* Two sequences of ticks in a row.
LEMMA MoreTicks ==
    ASSUME OcspGood, NEW s \in Sockets, NEW c \in ChainOf(s), NEW q, Rest(q, s, c),
           NEW n, NewTicks(n, s, c), ticks' = q \o n
    PROVE  /\ ticks' \in Seq(AnyTick) /\ \A i \in DOMAIN ticks' : ticks'[i].c \in ChainOf(ticks'[i].s)
           /\ \A r, d : r # s \/ d # c =>
                 /\ Among(ticks', TicksOf(r, d)) = Due(r, d)
                 /\ AtMostOne(ticks, TicksOf(r, d)) => AtMostOne(ticks', TicksOf(r, d))
           /\ Among(ticks', TicksOf(s, c)) = Among(q, TicksOf(s, c)) \cup {n[i] : i \in DOMAIN n}
           /\ ~undecodable(c) => AtMostOne(ticks', TicksOf(s, c))
           /\ Among(ticks', Repeats) \subseteq Among(ticks, Repeats)
<1>1. /\ q \in Seq(AnyTick) /\ n \in Seq(AnyTick)
      /\ \A i \in DOMAIN n : n[i].s = s /\ n[i].c = c /\ n[i].do # "rerun"
  BY DEF Rest, NewTicks
<1>2. \A i \in DOMAIN n : n[i] \in AnyTick
  BY <1>1, LenProperties, ElementOfSeq
<1>3. /\ \A r, d : r # s \/ d # c => Among(n, TicksOf(r, d)) = {} /\ AtMostOne(n, TicksOf(r, d))
      /\ Among(n, TicksOf(s, c)) = {n[i] : i \in DOMAIN n}
  BY <1>1, <1>2 DEF Among, AtMostOne, TicksOf
<1>4. \A X : /\ Among(ticks', X) = Among(q, X) \cup Among(n, X)
             /\ AtMostOne(q, X) /\ AtMostOne(n, X) /\ (Among(q, X) = {} \/ Among(n, X) = {})
                   => AtMostOne(ticks', X)
  BY <1>1, AmongConcat
<1>5. ASSUME NEW r, NEW d, r # s \/ d # c
      PROVE  /\ Among(ticks', TicksOf(r, d)) = Due(r, d)
             /\ AtMostOne(ticks, TicksOf(r, d)) => AtMostOne(ticks', TicksOf(r, d))
  <2>1. /\ Among(q, TicksOf(r, d)) = Due(r, d)
        /\ AtMostOne(ticks, TicksOf(r, d)) => AtMostOne(q, TicksOf(r, d))
    BY <1>5 DEF Rest
  <2>2. Among(n, TicksOf(r, d)) = {} /\ AtMostOne(n, TicksOf(r, d))
    BY <1>3, <1>5
  <2> QED
    BY <1>4, <2>1, <2>2
<1>6. ~undecodable(c) => AtMostOne(ticks', TicksOf(s, c))
  <2>1. ~undecodable(c) => Among(q, TicksOf(s, c)) = {} /\ AtMostOne(n, TicksOf(s, c))
    BY DEF Rest, NewTicks
  <2>2. Among(q, TicksOf(s, c)) = {} => AtMostOne(q, TicksOf(s, c))
    BY DEF Among, AtMostOne
  <2> QED
    BY <1>4, <2>1, <2>2
<1>7. Among(ticks', TicksOf(s, c)) = Among(q, TicksOf(s, c)) \cup {n[i] : i \in DOMAIN n}
  BY <1>3, <1>4
<1>8. /\ ticks' \in Seq(AnyTick) /\ Len(q) \in Nat /\ Len(n) \in Nat
      /\ Len(ticks') = Len(q) + Len(n)
      /\ \A i \in 1 .. Len(q) + Len(n) : ticks'[i] = IF i <= Len(q) THEN q[i] ELSE n[i - Len(q)]
  BY <1>1, ConcatProperties, LenProperties
<1>9. ASSUME NEW i \in DOMAIN ticks'
      PROVE  ticks'[i].c \in ChainOf(ticks'[i].s)
  <2>1. DOMAIN ticks' = 1..Len(ticks') /\ DOMAIN q = 1..Len(q) /\ DOMAIN n = 1..Len(n)
    BY <1>1, <1>8, LenProperties
  <2>2. i \in 1 .. Len(q) + Len(n)
    BY <1>8, <2>1
  <2>3. CASE i <= Len(q)
    <3>1. i \in DOMAIN q /\ ticks'[i] = q[i]
      BY <1>8, <2>1, <2>2, <2>3
    <3> QED
      BY <3>1 DEF Rest
  <2>4. CASE ~(i <= Len(q))
    <3>1. i - Len(q) \in DOMAIN n /\ ticks'[i] = n[i - Len(q)]
      BY <1>8, <2>1, <2>2, <2>4
    <3> QED
      BY <1>1, <3>1
  <2> QED
    BY <2>3, <2>4
<1>10. Among(ticks', Repeats) \subseteq Among(ticks, Repeats)
  <2>1. Among(n, Repeats) = {}
    BY <1>1 DEF Among, Repeats
  <2>2. Among(ticks', Repeats) = Among(q, Repeats)
    BY <1>4, <2>1
  <2> QED
    BY <2>2 DEF Rest
<1> QED
  BY <1>5, <1>6, <1>7, <1>8, <1>9, <1>10

\* What a step may do with the counters.
OtherTypes ==
    /\ tries' \in [Sockets -> [Certs -> 1 .. maxNumRetries']]
    /\ late' \subseteq Sockets \X Certs
    /\ ocspFaults' \in 0 .. MaxOcspFaults
    /\ unread' \subseteq Sockets \X Certs /\ RecallStays

\* A certificate goes on waiting.
LEMMA StillWaiting ==
    ASSUME OcspGood, NEW s \in Sockets, NEW c \in ChainOf(s), s \in fresh, Awaited(s, c),
           NEW q, Rest(q, s, c), NEW n, NewTicks(n, s, c), ticks' = q \o n,
           NEW w \in Waits, val' = [val EXCEPT ![s][c] = w],
           w # "idle" \/ n # << >>,
           ~undecodable(c) /\ n # << >> => w = "idle",
           w \in {"request", "sleep"} => ocsp.kind[c] \notin {"undecodable", "noAIA"},
           ~CheckedTwice(s) /\ undecodable(c) /\ errors[s][c] = "none" =>
              \/ \E t \in Among(q, TicksOf(s, c)) : t.do = "cb"
              \/ \E i \in DOMAIN n : n[i].do = "cb",
           StoreOK(store)', OtherTypes,
           UNCHANGED <<ocsp, completed, errors, sock, fresh>>
    PROVE  OcspGood'
<1>1. /\ SocketsOK /\ OcspOK /\ CertInv(s, c) /\ ChainInv(s) /\ c \in Certs
      /\ val \in [Sockets -> [Certs -> Waits]]
  BY OcspGoodIs, OcspKinds, ChainFacts
<1>2. /\ ticks' \in Seq(AnyTick) /\ \A i \in DOMAIN ticks' : ticks'[i].c \in ChainOf(ticks'[i].s)
      /\ \A r, d : r # s \/ d # c =>
            /\ Among(ticks', TicksOf(r, d)) = Due(r, d)
            /\ AtMostOne(ticks, TicksOf(r, d)) => AtMostOne(ticks', TicksOf(r, d))
      /\ Among(ticks', TicksOf(s, c)) = Among(q, TicksOf(s, c)) \cup {n[i] : i \in DOMAIN n}
      /\ ~undecodable(c) => AtMostOne(ticks', TicksOf(s, c))
      /\ Among(ticks', Repeats) \subseteq Among(ticks, Repeats)
  BY MoreTicks
<1>3. /\ val' \in [Sockets -> [Certs -> Waits]] /\ val'[s][c] = w
      /\ \A r \in Sockets, d \in Certs : r # s \/ d # c => val'[r][d] = val[r][d]
  BY <1>1
<1>4. OcspOK' /\ SocketsOK'
  BY <1>1, <1>2, <1>3 DEF OcspOK, SocketsOK, OtherTypes, StoreOK, RecallStays
<1>0. /\ \A r \in Sockets : CheckedTwice(r)' <=> CheckedTwice(r)
      /\ RepeatInv' /\ \A r \in Sockets : \A d \in ChainOf(r) : RecallInv(r, d)'
  BY <1>2, RecallFacts DEF OtherTypes
<1>5. PICK due : due = Among(q, TicksOf(s, c)) \cup {n[i] : i \in DOMAIN n}
  OBVIOUS
<1>6. Due(s, c)' = due
  BY <1>2, <1>5 DEF Due
<1>7. n # << >> => due # {}
  <2>1. n \in Seq(AnyTick)
    BY DEF NewTicks
  <2>2. n # << >> => 1 \in DOMAIN n
    BY <2>1, EmptySeq, LenProperties
  <2> QED
    BY <1>5, <2>2
<1>8. ~undecodable(c) /\ due # {} => w = "idle"
  <2>1. ~undecodable(c) => Among(q, TicksOf(s, c)) = {}
    BY DEF Rest
  <2>2. n = << >> => {n[i] : i \in DOMAIN n} = {}
    OBVIOUS
  <2> QED
    BY <1>5, <2>1, <2>2
<1>9. Awaited(s, c)'
  BY <1>3, <1>6, <1>7 DEF Awaited
<1>10. /\ undecodable(c)' = undecodable(c) /\ Closed' = Closed /\ \A d : Good(d)' = Good(d)
       /\ ocsp'.kind[c] = ocsp.kind[c]
  BY DEF undecodable, Closed, Good
<1>11. TickInv(s, c)'
  <2>1. ASSUME NEW t \in due, t.do = "cb"
        PROVE  (undecodable(c) => t.err # "none") /\ (Closed /\ t.err = "none" => Good(c))
    <3>1. CASE t \in Among(q, TicksOf(s, c))
      BY <1>1, <2>1, <3>1 DEF Rest, CertInv, TickInv
    <3>2. CASE t \in {n[i] : i \in DOMAIN n}
      BY <2>1, <3>2 DEF NewTicks
    <3> QED
      BY <1>5, <3>1, <3>2
  <2> QED
    BY <1>6, <1>10, <2>1 DEF TickInv
<1>12. OnceInv(s, c)'
  <2>1. ~undecodable(c) /\ ~CheckedTwice(s) => errors[s][c] = "none"
    BY <1>1 DEF CertInv, OnceInv
  <2>2. ~CheckedTwice(s) /\ undecodable(c) /\ errors[s][c] = "none" => \E t \in due : t.do = "cb"
    BY <1>5
  <2> QED
    BY <1>0, <1>2, <1>3, <1>6, <1>8, <1>10, <2>1, <2>2 DEF OnceInv
<1>13. CertInv(s, c)'
  BY <1>3, <1>9, <1>10, <1>11, <1>12 DEF CertInv
<1>14. ASSUME NEW r \in Sockets, NEW d \in ChainOf(r), r # s \/ d # c
       PROVE  SameCert(r, d) /\ (Awaited(r, d)' <=> Awaited(r, d))
  <2>1. d \in Certs
    BY ChainFacts
  <2>2. SameCert(r, d)
    BY <1>2, <1>3, <1>14, <2>1 DEF SameCert
  <2> QED
    BY <1>0, <2>2, CertStays
<1>15. ChainInv(s)'
  <2>1. \A d \in ChainOf(s) : Awaited(s, d)' <=> Awaited(s, d)
    BY <1>9, <1>14
  <2>2. HaveReported(s)' = HaveReported(s)
    <3>1. ChainOf(s)' = ChainOf(s)
      BY DEF ChainOf
    <3> QED
      BY <2>1, <3>1 DEF HaveReported
  <2> QED
    BY <1>0, <1>1, <1>10, <2>2 DEF ChainInv
<1>16. OcspInv'
  BY <1>0, <1>13, <1>14, <1>15, OneCertStep
<1> QED
  BY <1>4, <1>16 DEF OcspGood

\* A certificate reports.
LEMMA ReportStep ==
    ASSUME OcspGood, NEW s \in Sockets, NEW c \in ChainOf(s), s \in fresh, Awaited(s, c),
           NEW q, Rest(q, s, c), ticks' = q,
           NEW w \in Waits, val' = [val EXCEPT ![s][c] = w],
           ~undecodable(c) => w = "idle",
           w \in {"request", "sleep"} => ocsp.kind[c] \notin {"undecodable", "noAIA"},
           NEW err \in Results, undecodable(c) => err # "none", Closed /\ err = "none" => Good(c),
           errors' = [errors EXCEPT ![s][c] = err],
           completed' = [completed EXCEPT ![s] = @ + 1],
           \/ /\ completed'[s] = Len(Chain[s])
              /\ IF canEarlyExitForOCSP([d \in ChainOf(s) |-> errors'[s][d]]) THEN Destroy(s)
                 ELSE Uncork(s)
           \/ completed'[s] # Len(Chain[s]) /\ sock' = sock,
           StoreOK(store)', OtherTypes, UNCHANGED <<ocsp, fresh>>
    PROVE  OcspGood'
<1>1. /\ SocketsOK /\ OcspOK /\ CertInv(s, c) /\ ChainInv(s) /\ c \in Certs
      /\ val \in [Sockets -> [Certs -> Waits]] /\ errors \in [Sockets -> [Certs -> Results]]
      /\ completed \in [Sockets -> Nat]
  BY OcspGoodIs, OcspKinds, ChainFacts
<1>2. /\ val' \in [Sockets -> [Certs -> Waits]] /\ val'[s][c] = w
      /\ \A r \in Sockets, d \in Certs : r # s \/ d # c => val'[r][d] = val[r][d]
  BY <1>1
<1>3. /\ errors' \in [Sockets -> [Certs -> Results]] /\ errors'[s][c] = err
      /\ \A r \in Sockets, d \in Certs : r # s \/ d # c => errors'[r][d] = errors[r][d]
  BY <1>1
<1>4. /\ completed' \in [Sockets -> Nat] /\ completed'[s] = completed[s] + 1
      /\ \A r \in Sockets \ {s} : completed'[r] = completed[r]
  BY <1>1
<1>5. \/ sock' = sock
      \/ sock' = [sock EXCEPT ![s] = "destroyed"]
      \/ sock' = [sock EXCEPT ![s] = IF sock[s] = "destroyed" THEN "destroyed" ELSE "open"]
  BY DEF Destroy, Uncork
<1>6. SocketsOK' /\ \A r \in Sockets \ {s} : sock'[r] = sock[r]
  BY <1>1, <1>5 DEF SocketsOK, SocketStates
<1>7. OcspOK'
  BY <1>1, <1>2, <1>3, <1>4 DEF OcspOK, OtherTypes, StoreOK, Rest, RecallStays
<1>0. /\ \A r \in Sockets : CheckedTwice(r)' <=> CheckedTwice(r)
      /\ RepeatInv' /\ \A r \in Sockets : \A d \in ChainOf(r) : RecallInv(r, d)'
  BY RecallFacts DEF OtherTypes, Rest
<1>8. PICK due : due = Among(q, TicksOf(s, c))
  OBVIOUS
<1>9. Due(s, c)' = due /\ due \subseteq Due(s, c) /\ (~undecodable(c) => due = {})
  BY <1>8 DEF Due, Rest
<1>10. /\ undecodable(c)' = undecodable(c) /\ Closed' = Closed /\ \A d : Good(d)' = Good(d)
       /\ ocsp'.kind[c] = ocsp.kind[c]
  BY DEF undecodable, Closed, Good
<1>11. ~undecodable(c) => ~Awaited(s, c)' /\ (~CheckedTwice(s) => errors[s][c] = "none")
  BY <1>1, <1>2, <1>9 DEF Awaited, CertInv, OnceInv
<1>12. TickInv(s, c)'
  BY <1>1, <1>9, <1>10 DEF CertInv, TickInv
<1>13. OnceInv(s, c)'
  <2>1. ~undecodable(c) => AtMostOne(ticks', TicksOf(s, c))
    BY <1>8, <1>9 DEF Among, AtMostOne
  <2> QED
    BY <1>0, <1>2, <1>3, <1>9, <1>10, <1>11, <2>1 DEF OnceInv
<1>14. CertInv(s, c)'
  BY <1>0, <1>2, <1>3, <1>10, <1>12, <1>13 DEF CertInv
<1>15. ASSUME NEW r \in Sockets, NEW d \in ChainOf(r), r # s \/ d # c
       PROVE  SameCert(r, d) /\ (Awaited(r, d)' <=> Awaited(r, d)) /\ CertInv(r, d)'
  <2>1. d \in Certs
    BY ChainFacts
  <2>2. SameCert(r, d)
    BY <1>2, <1>3, <1>15, <2>1 DEF SameCert, Rest
  <2> QED
    BY <1>0, <2>2, CertStays
<1>16. ASSUME ~CheckedTwice(s), \A d \in ChainOf(s) : errors'[s][d] = "none"
       PROVE  /\ HaveReported(s)' = HaveReported(s) \cup {c} /\ c \notin HaveReported(s)
              /\ completed'[s] <= Cardinality(HaveReported(s)')
  <2>1. err = "none" /\ ~undecodable(c)
    BY <1>3, <1>16
  <2>2. \A d \in ChainOf(s) : errors[s][d] = "none"
    <3>1. \A d \in ChainOf(s) : d # c => errors[s][d] = errors'[s][d]
      BY <1>3, ChainFacts
    <3> QED
      BY <1>11, <1>16, <2>1, <3>1
  <2>3. completed[s] <= Cardinality(HaveReported(s))
    BY <1>1, <1>16, <2>2 DEF ChainInv
  <2>4. c \notin HaveReported(s)
    BY DEF HaveReported
  <2>5. HaveReported(s)' = HaveReported(s) \cup {c}
    <3>1. ChainOf(s)' = ChainOf(s)
      BY DEF ChainOf
    <3> QED
      BY <1>11, <1>15, <2>1, <3>1 DEF HaveReported
  <2>6. IsFiniteSet(HaveReported(s)) /\ Cardinality(HaveReported(s)) \in Nat
    <3>1. HaveReported(s) \in SUBSET ChainOf(s) /\ IsFiniteSet(ChainOf(s))
      BY ChainFacts DEF HaveReported
    <3> QED
      BY <3>1, FS_Subset, FS_CardinalityType
  <2>7. Cardinality(HaveReported(s) \cup {c}) = Cardinality(HaveReported(s)) + 1
    BY <2>4, <2>6, FS_AddElement
  <2>8. completed'[s] <= Cardinality(HaveReported(s) \cup {c})
    BY <1>1, <1>4, <2>3, <2>6, <2>7
  <2> QED
    BY <2>4, <2>5, <2>8
<1>17. ASSUME Closed, ~CheckedTwice(s), sock'[s] = "open"
       PROVE  \A d \in ChainOf(s) : Good(d)
  <2>1. CASE sock' = sock
    BY <1>1, <1>17, <2>1 DEF ChainInv
  <2>2. CASE /\ completed'[s] = Len(Chain[s])
             /\ IF canEarlyExitForOCSP([d \in ChainOf(s) |-> errors'[s][d]]) THEN Destroy(s)
                ELSE Uncork(s)
    <3>1. ~Destroy(s)
      BY <1>1, <1>17 DEF Destroy, SocketsOK
    <3>2. ~canEarlyExitForOCSP([d \in ChainOf(s) |-> errors'[s][d]])
      BY <2>2, <3>1
    <3>3. \A d \in ChainOf(s) : errors'[s][d] = "none"
      BY <1>17, <3>2 DEF canEarlyExitForOCSP, Closed
    <3>4. HaveReported(s)' = ChainOf(s)
      <4>1. HaveReported(s)' \in SUBSET ChainOf(s)
        BY DEF HaveReported, ChainOf
      <4>2. /\ completed'[s] <= Cardinality(HaveReported(s)')
            /\ IsFiniteSet(ChainOf(s)) /\ Cardinality(ChainOf(s)) = Len(Chain[s])
            /\ Len(Chain[s]) \in Nat
        BY <1>16, <1>17, <3>3, ChainFacts
      <4>3. /\ IsFiniteSet(HaveReported(s)') /\ Cardinality(HaveReported(s)') <= Cardinality(ChainOf(s))
            /\ Cardinality(ChainOf(s)) = Cardinality(HaveReported(s)') => ChainOf(s) = HaveReported(s)'
        BY <4>1, <4>2, FS_Subset
      <4>4. Cardinality(HaveReported(s)') \in Nat
        BY <4>3, FS_CardinalityType
      <4> QED
        BY <2>2, <4>2, <4>3, <4>4
    <3>5. \A d \in ChainOf(s) : CertInv(s, d)'
      BY <1>14, <1>15
    <3>6. \A d \in ChainOf(s) : ~Awaited(s, d)'
      <4>1. ChainOf(s)' = ChainOf(s)
        BY DEF ChainOf
      <4> QED
        BY <3>4, <4>1 DEF HaveReported
    <3>7. s \in fresh' /\ Closed' /\ ~CheckedTwice(s)'
      BY <1>0, <1>10, <1>17
    <3> QED
      BY <1>10, <3>3, <3>5, <3>6, <3>7 DEF CertInv
  <2> QED
    BY <2>1, <2>2
<1>18. ChainInv(s)'
  <2>1. sock'[s] # "corked"
    BY <1>1, <1>5 DEF ChainInv, SocketsOK
  <2>2. ChainOf(s)' = ChainOf(s) /\ s \in fresh'
    BY DEF ChainOf
  <2> QED
    BY <1>0, <1>10, <1>16, <1>17, <2>1, <2>2 DEF ChainInv
<1>19. OcspInv'
  BY <1>0, <1>6, <1>4, <1>14, <1>15, <1>18, OneCertStep
<1> QED
  BY <1>6, <1>7, <1>19 DEF OcspGood

\* What does not change in a step is of its type.
LEMMA OtherTypesStay ==
    ASSUME OcspGood, ocsp' = ocsp,
           tries' = tries \/ \E s \in Sockets, c \in Certs : tries' = [tries EXCEPT ![s][c] = 1],
           late' \in {late} \cup SUBSET (Sockets \X Certs), Fault \/ NoFault, RecallStays
    PROVE  OtherTypes
<1>1. maxNumRetries' = maxNumRetries /\ 1 \in 1 .. maxNumRetries
  BY DEF maxNumRetries
<1>2. PICK max : max = maxNumRetries
  OBVIOUS
<1>3. OcspOK /\ SocketsOK /\ tries \in [Sockets -> [Certs -> 1 .. max]]
  BY <1>2, OcspGoodIs DEF OcspOK
<1>4. tries' \in [Sockets -> [Certs -> 1 .. max]]
  BY <1>1, <1>2, <1>3
<1>5. ocspFaults' \in 0 .. MaxOcspFaults
  BY <1>3, OcspAssumption DEF OcspOK, Fault, NoFault
<1>6. unread' \subseteq Sockets \X Certs
  BY <1>3 DEF OcspOK, SocketsOK, RecallStays
<1>7. late' \subseteq Sockets \X Certs
  BY <1>3 DEF OcspOK
<1> QED
  BY <1>1, <1>2, <1>4, <1>5, <1>6, <1>7 DEF OtherTypes

\* A single tick, and two of them, as sequences.
LEMMA FewTicks ==
    ASSUME NEW a \in AnyTick, NEW b \in AnyTick
    PROVE  /\ << >> \o <<a>> \in Seq(AnyTick) /\ DOMAIN (<< >> \o <<a>>) = {1}
           /\ (<< >> \o <<a>>)[1] = a /\ << >> \o <<a>> # << >>
           /\ <<a>> \o <<b>> \in Seq(AnyTick) /\ DOMAIN (<<a>> \o <<b>>) = {1, 2}
           /\ (<<a>> \o <<b>>)[1] = a /\ (<<a>> \o <<b>>)[2] = b /\ <<a>> \o <<b>> # << >>
<1>1. << >> \o <<a>> = <<a>>
  OBVIOUS
<1>2. <<a>> \in Seq(AnyTick) /\ DOMAIN <<a>> = {1} /\ <<a>>[1] = a /\ <<a>> # << >>
  OBVIOUS
<1>3. PICK p, q, r : p = <<a>> /\ q = <<b>> /\ r = p \o q
  OBVIOUS
<1>4. p \in Seq(AnyTick) /\ q \in Seq(AnyTick) /\ Len(p) = 1 /\ Len(q) = 1 /\ p[1] = a /\ q[1] = b
  BY <1>3
<1>5. /\ r \in Seq(AnyTick) /\ Len(r) = 1 + 1
      /\ \A i \in 1 .. 1 + 1 : r[i] = IF i <= 1 THEN p[i] ELSE q[i - 1]
  BY ONLY <1>3, <1>4, ConcatProperties
<1>6. DOMAIN r = 1 .. 2
  BY <1>5, LenProperties
<1>7. DOMAIN r = {1, 2} /\ r[1] = a /\ r[2] = b /\ r # << >>
  <2>1. 1 .. 2 = {1, 2} /\ 1 + 1 = 2 /\ 2 - 1 = 1 /\ ~(2 <= 1)
    OBVIOUS
  <2>2. r[1] = a /\ r[2] = b
    BY <1>4, <1>5, <2>1
  <2> QED
    BY <1>6, <2>1, <2>2
<1> QED
  BY <1>1, <1>2, <1>3, <1>5, <1>7

\* What getOcspResonseAndVerify puts off: for a certificate that can be decoded one
\* callback, unless a request is sent; for another first of all an error.
LEMMA TicksFacts ==
    ASSUME OcspGood, NEW st, StoreOK(st), NEW s \in Sockets, NEW c \in ChainOf(s),
           NEW remote \in BOOLEAN
    PROVE  /\ NewTicks(Ticks(s, c, remote, st), s, c)
           /\ Ticks(s, c, remote, st) = << >> => ~remote /\ Sends(c, st)
           /\ ~undecodable(c) /\ Ticks(s, c, remote, st) # << >> => remote \/ ~Sends(c, st)
           /\ undecodable(c) =>
                 \E i \in DOMAIN Ticks(s, c, remote, st) : Ticks(s, c, remote, st)[i].do = "cb"
<1>1. /\ OcspOK /\ c \in Certs /\ ocsp.kind[c] \in Kinds
      /\ st.cache \in [Certs -> Results \cup {Absent}] /\ (st.cache[c] = "none" => Good(c))
  BY OcspGoodIs, OcspKinds, ChainFacts DEF StoreOK, AnyStore, Responses
<1>2. \A do \in {"cb", "getOcspCache"}, err \in Results :
         /\ Tick(s, c, do, err) \in AnyTick
         /\ Tick(s, c, do, err).s = s /\ Tick(s, c, do, err).c = c
         /\ Tick(s, c, do, err).do = do /\ Tick(s, c, do, err).err = err
  BY <1>1 DEF Tick, AnyTick
<1>3. PICK n : n = Ticks(s, c, remote, st)
  OBVIOUS
<1>4. /\ {"none", "DECODE", "TYPE_ERROR", "NO_AIA"} \subseteq Results
      /\ Absent \notin Results
  BY DEF Results, Absent
<1>5. ASSUME undecodable(c)
      PROVE  /\ NewTicks(n, s, c) /\ n # << >> /\ \E i \in DOMAIN n : n[i].do = "cb"
  <2>1. ~Hit(c, st)
    BY <1>5 DEF Hit
  <2>2. PICK a : a = Tick(s, c, "cb", "DECODE")
    OBVIOUS
  <2>3. PICK b : b = IF remote THEN Tick(s, c, "getOcspCache", "none")
                    ELSE Tick(s, c, "cb", "TYPE_ERROR")
    OBVIOUS
  <2>4. n = <<a>> \o <<b>>
    <3>1. CASE remote
      BY <1>3, <1>5, <2>1, <2>2, <2>3, <3>1 DEF Ticks
    <3>2. CASE ~remote
      BY <1>3, <1>5, <2>1, <2>2, <2>3, <3>2 DEF Ticks, undecodable
    <3> QED
      BY <3>1, <3>2
  <2>5. /\ a \in AnyTick /\ a.s = s /\ a.c = c /\ a.do = "cb" /\ a.err = "DECODE"
        /\ b \in AnyTick /\ b.s = s /\ b.c = c /\ (b.do = "cb" => b.err = "TYPE_ERROR")
        /\ b.do \in {"cb", "getOcspCache"}
    BY <1>2, <1>4, <2>2, <2>3
  <2>6. n \in Seq(AnyTick) /\ DOMAIN n = {1, 2} /\ n[1] = a /\ n[2] = b /\ n # << >>
    BY <2>4, <2>5, FewTicks
  <2>7. \A i \in DOMAIN n : n[i] = a \/ n[i] = b
    BY <2>6
  <2>8. \A i \in DOMAIN n : n[i].s = s /\ n[i].c = c /\ n[i].do # "rerun"
    BY <2>5, <2>7
  <2>9. \A i \in DOMAIN n : n[i].do = "cb" => n[i].err # "none"
    BY <2>5, <2>7
  <2>10. n[1].do = "cb" /\ 1 \in DOMAIN n
    BY <2>5, <2>6
  <2> QED
    BY <1>5, <2>6, <2>8, <2>9, <2>10 DEF NewTicks
<1>6. ASSUME ~undecodable(c), NEW do \in {"cb", "getOcspCache"}, NEW err \in Results,
             n = << >> \o <<Tick(s, c, do, err)>>, do = "cb" /\ Closed /\ err = "none" => Good(c)
      PROVE  NewTicks(n, s, c) /\ n # << >>
  <2>1. PICK a : a = Tick(s, c, do, err)
    OBVIOUS
  <2>2. a \in AnyTick /\ a.s = s /\ a.c = c /\ a.do = do /\ a.err = err
    BY <1>2, <2>1
  <2>3. n = << >> \o <<a>>
    BY <1>6, <2>1
  <2>4. n \in Seq(AnyTick) /\ DOMAIN n = {1} /\ n[1] = a /\ n # << >>
    BY <2>2, <2>3, FewTicks
  <2>5. \A X : AtMostOne(n, X)
    BY <2>4 DEF AtMostOne
  <2> QED
    BY <1>6, <2>2, <2>4, <2>5 DEF NewTicks
<1>7. ASSUME ~undecodable(c)
      PROVE  /\ NewTicks(n, s, c)
             /\ n = << >> => ~remote /\ Sends(c, st)
             /\ n # << >> => remote \/ ~Sends(c, st)
  <2>1. CASE Hit(c, st)
    <3>1. PICK err : err = st.cache[c]
      OBVIOUS
    <3>2. err \in Results /\ (err = "none" => Good(c))
      BY <1>1, <2>1, <3>1 DEF Hit
    <3>3. n = << >> \o <<Tick(s, c, "cb", err)>>
      BY <1>3, <1>7, <2>1, <3>1 DEF Ticks
    <3>4. NewTicks(n, s, c) /\ n # << >>
      BY <1>6, <1>7, <3>2, <3>3
    <3> QED
      BY <2>1, <3>4 DEF Sends
  <2>2. CASE ~Hit(c, st) /\ remote
    <3>1. n = << >> \o <<Tick(s, c, "getOcspCache", "none")>>
      BY <1>3, <1>7, <2>2 DEF Ticks
    <3>2. NewTicks(n, s, c) /\ n # << >>
      BY <1>4, <1>6, <1>7, <3>1
    <3> QED
      BY <2>2, <3>2
  <2>3. CASE ~Hit(c, st) /\ ~remote /\ ocsp.kind[c] = "noAIA"
    <3>1. PICK err : err = IF ocsp.mode = "FAIL_OPEN" THEN "none" ELSE "NO_AIA"
      OBVIOUS
    <3>2. err \in Results /\ (Closed => err # "none")
      BY <1>4, <3>1 DEF Closed
    <3>3. n = << >> \o <<Tick(s, c, "cb", err)>>
      BY <1>3, <1>7, <2>3, <3>1 DEF Ticks
    <3>4. NewTicks(n, s, c) /\ n # << >>
      BY <1>6, <1>7, <3>2, <3>3
    <3> QED
      BY <2>3, <3>4 DEF Sends
  <2>4. CASE ~Hit(c, st) /\ ~remote /\ ocsp.kind[c] # "noAIA"
    <3>1. n = << >> \o << >>
      BY <1>3, <1>7, <2>4 DEF Ticks
    <3>2. PICK e : e = << >>
      OBVIOUS
    <3>3. n = e /\ e \in Seq(AnyTick) /\ DOMAIN e = {} /\ \A X : AtMostOne(e, X)
      BY <3>1, <3>2 DEF AtMostOne
    <3>4. NewTicks(n, s, c)
      BY <3>3 DEF NewTicks
    <3>5. Sends(c, st)
      BY <1>7, <2>4 DEF Sends, undecodable
    <3> QED
      BY <2>4, <3>2, <3>3, <3>4, <3>5
  <2> QED
    BY <2>1, <2>2, <2>3, <2>4
<1> QED
  BY <1>3, <1>5, <1>7

\* getOcspResonseAndVerify, of a certificate that waits: it waits on.
LEMMA VerifyStep ==
    ASSUME OcspGood, NEW s \in Sockets, NEW c \in ChainOf(s), s \in fresh, Awaited(s, c),
           NEW q, Rest(q, s, c),
           ~CheckedTwice(s) /\ undecodable(c) /\ errors[s][c] = "none" =>
              \E t \in Among(q, TicksOf(s, c)) : t.do = "cb",
           NEW st, StoreOK(st), getOcspResonseAndVerify(s, c, st, q),
           late' \in {late} \cup SUBSET (Sockets \X Certs), Fault \/ NoFault, RecallStays
    PROVE  OcspGood'
<1>1. /\ ticks' = q \o Ticks(s, c, FALSE, st)
      /\ store' = Looked(st)
      /\ val' = [val EXCEPT ![s][c] = IF Sends(c, st) THEN "request" ELSE "idle"]
      /\ tries' = [tries EXCEPT ![s][c] = 1]
      /\ UNCHANGED <<ocsp, completed, errors, sock, fresh>>
  BY DEF getOcspResonseAndVerify, socketVars
<1>2. PICK n, w : n = Ticks(s, c, FALSE, st) /\ w = IF Sends(c, st) THEN "request" ELSE "idle"
  OBVIOUS
<1>3. /\ NewTicks(n, s, c)
      /\ n = << >> => Sends(c, st)
      /\ ~undecodable(c) /\ n # << >> => ~Sends(c, st)
  BY <1>2, TicksFacts
<1>4. StoreOK(store)'
  <2>1. StoreOK(Looked(st))
    BY LookedOK
  <2> QED
    BY <1>1, <2>1 DEF StoreOK, Good
<1>5. OtherTypes
  BY <1>1, OcspGoodIs, OtherTypesStay, ChainFacts
<1>6. /\ w \in Waits /\ (w # "idle" \/ n # << >>)
      /\ ~undecodable(c) /\ n # << >> => w = "idle"
      /\ w \in {"request", "sleep"} => ocsp.kind[c] \notin {"undecodable", "noAIA"}
  BY <1>2, <1>3 DEF Waits, Sends
<1>7. ticks' = q \o n /\ val' = [val EXCEPT ![s][c] = w]
  BY <1>1, <1>2
<1>8. ~CheckedTwice(s) /\ undecodable(c) /\ errors[s][c] = "none" =>
         \/ \E t \in Among(q, TicksOf(s, c)) : t.do = "cb"
         \/ \E i \in DOMAIN n : n[i].do = "cb"
  OBVIOUS
<1>9. w \in Waits /\ NewTicks(n, s, c)
  BY <1>3, <1>6
<1>10. w # "idle" \/ n # << >>
  BY <1>6
<1>11. ~undecodable(c) /\ n # << >> => w = "idle"
  BY <1>6
<1>12. w \in {"request", "sleep"} => ocsp.kind[c] \notin {"undecodable", "noAIA"}
  BY <1>6
<1>13. UNCHANGED <<ocsp, completed, errors, sock, fresh>>
  BY <1>1
<1>14. ticks' = q \o n
  BY <1>7
<1>15. val' = [val EXCEPT ![s][c] = w]
  BY <1>7
<1> QED
  BY <1>4, <1>5, <1>8, <1>9, <1>10, <1>11, <1>12, <1>13, <1>14, <1>15, StillWaiting

\* A step that only changes what the certificate waits for.
LEMMA WaitStep ==
    ASSUME OcspGood, NEW s \in Sockets, NEW c \in ChainOf(s), s \in fresh, Awaited(s, c),
           NEW q, Rest(q, s, c), ticks' = q,
           ~CheckedTwice(s) /\ undecodable(c) /\ errors[s][c] = "none" =>
              \E t \in Among(q, TicksOf(s, c)) : t.do = "cb",
           NEW w \in Waits \ {"idle"}, val' = [val EXCEPT ![s][c] = w],
           w \in {"request", "sleep"} => ocsp.kind[c] \notin {"undecodable", "noAIA"},
           StoreOK(store)', OtherTypes, UNCHANGED <<ocsp, completed, errors, sock, fresh>>
    PROVE  OcspGood'
<1>1. PICK n : n = << >>
  OBVIOUS
<1>2. n \in Seq(AnyTick) /\ DOMAIN n = {}
  BY <1>1
<1>3. NewTicks(n, s, c)
  BY <1>2 DEF NewTicks, AtMostOne
<1>4. q \in Seq(AnyTick)
  BY DEF Rest
<1>5. ticks' = q \o n
  BY <1>1, <1>4
<1> QED
  BY <1>1, <1>3, <1>5, StillWaiting

\* getOcspCache, of a certificate that waits: it waits on.
LEMMA GetCacheStep ==
    ASSUME OcspGood, NEW s \in Sockets, NEW c \in ChainOf(s), s \in fresh, Awaited(s, c),
           NEW q, Rest(q, s, c),
           ~CheckedTwice(s) /\ undecodable(c) /\ errors[s][c] = "none" =>
              \E t \in Among(q, TicksOf(s, c)) : t.do = "cb",
           getOcspCache(s, c, q), late' = late, NoFault, RecallStays
    PROVE  OcspGood'
<1>1. OcspOK /\ StoreOK(store)
  BY OcspGoodIs
<1>2. CASE getOcspResonseAndVerify(s, c, store, q)
  BY <1>1, <1>2, VerifyStep
<1>3. ASSUME NEW w \in {"wait", "download"}, val' = [val EXCEPT ![s][c] = w], ticks' = q,
             store' \in {store, [store EXCEPT !.status = "started"]},
             UNCHANGED <<ocsp, tries, completed, errors, sock, fresh>>
      PROVE  OcspGood'
  <2>1. StoreOK(store')
    BY <1>1, <1>3, LookedOK
  <2>2. StoreOK(store)'
    BY <1>3, <2>1 DEF StoreOK, Good
  <2>3. OtherTypes
    BY <1>1, <1>3, OtherTypesStay
  <2> QED
    BY <1>3, <2>2, <2>3, WaitStep DEF Waits
<1> QED
  BY <1>2, <1>3 DEF getOcspCache, socketVars

\* The callback of validateCert: what it does with the cache and with the socket,
LEMMA CertDoneFacts ==
    ASSUME OcspGood, NEW s \in Sockets, NEW c \in ChainOf(s),
           NEW err, NEW response \in Results \cup {Absent}, response = "none" => Good(c),
           CertDone(s, c, err, response)
    PROVE  /\ completed' = [completed EXCEPT ![s] = @ + 1]
           /\ errors' = [errors EXCEPT ![s][c] = err]
           /\ UNCHANGED <<ocsp, fresh>>
           /\ StoreOK(store)'
           /\ \/ /\ completed'[s] = Len(Chain[s])
                 /\ IF canEarlyExitForOCSP([d \in ChainOf(s) |-> errors'[s][d]]) THEN Destroy(s)
                    ELSE Uncork(s)
              \/ completed'[s] # Len(Chain[s]) /\ sock' = sock
<1>1. OcspOK /\ StoreOK(store) /\ c \in Certs /\ completed \in [Sockets -> Nat]
  BY OcspGoodIs, OcspKinds, ChainFacts
<1>2. PICK keep : keep = (response # Absent /\ (response = "none" \/ isValidOCSPError(response)))
  OBVIOUS
<1>3. PICK kept : kept = CASE ~keep -> {store}
                    [] keep /\ store.initialized -> setResponse(store, c, response)
                    [] OTHER -> {initCache(store, c, response)}
  OBVIOUS
<1>4. /\ completed' = [completed EXCEPT ![s] = @ + 1]
      /\ errors' = [errors EXCEPT ![s][c] = err]
      /\ \E st \in kept :
            IF completed'[s] = Len(Chain[s])
            THEN ChainDone(s, [d \in ChainOf(s) |-> errors'[s][d]], st)
            ELSE store' = st /\ UNCHANGED sock
      /\ UNCHANGED <<ocsp, fresh>>
  BY <1>2, <1>3, Zenon DEF CertDone
<1>5. ASSUME NEW st \in kept
      PROVE  StoreOK(st)
  <2>1. CASE ~keep
    BY <1>1, <1>3, <2>1
  <2>2. CASE keep
    <3>1. response \in Results
      BY <1>2, <2>2
    <3>2. CASE store.initialized
      <4>1. st \in setResponse(store, c, response)
        BY <1>3, <2>2, <3>2
      <4> QED
        BY <1>1, <3>1, <4>1, SetResponseOK
    <3>3. CASE ~store.initialized
      <4>1. st = initCache(store, c, response)
        BY <1>3, <2>2, <3>3
      <4> QED
        BY <1>1, <3>1, <4>1, InitCacheOK
    <3> QED
      BY <3>2, <3>3
  <2> QED
    BY <2>1, <2>2
<1>6. PICK st \in kept :
         IF completed'[s] = Len(Chain[s])
         THEN ChainDone(s, [d \in ChainOf(s) |-> errors'[s][d]], st)
         ELSE store' = st /\ UNCHANGED sock
  BY <1>4
<1>7. store' = resetCacheStatus(st) \/ store' = st
  BY <1>6 DEF ChainDone
<1>8. StoreOK(store)'
  <2>1. StoreOK(store')
    BY <1>5, <1>7, LookedOK
  <2> QED
    BY <1>4, <2>1 DEF StoreOK, Good
<1>9. \/ /\ completed'[s] = Len(Chain[s])
         /\ IF canEarlyExitForOCSP([d \in ChainOf(s) |-> errors'[s][d]]) THEN Destroy(s)
            ELSE Uncork(s)
      \/ completed'[s] # Len(Chain[s]) /\ sock' = sock
  BY <1>6 DEF ChainDone
<1> QED
  BY <1>4, <1>8, <1>9

\* and with the certificate.
LEMMA CertDoneStep ==
    ASSUME OcspGood, NEW s \in Sockets, NEW c \in ChainOf(s), s \in fresh, Awaited(s, c),
           NEW q, Rest(q, s, c), ticks' = q,
           NEW w \in Waits, val' = [val EXCEPT ![s][c] = w],
           ~undecodable(c) => w = "idle",
           w \in {"request", "sleep"} => ocsp.kind[c] \notin {"undecodable", "noAIA"},
           NEW err \in Results, undecodable(c) => err # "none", Closed /\ err = "none" => Good(c),
           NEW response \in Results \cup {Absent}, response = "none" => Good(c),
           CertDone(s, c, err, response), OtherTypes
    PROVE  OcspGood'
<1>1. /\ completed' = [completed EXCEPT ![s] = @ + 1]
      /\ errors' = [errors EXCEPT ![s][c] = err]
      /\ UNCHANGED <<ocsp, fresh>>
      /\ StoreOK(store)'
      /\ \/ /\ completed'[s] = Len(Chain[s])
            /\ IF canEarlyExitForOCSP([d \in ChainOf(s) |-> errors'[s][d]]) THEN Destroy(s)
               ELSE Uncork(s)
         \/ completed'[s] # Len(Chain[s]) /\ sock' = sock
  BY CertDoneFacts
<1> QED
  BY <1>1, ReportStep

\* A step of a chain that has been checked twice: nothing is promised of it any more.
LEMMA TwiceStep ==
    ASSUME OcspGood, NEW s \in Sockets, NEW c \in ChainOf(s), s \in fresh,
           OcspOK', SocketsOK', StoreOK(store)', ocsp' = ocsp, fresh' = fresh, val' = val,
           \A r, d : /\ Among(ticks', TicksOf(r, d)) = Due(r, d)
                     /\ AtMostOne(ticks, TicksOf(r, d)) => AtMostOne(ticks', TicksOf(r, d)),
           \A r \in Sockets \ {s} :
              /\ sock'[r] = sock[r] /\ completed'[r] = completed[r]
              /\ errors'[r] = errors[r] /\ rerun'[r] = rerun[r],
           rerun'[s][c] # "none", sock'[s] # "corked",
           RepeatInv', \A r \in Sockets : \A d \in ChainOf(r) : RecallInv(r, d)'
    PROVE  OcspGood'
<1>1. /\ \A r \in Sockets : ChainInv(r) /\ \A d \in ChainOf(r) : CertInv(r, d)
  BY OcspGoodIs
<1>2. /\ \A d : undecodable(d)' = undecodable(d) /\ Good(d)' = Good(d)
      /\ Closed' = Closed /\ \A r : ChainOf(r)' = ChainOf(r)
  BY DEF undecodable, Closed, Good, ChainOf
<1>3. \A r, d : Due(r, d)' = Due(r, d) /\ Awaited(r, d)' = Awaited(r, d)
  BY DEF Due, Awaited
<1>4. CheckedTwice(s)' /\ \A r \in Sockets \ {s} : CheckedTwice(r)' <=> CheckedTwice(r)
  BY <1>2 DEF CheckedTwice
<1>5. ASSUME NEW r \in Sockets \ {s}
      PROVE  ChainInv(r)' /\ \A d \in ChainOf(r) : CertInv(r, d)'
  <2>1. ASSUME NEW d \in ChainOf(r)
        PROVE  CertInv(r, d)'
    <3>1. SameCert(r, d)
      BY DEF SameCert
    <3>2. r \in fresh' <=> r \in fresh
      OBVIOUS
    <3> QED
      BY <1>4, <3>1, <3>2, CertStays
  <2>2. HaveReported(r)' = HaveReported(r)
    BY <1>2, <1>3 DEF HaveReported
  <2>3. ChainInv(r) /\ (CheckedTwice(r)' <=> CheckedTwice(r))
    BY <1>1, <1>4
  <2>4. ChainInv(r)'
    BY <1>2, <2>2, <2>3 DEF ChainInv
  <2> QED
    BY <2>1, <2>4
<1>6. ASSUME NEW d \in ChainOf(s)
      PROVE  CertInv(s, d)'
  <2>1. CertInv(s, d)
    BY <1>1
  <2>2. TickInv(s, d)'
    BY <1>2, <1>3, <2>1 DEF CertInv, TickInv
  <2>3. OnceInv(s, d)'
    BY <1>2, <1>3, <1>4, <2>1 DEF CertInv, OnceInv
  <2> QED
    BY <1>2, <1>4, <2>1, <2>2, <2>3 DEF CertInv
<1>7. ChainInv(s)'
  BY <1>4 DEF ChainInv
<1>8. CacheInv'
  BY DEF StoreOK, CacheInv
<1>9. \A r \in Sockets : (ChainInv(r) /\ \A d \in ChainOf(r) : CertInv(r, d) /\ RecallInv(r, d))'
  BY <1>2, <1>5, <1>6, <1>7
<1> QED
  BY <1>8, <1>9 DEF OcspGood, OcspInv

\* A second check calls back.
LEMMA SecondDoneStep ==
    ASSUME OcspGood, NEW s \in Sockets, NEW c \in ChainOf(s), s \in fresh,
           NEW err \in Results, NEW response \in Results \cup {Absent},
           response = "none" => Good(c), CertDone(s, c, err, response),
           ticks' \in Seq(AnyTick), \A i \in DOMAIN ticks' : ticks'[i].c \in ChainOf(ticks'[i].s),
           \A r, d : /\ Among(ticks', TicksOf(r, d)) = Due(r, d)
                     /\ AtMostOne(ticks, TicksOf(r, d)) => AtMostOne(ticks', TicksOf(r, d)),
           Among(ticks', Repeats) \subseteq Among(ticks, Repeats),
           rerun' = [rerun EXCEPT ![s][c] = "over"],
           UNCHANGED <<val, tries, late, unread>>, Fault \/ NoFault
    PROVE  OcspGood'
<1>1. /\ SocketsOK /\ OcspOK /\ ChainInv(s) /\ c \in Certs /\ errors \in [Sockets -> [Certs -> Results]]
      /\ completed \in [Sockets -> Nat] /\ rerun \in [Sockets -> [Certs -> Repetitions]]
      /\ RepeatInv /\ \A r \in Sockets : \A d \in ChainOf(r) : RecallInv(r, d)
  BY OcspGoodIs, OcspKinds, ChainFacts
<1>2. /\ completed' = [completed EXCEPT ![s] = @ + 1]
      /\ errors' = [errors EXCEPT ![s][c] = err]
      /\ UNCHANGED <<ocsp, fresh>>
      /\ StoreOK(store)'
      /\ \/ /\ completed'[s] = Len(Chain[s])
            /\ IF canEarlyExitForOCSP([d \in ChainOf(s) |-> errors'[s][d]]) THEN Destroy(s)
               ELSE Uncork(s)
         \/ completed'[s] # Len(Chain[s]) /\ sock' = sock
  BY CertDoneFacts
<1>3. \/ sock' = sock
      \/ sock' = [sock EXCEPT ![s] = "destroyed"]
      \/ sock' = [sock EXCEPT ![s] = IF sock[s] = "destroyed" THEN "destroyed" ELSE "open"]
  BY <1>2 DEF Destroy, Uncork
<1>4. SocketsOK' /\ sock'[s] # "corked" /\ \A r \in Sockets \ {s} : sock'[r] = sock[r]
  BY <1>1, <1>2, <1>3 DEF SocketsOK, SocketStates, ChainInv
<1>5. /\ rerun' \in [Sockets -> [Certs -> Repetitions]] /\ rerun'[s][c] = "over"
      /\ \A r \in Sockets, d \in Certs : r # s \/ d # c => rerun'[r][d] = rerun[r][d]
      /\ \A r \in Sockets \ {s} : rerun'[r] = rerun[r]
  BY <1>1 DEF Repetitions
<1>6. /\ errors' \in [Sockets -> [Certs -> Results]] /\ completed' \in [Sockets -> Nat]
      /\ \A r \in Sockets \ {s} : errors'[r] = errors[r] /\ completed'[r] = completed[r]
  BY <1>1, <1>2
<1>7. ocspFaults' \in 0 .. MaxOcspFaults /\ maxNumRetries' = maxNumRetries
  BY <1>1, <1>2, OcspAssumption DEF OcspOK, Fault, NoFault, maxNumRetries
<1>8. OcspOK'
  BY <1>1, <1>2, <1>5, <1>6, <1>7 DEF OcspOK, StoreOK
<1>9. RepeatInv'
  <2>1. ASSUME NEW t \in Among(ticks', Repeats)
        PROVE  rerun'[t.s][t.c] = "over"
    <3>1. t \in Among(ticks, Repeats) /\ t \in AnyTick
      BY DEF Among, Repeats
    <3>2. rerun[t.s][t.c] = "over" /\ t.s \in Sockets /\ t.c \in Certs
      BY <1>1, <3>1 DEF RepeatInv, AnyTick
    <3> QED
      BY <1>5, <3>2
  <2> QED
    BY <2>1 DEF RepeatInv
<1>10. ASSUME NEW r \in Sockets, NEW d \in ChainOf(r)
       PROVE  RecallInv(r, d)'
  <2>1. d \in Certs /\ RecallInv(r, d)
    BY <1>1, ChainFacts
  <2>2. CASE r = s /\ d = c
    BY <1>2, <1>5, <2>2 DEF RecallInv
  <2>3. CASE r # s \/ d # c
    BY <1>2, <1>5, <2>1, <2>3 DEF RecallInv
  <2> QED
    BY <2>2, <2>3
<1>11. rerun'[s][c] # "none"
  BY <1>5
<1>12. ocsp' = ocsp /\ fresh' = fresh /\ val' = val /\ StoreOK(store)'
  BY <1>2
<1>13. \A r \in Sockets \ {s} :
          /\ sock'[r] = sock[r] /\ completed'[r] = completed[r]
          /\ errors'[r] = errors[r] /\ rerun'[r] = rerun[r]
  BY <1>4, <1>5, <1>6
<1> QED
  BY <1>4, <1>8, <1>9, <1>10, <1>11, <1>12, <1>13, TwiceStep

\* The first tick, of a check that runs again, and the ticks without that one.
LEMMA TailRepeat ==
    ASSUME OcspGood, ~Quiet, NEW t, t = Head(ticks), t.do = "rerun", NEW q, q = Tail(ticks)
    PROVE  /\ t \in AnyTick /\ t.s \in Sockets /\ t.c \in ChainOf(t.s) /\ t.s \in fresh
           /\ rerun[t.s][t.c] = "over"
           /\ q \in Seq(AnyTick) /\ \A i \in DOMAIN q : q[i].c \in ChainOf(q[i].s)
           /\ \A r, d : /\ Among(q, TicksOf(r, d)) = Due(r, d)
                        /\ AtMostOne(ticks, TicksOf(r, d)) => AtMostOne(q, TicksOf(r, d))
           /\ Among(q, Repeats) \subseteq Among(ticks, Repeats)
<1>1. /\ ticks \in Seq(AnyTick) /\ ticks # << >>
      /\ \A i \in DOMAIN ticks : ticks[i].c \in ChainOf(ticks[i].s)
      /\ RepeatInv /\ \A r \in Sockets : \A d \in ChainOf(r) : RecallInv(r, d)
  BY OcspGoodIs DEF Quiet, OcspOK
<1>2. /\ Len(ticks) \in Nat \ {0} /\ DOMAIN ticks = 1..Len(ticks) /\ t = ticks[1]
      /\ q \in Seq(AnyTick) /\ Len(q) \in Nat /\ Len(q) = Len(ticks) - 1 /\ DOMAIN q = 1..Len(q)
      /\ \A i \in 1..Len(q) : q[i] = ticks[i + 1]
  BY <1>1, EmptySeq, HeadTailProperties, LenProperties
<1>3. \A i \in DOMAIN q : i + 1 \in DOMAIN ticks
  BY <1>2
<1>4. t \in AnyTick /\ 1 \in DOMAIN ticks
  BY <1>1, <1>2, ElementOfSeq
<1>5. t.s \in Sockets /\ t.c \in ChainOf(t.s)
  BY <1>1, <1>2, <1>4 DEF AnyTick
<1>6. rerun[t.s][t.c] = "over"
  <2>1. t \in Among(ticks, Repeats)
    BY <1>2, <1>4 DEF Among, Repeats
  <2> QED
    BY <1>1, <2>1 DEF RepeatInv
<1>7. t.s \in fresh
  BY <1>1, <1>5, <1>6 DEF RecallInv
<1>8. ASSUME NEW r, NEW d
      PROVE  /\ Among(q, TicksOf(r, d)) = Due(r, d)
             /\ AtMostOne(ticks, TicksOf(r, d)) => AtMostOne(q, TicksOf(r, d))
  <2>1. t \notin TicksOf(r, d)
    BY DEF TicksOf
  <2>2. Among(q, TicksOf(r, d)) \subseteq Due(r, d)
    BY <1>2, <1>3 DEF Among, Due
  <2>3. ASSUME NEW u \in Due(r, d)
        PROVE  u \in Among(q, TicksOf(r, d))
    <3>1. PICK i \in DOMAIN ticks : u = ticks[i]
      BY DEF Due, Among
    <3>2. u \in TicksOf(r, d) /\ i # 1
      BY <1>2, <2>1, <3>1 DEF Due, Among
    <3>3. i - 1 \in DOMAIN q /\ q[i - 1] = ticks[i]
      BY <1>2, <3>1, <3>2
    <3> QED
      BY <3>1, <3>2, <3>3 DEF Among
  <2>4. AtMostOne(ticks, TicksOf(r, d)) => AtMostOne(q, TicksOf(r, d))
    <3> SUFFICES ASSUME AtMostOne(ticks, TicksOf(r, d)), NEW i \in DOMAIN q, NEW j \in DOMAIN q,
                        q[i] \in TicksOf(r, d), q[j] \in TicksOf(r, d)
                 PROVE  i = j
      BY DEF AtMostOne
    <3>1. i + 1 = j + 1
      BY <1>2, <1>3 DEF AtMostOne
    <3> QED
      BY <1>2, <3>1
  <2> QED
    BY <2>2, <2>3, <2>4
<1>9. Among(q, Repeats) \subseteq Among(ticks, Repeats)
  BY <1>2, <1>3 DEF Among
<1>10. \A i \in DOMAIN q : q[i].c \in ChainOf(q[i].s)
  BY <1>1, <1>2, <1>3
<1> QED
  BY <1>2, <1>4, <1>5, <1>6, <1>7, <1>8, <1>9, <1>10

\* A callback of process.nextTick keeps the invariant of the OCSP check: that of a check
\* that runs again,
LEMMA RepeatTickStep ==
    ASSUME OcspGood, ocspTick, Head(ticks).do = "rerun"
    PROVE  OcspGood'
<1>1. PICK t, q : t = Head(ticks) /\ q = Tail(ticks)
  OBVIOUS
<1>2. PICK s, c, err : s = t.s /\ c = t.c /\ err = t.err
  OBVIOUS
<1>3. /\ ~Quiet /\ NoFault /\ UNCHANGED <<late, unread, rerun, val, tries>> /\ ticks' = q
      /\ CertDone(s, c, err, Absent)
  BY <1>1, <1>2 DEF ocspTick
<1>4. /\ t \in AnyTick /\ s \in Sockets /\ c \in ChainOf(s) /\ s \in fresh
      /\ rerun[s][c] = "over"
      /\ q \in Seq(AnyTick) /\ \A i \in DOMAIN q : q[i].c \in ChainOf(q[i].s)
      /\ \A r, d : /\ Among(q, TicksOf(r, d)) = Due(r, d)
                   /\ AtMostOne(ticks, TicksOf(r, d)) => AtMostOne(q, TicksOf(r, d))
      /\ Among(q, Repeats) \subseteq Among(ticks, Repeats)
  BY <1>1, <1>2, <1>3, TailRepeat
<1>5. err \in Results /\ Absent \in Results \cup {Absent} /\ Absent # "none"
  BY <1>2, <1>4 DEF AnyTick, Absent
<1>6. rerun' = [rerun EXCEPT ![s][c] = "over"]
  BY <1>3, <1>4, OcspGoodIs, OcspKinds, ChainFacts
<1>7. /\ ticks' \in Seq(AnyTick) /\ \A i \in DOMAIN ticks' : ticks'[i].c \in ChainOf(ticks'[i].s)
      /\ \A r, d : /\ Among(ticks', TicksOf(r, d)) = Due(r, d)
                   /\ AtMostOne(ticks, TicksOf(r, d)) => AtMostOne(ticks', TicksOf(r, d))
      /\ Among(ticks', Repeats) \subseteq Among(ticks, Repeats)
  BY <1>3, <1>4
<1>8. UNCHANGED <<val, tries, late, unread>>
  BY <1>3
<1> QED
  BY <1>3, <1>4, <1>5, <1>6, <1>7, <1>8, SecondDoneStep

\* and any other.
LEMMA OcspTickStep ==
    ASSUME OcspGood, ocspTick, Head(ticks).do # "rerun"
    PROVE  OcspGood'
<1>1. PICK t : t = Head(ticks)
  OBVIOUS
<1>2. PICK s, c, q : s = t.s /\ c = t.c /\ q = Tail(ticks)
  OBVIOUS
<1>3. ~Quiet /\ late' = late /\ NoFault /\ RecallStays
  BY DEF ocspTick, RecallStays
<1>4. \/ /\ t.do = "cb"
         /\ CertDone(s, c, t.err, Absent)
         /\ ticks' = q /\ val' = val /\ tries' = tries
      \/ t.do = "getOcspCache" /\ getOcspCache(s, c, q)
  BY <1>1, <1>2 DEF ocspTick
<1>5. /\ t \in AnyTick /\ s \in Sockets /\ c \in ChainOf(s)
      /\ t \in Due(s, c) /\ Awaited(s, c) /\ s \in fresh
      /\ Rest(q, s, c)
      /\ t.do # "cb" /\ ~CheckedTwice(s) /\ undecodable(c) /\ errors[s][c] = "none" =>
            \E u \in Among(q, TicksOf(s, c)) : u.do = "cb"
      /\ ~undecodable(c) => val[s][c] = "idle"
  BY <1>1, <1>2, <1>3, TailRest
<1>6. CertInv(s, c) /\ OcspOK /\ c \in Certs /\ val \in [Sockets -> [Certs -> Waits]]
  BY <1>5, OcspGoodIs, OcspKinds, ChainFacts
<1>7. CASE t.do = "getOcspCache" /\ getOcspCache(s, c, q)
  BY <1>3, <1>5, <1>7, GetCacheStep
<1>8. CASE /\ t.do = "cb"
           /\ CertDone(s, c, t.err, Absent)
           /\ ticks' = q /\ val' = val /\ tries' = tries
  <2>1. PICK err, w : err = t.err /\ w = val[s][c]
    OBVIOUS
  <2>2. /\ err \in Results /\ (undecodable(c) => err # "none")
        /\ Closed /\ err = "none" => Good(c)
    BY <1>5, <1>6, <1>8, <2>1 DEF AnyTick, CertInv, TickInv
  <2>3. w \in Waits /\ val' = [val EXCEPT ![s][c] = w]
    BY <1>5, <1>6, <1>8, <2>1
  <2>4. ~undecodable(c) => w = "idle"
    BY <1>5, <2>1
  <2>5. w \in {"request", "sleep"} => ocsp.kind[c] \notin {"undecodable", "noAIA"}
    BY <1>6, <2>1 DEF CertInv
  <2>6. CertDone(s, c, err, Absent)
    BY <1>8, <2>1
  <2>7. OtherTypes
    <3>1. ocsp' = ocsp
      BY <2>6 DEF CertDone
    <3> QED
      BY <1>3, <1>6, <1>8, <3>1, OtherTypesStay
  <2>8. Absent \in Results \cup {Absent} /\ Absent # "none"
    BY DEF Absent
  <2>9. Closed /\ err = "none" => Good(c)
    BY <2>2
  <2>10. err \in Results
    BY <2>2
  <2>11. undecodable(c) => err # "none"
    BY <2>2
  <2>12. w \in Waits
    BY <2>3
  <2>13. val' = [val EXCEPT ![s][c] = w]
    BY <2>3
  <2>14. /\ s \in Sockets /\ c \in ChainOf(s) /\ s \in fresh /\ Awaited(s, c)
         /\ Rest(q, s, c) /\ ticks' = q
    BY <1>5, <1>8
  <2> QED
    BY <2>4, <2>5, <2>6, <2>7, <2>8, <2>9, <2>10, <2>11, <2>12, <2>13, <2>14, CertDoneStep
<1> QED
  BY <1>4, <1>7, <1>8

\* So does the timer of getOcspCache,
LEMMA CacheTimerStep ==
    ASSUME OcspGood, NEW s \in Sockets, NEW c \in ChainOf(s), cacheTimer(s, c)
    PROVE  OcspGood'
<1>1. /\ Quiet /\ val[s][c] = "wait" /\ getOcspCache(s, c, << >>) /\ NoFault /\ late' = late
      /\ RecallStays
  BY DEF cacheTimer, RecallStays
<1>2. /\ Rest(<< >>, s, c) /\ s \in fresh /\ Awaited(s, c)
      /\ ~(~CheckedTwice(s) /\ undecodable(c) /\ errors[s][c] = "none")
  BY <1>1, QuietRest
<1>3. PICK q : q = << >>
  OBVIOUS
<1>4. getOcspCache(s, c, q) /\ Rest(q, s, c)
  BY <1>1, <1>2, <1>3
<1> QED
  BY <1>1, <1>2, <1>4, GetCacheStep

\* A step of a certificate that waits, which leaves the ticks.
LEMMA QuietWaitStep ==
    ASSUME OcspGood, Quiet, NEW s \in Sockets, NEW c \in ChainOf(s), val[s][c] # "idle",
           NEW w \in Waits \ {"idle"}, val' = [val EXCEPT ![s][c] = w],
           w \in {"request", "sleep"} => val[s][c] \in {"request", "sleep"},
           OtherTypes, UNCHANGED <<ocsp, store, ticks, completed, errors, sock, fresh>>
    PROVE  OcspGood'
<1>1. PICK q : q = << >>
  OBVIOUS
<1>2. /\ Rest(q, s, c) /\ s \in fresh /\ Awaited(s, c) /\ ticks' = q
      /\ ~(~CheckedTwice(s) /\ undecodable(c) /\ errors[s][c] = "none")
  BY <1>1, QuietRest
<1>3. CertInv(s, c) /\ StoreOK(store)
  BY OcspGoodIs
<1>4. StoreOK(store)'
  BY <1>3 DEF StoreOK, Good
<1>5. w \in {"request", "sleep"} => ocsp.kind[c] \notin {"undecodable", "noAIA"}
  BY <1>3 DEF CertInv
<1>6. UNCHANGED <<ocsp, completed, errors, sock, fresh>>
  OBVIOUS
<1>7. ~CheckedTwice(s) /\ undecodable(c) /\ errors[s][c] = "none" => \E t \in Among(q, TicksOf(s, c)) : t.do = "cb"
  BY <1>2
<1>8. Rest(q, s, c) /\ s \in fresh /\ Awaited(s, c) /\ ticks' = q
  BY <1>2
<1> QED
  BY <1>4, <1>5, <1>6, <1>7, <1>8, WaitStep

\* getOcspResonseAndVerify, when an answer comes.
LEMMA AnswerVerifyStep ==
    ASSUME OcspGood, Quiet, NEW s \in Sockets, NEW c \in ChainOf(s), val[s][c] # "idle",
           NEW st, StoreOK(st), getOcspResonseAndVerify(s, c, st, << >>),
           late' \in {late} \cup SUBSET (Sockets \X Certs), Fault \/ NoFault, RecallStays
    PROVE  OcspGood'
<1>1. PICK q : q = << >>
  OBVIOUS
<1>2. /\ Rest(q, s, c) /\ s \in fresh /\ Awaited(s, c)
      /\ ~(~CheckedTwice(s) /\ undecodable(c) /\ errors[s][c] = "none")
  BY <1>1, QuietRest
<1>3. getOcspResonseAndVerify(s, c, st, q)
  BY <1>1
<1>4. ~CheckedTwice(s) /\ undecodable(c) /\ errors[s][c] = "none" => \E t \in Among(q, TicksOf(s, c)) : t.do = "cb"
  BY <1>2
<1> QED
  BY <1>2, <1>3, <1>4, VerifyStep

\* an answer of the cache server,
LEMMA DownloadResponseStep ==
    ASSUME OcspGood, NEW s \in Sockets, NEW c \in ChainOf(s), downloadResponse(s, c)
    PROVE  OcspGood'
<1>1. /\ Quiet /\ val[s][c] = "download" /\ late' = late /\ OcspOK /\ StoreOK(store)
      /\ rerun' = rerun /\ (NoFault \/ Fault)
      /\ unread' = unread \/ unread' = unread \cup {<<s, c>>}
  BY OcspGoodIs DEF downloadResponse, Armed
<1>0. RecallStays
  <2>1. s \in fresh /\ c \in Certs
    BY <1>1, QuietRest, ChainFacts
  <2> QED
    BY <1>1, <2>1 DEF RecallStays
<1>2. CASE /\ val' = [val EXCEPT ![s][c] = "dropped"]
           /\ UNCHANGED <<ocsp, store, tries, completed, errors, ticks, socketVars>>
  <2>1. OtherTypes
    BY <1>0, <1>1, <1>2, OtherTypesStay
  <2> QED
    BY <1>1, <1>2, <2>1, QuietWaitStep DEF Waits, socketVars
<1>3. CASE NoFault /\ getOcspResonseAndVerify(s, c, Finish(updateCache(store)), << >>)
  <2>1. StoreOK(Finish(updateCache(store)))
    BY <1>1, UpdateCacheOK, LookedOK
  <2> QED
    BY <1>0, <1>1, <1>3, <2>1, AnswerVerifyStep
<1>4. CASE Fault /\ getOcspResonseAndVerify(s, c, Finish(store), << >>)
  <2>1. StoreOK(Finish(store))
    BY <1>1, LookedOK
  <2> QED
    BY <1>0, <1>1, <1>4, <2>1, AnswerVerifyStep
<1> QED
  BY <1>2, <1>3, <1>4 DEF downloadResponse

\* a download that fails,
LEMMA DownloadErrorStep ==
    ASSUME OcspGood, NEW s \in Sockets, NEW c \in ChainOf(s), downloadError(s, c)
    PROVE  OcspGood'
<1>1. /\ Quiet /\ val[s][c] = "download" /\ Fault /\ OcspOK /\ StoreOK(store)
      /\ getOcspResonseAndVerify(s, c, Finish(store), << >>)
      /\ late' \in {late, late \cup {<<s, c>>}} /\ RecallStays
  BY OcspGoodIs DEF downloadError, RecallStays
<1>2. StoreOK(Finish(store))
  BY <1>1, LookedOK
<1>3. late' \in {late} \cup SUBSET (Sockets \X Certs)
  BY <1>1, ChainFacts DEF OcspOK
<1> QED
  BY <1>1, <1>2, <1>3, AnswerVerifyStep

\* an answer that is cut,
LEMMA AnswerCutStep ==
    ASSUME OcspGood, NEW s \in Sockets, NEW c \in ChainOf(s), answerCut(s, c)
    PROVE  OcspGood'
<1>1. /\ Quiet /\ val[s][c] # "idle" /\ Fault /\ OcspOK
      /\ val' = [val EXCEPT ![s][c] = "cut"]
      /\ UNCHANGED <<ocsp, store, tries, completed, errors, ticks, late, sock, fresh>>
      /\ RecallStays
  BY OcspGoodIs DEF answerCut, socketVars, RecallStays
<1>2. OtherTypes
  BY <1>1, OtherTypesStay
<1> QED
  BY <1>1, <1>2, QuietWaitStep DEF Waits

\* the pause of check(),
LEMMA RetryTimerStep ==
    ASSUME OcspGood, NEW s \in Sockets, NEW c \in ChainOf(s), retryTimer(s, c)
    PROVE  OcspGood'
<1>1. /\ Quiet /\ val[s][c] = "sleep" /\ NoFault /\ OcspOK
      /\ val' = [val EXCEPT ![s][c] = "request"]
      /\ UNCHANGED <<ocsp, store, tries, completed, errors, ticks, late, sock, fresh>>
      /\ RecallStays
  BY OcspGoodIs DEF retryTimer, socketVars, NoFault, RecallStays
<1>2. OtherTypes
  BY <1>1, OtherTypesStay
<1> QED
  BY <1>1, <1>2, QuietWaitStep DEF Waits

\* A request that ends.
LEMMA RequestEnds ==
    ASSUME OcspGood, Quiet, NEW s \in Sockets, NEW c \in ChainOf(s), val[s][c] = "request",
           NEW err \in Results, NEW response \in Results \cup {Absent},
           err = "none" => Good(c), response = "none" => Good(c),
           CertDone(s, c, err, response), val' = [val EXCEPT ![s][c] = "idle"], ticks' = ticks,
           OtherTypes
    PROVE  OcspGood'
<1>1. PICK q, w : q = << >> /\ w = "idle"
  OBVIOUS
<1>2. Rest(q, s, c) /\ s \in fresh /\ Awaited(s, c) /\ ticks' = q
  BY <1>1, QuietRest
<1>3. ~undecodable(c)
  BY OcspGoodIs DEF CertInv, undecodable
<1>4. /\ w \in Waits /\ val' = [val EXCEPT ![s][c] = w] /\ w = "idle"
      /\ w \notin {"request", "sleep"}
  BY <1>1 DEF Waits
<1>5. undecodable(c) => err # "none"
  BY <1>3
<1>6. Closed /\ err = "none" => Good(c)
  OBVIOUS
<1>7. w \in {"request", "sleep"} => ocsp.kind[c] \notin {"undecodable", "noAIA"}
  BY <1>4
<1>8. ~undecodable(c) => w = "idle"
  BY <1>4
<1>9. val' = [val EXCEPT ![s][c] = w]
  BY <1>4
<1>10. w \in Waits
  BY <1>4
<1> QED
  BY <1>2, <1>5, <1>6, <1>7, <1>8, <1>9, <1>10, CertDoneStep

\* an answer of the responder,
LEMMA ResponderAnswersStep ==
    ASSUME OcspGood, NEW s \in Sockets, NEW c \in ChainOf(s), responderAnswers(s, c)
    PROVE  OcspGood'
<1>1. PICK r : r = verifyOCSPResponse(c)
  OBVIOUS
<1>2. /\ Quiet /\ val[s][c] = "request"
      /\ CertDone(s, c, r, r)
      /\ val' = [val EXCEPT ![s][c] = "idle"]
      /\ NoFault /\ UNCHANGED <<tries, ticks, late>> /\ RecallStays
  BY <1>1 DEF responderAnswers, RecallStays
<1>3. /\ CertInv(s, c) /\ OcspOK /\ ocsp.kind[c] \in Kinds
  BY OcspGoodIs, OcspKinds, ChainFacts
<1>4. ocsp.kind[c] \in {"good", "revoked", "unknown", "badSignature"}
  BY <1>2, <1>3 DEF CertInv, Kinds
<1>5. r \in Results /\ (r = "none" => Good(c))
  BY <1>1, <1>4 DEF verifyOCSPResponse, Results, Good
<1>6. OtherTypes
  <2>1. ocsp' = ocsp
    BY <1>2 DEF CertDone
  <2> QED
    BY <1>2, <1>3, <2>1, OtherTypesStay
<1>7. r \in Results \cup {Absent}
  BY <1>5
<1> QED
  BY <1>2, <1>5, <1>6, <1>7, RequestEnds

\* a request that fails,
LEMMA ResponderFailsStep ==
    ASSUME OcspGood, NEW s \in Sockets, NEW c \in ChainOf(s), responderFails(s, c)
    PROVE  OcspGood'
<1>1. /\ Quiet /\ val[s][c] = "request" /\ Fault /\ UNCHANGED <<ticks, late>>
      /\ OcspOK /\ c \in Certs /\ tries \in [Sockets -> [Certs -> 1 .. maxNumRetries]]
      /\ RecallStays /\ unread' = unread
  BY OcspGoodIs, OcspKinds, ChainFacts DEF responderFails, RecallStays
<1>2. CASE /\ tries[s][c] < maxNumRetries
           /\ tries' = [tries EXCEPT ![s][c] = @ + 1]
           /\ val' = [val EXCEPT ![s][c] = "sleep"]
           /\ UNCHANGED <<ocsp, store, completed, errors, socketVars>>
  <2>1. PICK max : max = maxNumRetries
    OBVIOUS
  <2>2. max \in Nat /\ maxNumRetries' = max
    BY <1>2, <2>1 DEF maxNumRetries
  <2>3. tries[s][c] \in 1 .. max /\ tries[s][c] < max
    BY <1>1, <1>2, <2>1
  <2>4. tries' \in [Sockets -> [Certs -> 1 .. max]]
    <3>1. tries[s][c] + 1 \in 1 .. max
      BY <2>2, <2>3
    <3> QED
      BY <1>1, <1>2, <2>1, <3>1
  <2>5. late' \subseteq Sockets \X Certs
    BY <1>1 DEF OcspOK
  <2>6. ocspFaults' \in 0 .. MaxOcspFaults
    BY <1>1, OcspAssumption DEF OcspOK, Fault
  <2>7. OtherTypes
    BY <1>1, <2>2, <2>4, <2>5, <2>6 DEF OtherTypes, OcspOK
  <2>8. UNCHANGED <<ocsp, store, ticks, completed, errors, sock, fresh>>
    BY <1>1, <1>2 DEF socketVars
  <2> QED
    BY <1>1, <1>2, <2>7, <2>8, QuietWaitStep DEF Waits
<1>3. CASE /\ CertDone(s, c, "RESPONDER", Absent)
           /\ val' = [val EXCEPT ![s][c] = "idle"]
           /\ UNCHANGED tries
  <2>1. ocsp' = ocsp
    BY <1>3 DEF CertDone
  <2>2. OtherTypes
    BY <1>1, <1>3, <2>1, OtherTypesStay
  <2>3. /\ "RESPONDER" \in Results /\ "RESPONDER" # "none"
        /\ Absent \in Results \cup {Absent} /\ Absent # "none"
    BY DEF Results, Absent
  <2>4. PICK err : err = "RESPONDER"
    OBVIOUS
  <2>5. /\ err \in Results /\ err # "none" /\ CertDone(s, c, err, Absent)
    BY <1>3, <2>3, <2>4
  <2> QED
    BY <1>1, <1>3, <2>2, <2>3, <2>5, RequestEnds
<1> QED
  BY <1>2, <1>3 DEF responderFails

\* the callbacks that a second check puts off,
LEMMA RerunTicks ==
    ASSUME OcspGood, NEW s \in Sockets, NEW c \in ChainOf(s), NEW n, NewTicks(n, s, c), Quiet,
           ticks' = Rerun(n)
    PROVE  /\ ticks' \in Seq(AnyTick) /\ \A i \in DOMAIN ticks' : ticks'[i].c \in ChainOf(ticks'[i].s)
           /\ \A r, d : /\ Among(ticks', TicksOf(r, d)) = Due(r, d)
                        /\ AtMostOne(ticks, TicksOf(r, d)) => AtMostOne(ticks', TicksOf(r, d))
           /\ \A t \in Among(ticks', Repeats) : t.s = s /\ t.c = c /\ n # << >>
<1>1. n \in Seq(AnyTick) /\ DOMAIN n = 1..Len(n) /\ Len(n) \in Nat
  BY LenProperties DEF NewTicks
<1>2. \A i \in DOMAIN n : n[i] \in AnyTick /\ n[i].s = s /\ n[i].c = c
  BY <1>1, ElementOfSeq DEF NewTicks
<1>3. PICK q : q = ticks'
  OBVIOUS
<1>4. q = [i \in DOMAIN n |-> [n[i] EXCEPT !.do = "rerun"]]
  BY <1>3 DEF Rerun
<1>5. \A i \in DOMAIN n : q[i] \in AnyTick /\ q[i].s = s /\ q[i].c = c /\ q[i].do = "rerun"
  BY <1>2, <1>4 DEF AnyTick
<1>6. DOMAIN q = DOMAIN n /\ q \in Seq(AnyTick)
  <2>1. DOMAIN q = DOMAIN n
    BY <1>4
  <2>2. q \in [1..Len(n) -> AnyTick]
    BY <1>1, <1>4, <1>5
  <2> QED
    BY <1>1, <2>1, <2>2
<1>7. \A r, d : Among(q, TicksOf(r, d)) = {} /\ AtMostOne(q, TicksOf(r, d))
  BY <1>5, <1>6 DEF Among, AtMostOne, TicksOf
<1>8. \A r, d : Due(r, d) = {}
  BY AmongEmpty DEF Quiet, Due
<1>9. \A t \in Among(q, Repeats) : t.s = s /\ t.c = c /\ n # << >>
  <2>1. n = << >> => DOMAIN n = {}
    OBVIOUS
  <2> QED
    BY <1>5, <1>6, <2>1 DEF Among
<1> QED
  BY <1>3, <1>5, <1>6, <1>7, <1>8, <1>9

\* an answer that lies unread,
LEMMA ResponseUnreadStep ==
    ASSUME OcspGood, NEW s \in Sockets, NEW c \in ChainOf(s), responseUnread(s, c)
    PROVE  OcspGood'
<1>1. /\ Quiet /\ <<s, c>> \in unread /\ unread' = unread \ {<<s, c>>}
      /\ NoFault /\ late' = late
      /\ SocketsOK /\ OcspOK /\ StoreOK(store) /\ RecallInv(s, c) /\ ChainInv(s) /\ c \in Certs
      /\ rerun \in [Sockets -> [Certs -> Repetitions]] /\ unread \subseteq Sockets \X Certs
  BY OcspGoodIs, OcspKinds, ChainFacts DEF responseUnread
<1>2. PICK st : st = Finish(store)
  OBVIOUS
<1>3. StoreOK(st)
  BY <1>1, <1>2, LookedOK
<1>4. s \in fresh
  BY <1>1 DEF RecallInv
<1>5. CASE /\ val[s][c] = "dropped"
           /\ getOcspResonseAndVerify(s, c, st, << >>)
           /\ rerun' = rerun
  <2>1. RecallStays
    BY <1>1, <1>5 DEF RecallStays
  <2> QED
    BY <1>1, <1>3, <1>5, <2>1, AnswerVerifyStep
<1>6. CASE /\ rerun' = [rerun EXCEPT ![s][c] = IF Sends(c, st) THEN "request" ELSE "over"]
           /\ ticks' = Rerun(Ticks(s, c, FALSE, st))
           /\ store' = Looked(st)
           /\ UNCHANGED <<ocsp, val, tries, completed, errors, sock, fresh>>
  <2>1. PICK n, where : /\ n = Ticks(s, c, FALSE, st)
                        /\ where = IF Sends(c, st) THEN "request" ELSE "over"
    OBVIOUS
  <2>2. NewTicks(n, s, c) /\ (n # << >> => ~Sends(c, st))
    <3>1. /\ NewTicks(n, s, c)
          /\ ~undecodable(c) /\ n # << >> => ~Sends(c, st)
      BY <1>3, <2>1, TicksFacts
    <3> QED
      BY <3>1 DEF Sends, undecodable
  <2>3. ticks' = Rerun(n)
    BY <1>6, <2>1
  <2>4. /\ ticks' \in Seq(AnyTick) /\ \A i \in DOMAIN ticks' : ticks'[i].c \in ChainOf(ticks'[i].s)
        /\ \A r, d : /\ Among(ticks', TicksOf(r, d)) = Due(r, d)
                     /\ AtMostOne(ticks, TicksOf(r, d)) => AtMostOne(ticks', TicksOf(r, d))
        /\ \A t \in Among(ticks', Repeats) : t.s = s /\ t.c = c /\ n # << >>
    BY <1>1, <2>2, <2>3, RerunTicks
  <2>5. /\ rerun' \in [Sockets -> [Certs -> Repetitions]] /\ rerun'[s][c] = where
        /\ \A r \in Sockets, d \in Certs : r # s \/ d # c => rerun'[r][d] = rerun[r][d]
        /\ \A r \in Sockets \ {s} : rerun'[r] = rerun[r]
        /\ where \in {"request", "over"}
    BY <1>1, <1>6, <2>1 DEF Repetitions
  <2>6. StoreOK(store)'
    <3>1. StoreOK(store')
      BY <1>3, <1>6, LookedOK
    <3> QED
      BY <1>6, <3>1 DEF StoreOK, Good
  <2>7. OcspOK' /\ SocketsOK'
    <3>1. unread' \subseteq Sockets \X Certs /\ ocspFaults' = ocspFaults
          /\ maxNumRetries' = maxNumRetries /\ \A r : ChainOf(r)' = ChainOf(r)
      BY <1>1, <1>6 DEF NoFault, maxNumRetries, ChainOf
    <3> QED
      BY <1>1, <1>6, <2>4, <2>5, <2>6, <3>1 DEF OcspOK, SocketsOK, StoreOK
  <2>8. RepeatInv'
    <3>1. ASSUME NEW t \in Among(ticks', Repeats)
          PROVE  rerun'[t.s][t.c] = "over"
      <4>1. t.s = s /\ t.c = c /\ n # << >>
        BY <2>4
      <4> QED
        BY <2>1, <2>2, <2>5, <4>1
    <3> QED
      BY <3>1 DEF RepeatInv
  <2>9. ASSUME NEW r \in Sockets, NEW d \in ChainOf(r)
        PROVE  RecallInv(r, d)'
    <3>1. d \in Certs /\ RecallInv(r, d)
      BY OcspGoodIs, ChainFacts
    <3>2. CASE r = s /\ d = c
      BY <1>4, <1>6, <2>1, <2>5, <3>2 DEF RecallInv, Sends
    <3>3. CASE r # s \/ d # c
      BY <1>1, <1>6, <2>5, <3>1, <3>3 DEF RecallInv
    <3> QED
      BY <3>2, <3>3
  <2>10. rerun'[s][c] # "none" /\ sock'[s] # "corked"
    BY <1>1, <1>4, <1>6, <2>5 DEF ChainInv
  <2>11. \A r \in Sockets \ {s} :
            /\ sock'[r] = sock[r] /\ completed'[r] = completed[r]
            /\ errors'[r] = errors[r] /\ rerun'[r] = rerun[r]
    BY <1>6, <2>5
  <2>12. ocsp' = ocsp /\ fresh' = fresh /\ val' = val
    BY <1>6
  <2>13. \A r, d : /\ Among(ticks', TicksOf(r, d)) = Due(r, d)
                   /\ AtMostOne(ticks, TicksOf(r, d)) => AtMostOne(ticks', TicksOf(r, d))
    BY <2>4
  <2> QED
    BY <1>4, <2>6, <2>7, <2>8, <2>9, <2>10, <2>11, <2>12, <2>13, TwiceStep
<1> QED
  BY <1>2, <1>5, <1>6 DEF responseUnread, socketVars

\* and the answer to a second check.
LEMMA SecondAnswerStep ==
    ASSUME OcspGood, NEW s \in Sockets, NEW c \in ChainOf(s), secondAnswer(s, c)
    PROVE  OcspGood'
<1>1. /\ Quiet /\ rerun[s][c] = "request" /\ rerun' = [rerun EXCEPT ![s][c] = "over"]
      /\ UNCHANGED <<val, tries, ticks, late, unread>> /\ (Fault \/ NoFault)
      /\ \/ CertDone(s, c, verifyOCSPResponse(c), verifyOCSPResponse(c))
         \/ CertDone(s, c, "RESPONDER", Absent)
  BY DEF secondAnswer
<1>2. /\ OcspOK /\ RecallInv(s, c) /\ ocsp.kind[c] \in Kinds
      /\ ticks \in Seq(AnyTick) /\ \A i \in DOMAIN ticks : ticks[i].c \in ChainOf(ticks[i].s)
  BY OcspGoodIs, OcspKinds, ChainFacts DEF OcspOK
<1>3. s \in fresh /\ ocsp.kind[c] \in {"good", "revoked", "unknown", "badSignature"}
  BY <1>1, <1>2 DEF RecallInv, Kinds
<1>4. PICK r : r = verifyOCSPResponse(c)
  OBVIOUS
<1>5. r \in Results /\ (r = "none" => Good(c))
  BY <1>3, <1>4 DEF verifyOCSPResponse, Results, Good
<1>6. PICK err, response :
         /\ err \in Results /\ response \in Results \cup {Absent}
         /\ response = "none" => Good(c)
         /\ CertDone(s, c, err, response)
  <2>1. "RESPONDER" \in Results /\ Absent \in Results \cup {Absent} /\ Absent # "none"
    BY DEF Results, Absent
  <2>2. CASE CertDone(s, c, r, r)
    BY <1>5, <2>2
  <2>3. CASE CertDone(s, c, "RESPONDER", Absent)
    BY <2>1, <2>3
  <2> QED
    BY <1>1, <1>4, <2>2, <2>3
<1>7. /\ ticks' \in Seq(AnyTick) /\ \A i \in DOMAIN ticks' : ticks'[i].c \in ChainOf(ticks'[i].s)
      /\ \A r0, d : /\ Among(ticks', TicksOf(r0, d)) = Due(r0, d)
                    /\ AtMostOne(ticks, TicksOf(r0, d)) => AtMostOne(ticks', TicksOf(r0, d))
      /\ Among(ticks', Repeats) \subseteq Among(ticks, Repeats)
  BY <1>1, <1>2 DEF Due
<1>8. UNCHANGED <<val, tries, late, unread>>
  BY <1>1
<1> QED
  BY <1>1, <1>3, <1>6, <1>7, <1>8, SecondDoneStep

\* What the certificates of a chain put off together: the ticks of one are those of
\* its own call.
LEMMA ChainTicks ==
    ASSUME OcspGood, NEW st, StoreOK(st), NEW s \in Sockets, NEW remote \in BOOLEAN, NEW q,
           q = FlattenSeq([i \in DOMAIN Chain[s] |-> Ticks(s, Chain[s][i], remote, st)])
    PROVE  /\ q \in Seq(AnyTick) /\ \A i \in DOMAIN q : q[i].c \in ChainOf(q[i].s)
           /\ \A r, d : r # s => Among(q, TicksOf(r, d)) = {} /\ AtMostOne(q, TicksOf(r, d))
           /\ \A c \in ChainOf(s) :
                 /\ \A t : t \in Among(q, TicksOf(s, c)) <=>
                              \E k \in DOMAIN Ticks(s, c, remote, st) : t = Ticks(s, c, remote, st)[k]
                 /\ ~undecodable(c) => AtMostOne(q, TicksOf(s, c))
           /\ Among(q, Repeats) = {}
<1>1. PICK parts : parts = [i \in DOMAIN Chain[s] |-> Ticks(s, Chain[s][i], remote, st)]
  OBVIOUS
<1>2. PICK len : len = Len(Chain[s])
  OBVIOUS
<1>3. /\ len \in Nat /\ DOMAIN Chain[s] = 1..len
      /\ \A i \in 1..len : Chain[s][i] \in ChainOf(s)
      /\ \A c \in ChainOf(s) : \E i \in 1..len : Chain[s][i] = c
      /\ \A i, j \in 1..len : Chain[s][i] = Chain[s][j] => i = j
  BY <1>2, ChainFacts
<1>4. \A i \in 1..len : parts[i] = Ticks(s, Chain[s][i], remote, st)
  BY <1>1, <1>3
<1>5. \A i \in 1..len : NewTicks(parts[i], s, Chain[s][i])
  BY <1>3, <1>4, TicksFacts
<1>6. \A i \in 1..len : parts[i] \in Seq(AnyTick)
  BY <1>5 DEF NewTicks
<1>7. parts \in Seq(Seq(AnyTick)) /\ Len(parts) = len
  <2>1. parts \in [1..len -> Seq(AnyTick)]
    BY <1>1, <1>3, <1>6
  <2> QED
    BY <1>3, <2>1
<1>8. q = FlattenSeq(parts)
  BY <1>1
<1>9. \A X : /\ q \in Seq(AnyTick)
             /\ \A t : t \in Among(q, X) <=> \E i \in 1..len : t \in Among(parts[i], X)
             /\ /\ \A i \in 1..len : AtMostOne(parts[i], X)
                /\ \A i, j \in 1..len : Among(parts[i], X) # {} /\ Among(parts[j], X) # {} => i = j
                => AtMostOne(q, X)
  BY <1>7, <1>8, FlattenSeqElements
<1>10. \A i \in 1..len : \A k \in DOMAIN parts[i] :
          parts[i][k].s = s /\ parts[i][k].c = Chain[s][i] /\ parts[i][k] \in AnyTick
          /\ parts[i][k].do # "rerun"
  BY <1>5, <1>6, LenProperties, ElementOfSeq DEF NewTicks
<1>11. ASSUME NEW k \in DOMAIN q
       PROVE  q[k].c \in ChainOf(q[k].s)
  <2>1. PICK X : X = {q[k]}
    OBVIOUS
  <2>2. q[k] \in Among(q, X)
    BY <2>1 DEF Among
  <2>3. PICK i \in 1..len : q[k] \in Among(parts[i], X)
    BY <1>9, <2>2
  <2>4. PICK j \in DOMAIN parts[i] : q[k] = parts[i][j]
    BY <2>3 DEF Among
  <2> QED
    BY <1>3, <1>10, <2>4
<1>12. ASSUME NEW r, NEW d, r # s
       PROVE  Among(q, TicksOf(r, d)) = {} /\ AtMostOne(q, TicksOf(r, d))
  <2>1. \A i \in 1..len : Among(parts[i], TicksOf(r, d)) = {}
    BY <1>10, <1>12 DEF Among, TicksOf
  <2>2. Among(q, TicksOf(r, d)) = {}
    BY <1>9, <2>1
  <2> QED
    BY <2>2 DEF Among, AtMostOne
<1>13. ASSUME NEW c \in ChainOf(s)
       PROVE  /\ \A t : t \in Among(q, TicksOf(s, c)) <=>
                           \E k \in DOMAIN Ticks(s, c, remote, st) : t = Ticks(s, c, remote, st)[k]
              /\ ~undecodable(c) => AtMostOne(q, TicksOf(s, c))
  <2>1. PICK i \in 1..len : Chain[s][i] = c
    BY <1>3
  <2>2. parts[i] = Ticks(s, c, remote, st) /\ NewTicks(parts[i], s, c)
    BY <1>4, <1>5, <2>1
  <2>3. Among(parts[i], TicksOf(s, c)) = {parts[i][k] : k \in DOMAIN parts[i]}
    BY <1>10, <2>1 DEF Among, TicksOf
  <2>4. \A j \in 1..len : j # i => Among(parts[j], TicksOf(s, c)) = {} /\ AtMostOne(parts[j], TicksOf(s, c))
    <3>1. \A j \in 1..len : j # i => Chain[s][j] # c
      BY <1>3, <2>1
    <3>2. \A j \in 1..len : j # i => \A k \in DOMAIN parts[j] : parts[j][k] \notin TicksOf(s, c)
      BY <1>10, <3>1 DEF TicksOf
    <3> QED
      BY <3>2 DEF Among, AtMostOne
  <2>5. Among(q, TicksOf(s, c)) = Among(parts[i], TicksOf(s, c))
    BY <1>9, <2>4
  <2>6. ~undecodable(c) => AtMostOne(parts[i], TicksOf(s, c))
    BY <2>2 DEF NewTicks
  <2>7. \A j, k \in 1..len :
           Among(parts[j], TicksOf(s, c)) # {} /\ Among(parts[k], TicksOf(s, c)) # {} => j = k
    BY <2>4
  <2>8. ~undecodable(c) => AtMostOne(q, TicksOf(s, c))
    <3>1. ~undecodable(c) => \A j \in 1..len : AtMostOne(parts[j], TicksOf(s, c))
      BY <2>4, <2>6
    <3> QED
      BY <1>9, <2>7, <3>1
  <2> QED
    BY <2>2, <2>3, <2>5, <2>8
<1>14. Among(q, Repeats) = {}
  <2>1. \A i \in 1..len : Among(parts[i], Repeats) = {}
    BY <1>10 DEF Among, Repeats
  <2> QED
    BY <1>9, <2>1
<1> QED
  BY <1>9, <1>11, <1>12, <1>13, <1>14

\* The validation of a chain starts: every certificate of it waits.
LEMMA SecureConnectFreshStep ==
    ASSUME OcspGood, NEW s \in Sockets, secureConnectFresh(s)
    PROVE  OcspGood'
<1>1. PICK remote : remote = ocsp.useCacheServer
  OBVIOUS
<1>2. PICK st : st = IF remote THEN store ELSE [store EXCEPT !.status = "finish"]
  OBVIOUS
<1>3. PICK q : q = FlattenSeq([i \in DOMAIN Chain[s] |-> Ticks(s, Chain[s][i], remote, st)])
  OBVIOUS
<1>4. /\ SocketsOK /\ OcspOK /\ StoreOK(store) /\ remote \in BOOLEAN /\ ocsp.mode \in {"FAIL_OPEN", "FAIL_CLOSED"}
      /\ val \in [Sockets -> [Certs -> Waits]] /\ errors \in [Sockets -> [Certs -> Results]]
      /\ \A r \in Sockets : ChainInv(r) /\ \A c \in ChainOf(r) : CertInv(r, c)
      /\ \A r \in Sockets : \A c \in ChainOf(r) : RecallInv(r, c)
  BY <1>1, OcspGoodIs, OcspKinds
<1>5. /\ Quiet /\ sock[s] = "corked" /\ NoFault /\ late' = late
      /\ sock' = [sock EXCEPT ![s] = "validating"] /\ fresh' = fresh \cup {s}
      /\ UNCHANGED <<ocsp, tries, completed, errors, unread, rerun>>
  BY DEF secureConnectFresh, StartValidation, validateCertChain
<1>6. /\ ticks' = q /\ store' = Looked(st)
      /\ val' = [val EXCEPT ![s] =
            [c \in Certs |-> IF c \in ChainOf(s) /\ ~remote /\ Sends(c, st)
                             THEN "request" ELSE val[s][c]]]
  BY <1>1, <1>2, <1>3 DEF secureConnectFresh, validateCertChain
<1>7. StoreOK(st)
  <2>1. StoreOK([store EXCEPT !.status = "finish"])
    BY <1>4, LookedOK DEF Finish
  <2> QED
    BY <1>2, <1>4, <2>1
<1>8. StoreOK(store)'
  <2>1. StoreOK(store')
    BY <1>6, <1>7, LookedOK
  <2> QED
    BY <1>5, <2>1 DEF StoreOK, Good
<1>9. /\ q \in Seq(AnyTick) /\ \A i \in DOMAIN q : q[i].c \in ChainOf(q[i].s)
      /\ \A r, d : r # s => Among(q, TicksOf(r, d)) = {} /\ AtMostOne(q, TicksOf(r, d))
      /\ \A c \in ChainOf(s) :
            /\ \A t : t \in Among(q, TicksOf(s, c)) <=>
                         \E k \in DOMAIN Ticks(s, c, remote, st) : t = Ticks(s, c, remote, st)[k]
            /\ ~undecodable(c) => AtMostOne(q, TicksOf(s, c))
      /\ Among(q, Repeats) = {}
  <2>1. OcspGood /\ StoreOK(st) /\ s \in Sockets /\ remote \in BOOLEAN
    BY <1>4, <1>7
  <2> QED
    BY ONLY <1>3, <2>1, ChainTicks
<1>20. /\ RecallStays
       /\ \A r \in Sockets : CheckedTwice(r)' <=> CheckedTwice(r)
       /\ RepeatInv' /\ \A r \in Sockets : \A d \in ChainOf(r) : RecallInv(r, d)'
  <2>1. RecallStays
    BY <1>5 DEF RecallStays
  <2>2. Among(ticks', Repeats) \subseteq Among(ticks, Repeats) /\ fresh \subseteq fresh'
    BY <1>5, <1>6, <1>9
  <2> QED
    BY <1>5, <2>1, <2>2, RecallFacts
<1>10. \A r, d : Due(r, d) = {}
  BY <1>5, AmongEmpty DEF Quiet, Due
<1>11. /\ s \notin fresh /\ completed[s] = 0
       /\ \A c \in ChainOf(s) : errors[s][c] = "none" /\ val[s][c] = "idle"
  BY <1>4, <1>5 DEF ChainInv, CertInv, Awaited
<1>12. PICK w : w = [c \in Certs |-> IF c \in ChainOf(s) /\ ~remote /\ Sends(c, st)
                                    THEN "request" ELSE val[s][c]]
  OBVIOUS
<1>13. /\ val' \in [Sockets -> [Certs -> Waits]]
       /\ \A r \in Sockets \ {s} : val'[r] = val[r]
       /\ \A c \in ChainOf(s) : val'[s][c] = IF ~remote /\ Sends(c, st) THEN "request" ELSE "idle"
  <2>1. w \in [Certs -> Waits]
    BY <1>4, <1>12 DEF Waits
  <2>2. val' = [val EXCEPT ![s] = w]
    BY <1>6, <1>12
  <2>3. \A c \in ChainOf(s) : w[c] = IF ~remote /\ Sends(c, st) THEN "request" ELSE "idle"
    BY <1>11, <1>12, ChainFacts
  <2> QED
    BY <1>4, <2>1, <2>2, <2>3
<1>14. SocketsOK' /\ OcspOK'
  <2>1. OtherTypes
    BY <1>4, <1>5, <1>20, OtherTypesStay
  <2>2. SocketsOK'
    BY <1>4, <1>5 DEF SocketsOK, SocketStates
  <2> QED
    BY <1>4, <1>5, <1>6, <1>8, <1>9, <1>13, <2>1, <2>2 DEF OcspOK, OtherTypes, StoreOK
<1>15. /\ \A c : undecodable(c)' = undecodable(c) /\ Good(c)' = Good(c)
       /\ Closed' = Closed
  BY <1>5 DEF undecodable, Closed, Good
<1>16. ASSUME NEW c \in ChainOf(s)
       PROVE  CertInv(s, c)' /\ Awaited(s, c)'
  <2>1. PICK n, due : n = Ticks(s, c, remote, st) /\ due = Among(q, TicksOf(s, c))
    OBVIOUS
  <2>2. /\ NewTicks(n, s, c)
        /\ n = << >> => ~remote /\ Sends(c, st)
        /\ ~undecodable(c) /\ n # << >> => remote \/ ~Sends(c, st)
        /\ undecodable(c) => \E i \in DOMAIN n : n[i].do = "cb"
    BY <1>4, <1>7, <2>1, TicksFacts
  <2>3. Due(s, c)' = due /\ due = {n[k] : k \in DOMAIN n}
    <3>1. \A t : t \in due <=> \E k \in DOMAIN n : t = n[k]
      BY <1>9, <2>1
    <3> QED
      BY <1>6, <2>1, <3>1 DEF Due
  <2>4. n = << >> <=> due = {}
    <3>1. n \in Seq(AnyTick)
      BY <2>2 DEF NewTicks
    <3>2. n # << >> => 1 \in DOMAIN n
      BY <3>1, EmptySeq, LenProperties
    <3>3. n = << >> => DOMAIN n = {}
      OBVIOUS
    <3> QED
      BY <2>3, <3>2, <3>3
  <2>5. val'[s][c] = IF ~remote /\ Sends(c, st) THEN "request" ELSE "idle"
    BY <1>13
  <2>6. Awaited(s, c)'
    BY <2>2, <2>3, <2>4, <2>5 DEF Awaited
  <2>7. TickInv(s, c)'
    <3>1. \A t \in due : t.do = "cb" =>
             (undecodable(c) => t.err # "none") /\ (Closed /\ t.err = "none" => Good(c))
      BY <2>2, <2>3 DEF NewTicks
    <3> QED
      BY <1>15, <2>3, <3>1 DEF TickInv
  <2>8. OnceInv(s, c)'
    <3>1. ~undecodable(c) => AtMostOne(q, TicksOf(s, c))
      BY <1>9
    <3>2. ~undecodable(c) /\ due # {} => val'[s][c] = "idle"
      BY <2>2, <2>4, <2>5
    <3>3. undecodable(c) => \E t \in due : t.do = "cb"
      BY <2>2, <2>3
    <3>4. errors'[s][c] = "none"
      BY <1>5, <1>11
    <3> QED
      BY <1>6, <1>15, <2>3, <3>1, <3>2, <3>3, <3>4 DEF OnceInv
  <2>9. val'[s][c] \in {"request", "sleep"} => ocsp'.kind[c] \notin {"undecodable", "noAIA"}
    BY <1>5, <2>5 DEF Sends
  <2>10. s \in fresh'
    BY <1>5
  <2> QED
    BY <2>6, <2>7, <2>8, <2>9, <2>10 DEF CertInv
<1>17. ASSUME NEW r \in Sockets \ {s}
       PROVE  ChainInv(r)' /\ \A d \in ChainOf(r) : CertInv(r, d)'
  <2>1. ASSUME NEW d \in ChainOf(r)
        PROVE  CertInv(r, d)' /\ (Awaited(r, d)' <=> Awaited(r, d))
    <3>1. SameCert(r, d)
      BY <1>5, <1>6, <1>9, <1>10, <1>13 DEF SameCert
    <3>2. r \in fresh' <=> r \in fresh
      BY <1>5
    <3> QED
      BY <1>5, <1>20, <3>1, <3>2, CertStays
  <2>2. HaveReported(r)' = HaveReported(r)
    <3>1. ChainOf(r)' = ChainOf(r)
      BY DEF ChainOf
    <3> QED
      BY <2>1, <3>1 DEF HaveReported
  <2>3. sock'[r] = sock[r] /\ (r \in fresh' <=> r \in fresh) /\ ChainInv(r)
    BY <1>4, <1>5 DEF SocketsOK
  <2>4. ChainInv(r)'
    BY <1>5, <1>15, <1>20, <2>2, <2>3 DEF ChainInv
  <2> QED
    BY <2>1, <2>4
<1>18. ChainInv(s)'
  <2>1. HaveReported(s)' = {}
    <3>1. ChainOf(s)' = ChainOf(s)
      BY DEF ChainOf
    <3> QED
      BY <1>16, <3>1 DEF HaveReported
  <2>2. Cardinality(HaveReported(s)') = 0
    BY <2>1, FS_EmptySet
  <2>3. sock'[s] = "validating" /\ s \in fresh' /\ completed'[s] = 0
    BY <1>4, <1>5, <1>11 DEF SocketsOK
  <2> QED
    BY <2>2, <2>3 DEF ChainInv
<1>19. OcspInv'
  <2>1. CacheInv'
    BY <1>8 DEF StoreOK, CacheInv
  <2>2. \A r \in Sockets : (ChainInv(r) /\ \A c \in ChainOf(r) : CertInv(r, c) /\ RecallInv(r, c))'
    <3>1. \A r : ChainOf(r)' = ChainOf(r)
      BY DEF ChainOf
    <3> QED
      BY <1>16, <1>17, <1>18, <1>20, <3>1
  <2> QED
    BY <1>20, <2>1, <2>2 DEF OcspInv
<1> QED
  BY <1>14, <1>19 DEF OcspGood

\* A step that leaves the certificates alone.
LEMMA CertsStay ==
    ASSUME OcspGood, UNCHANGED <<ocsp, val, tries, completed, errors, ticks, fresh, unread, rerun>>,
           SocketsOK', StoreOK(store)', late' \subseteq late, NoFault,
           \A s \in Sockets : sock'[s] = sock[s] \/ (s \notin fresh /\ sock'[s] \in {"open", "destroyed"})
    PROVE  OcspGood'
<1>1. /\ SocketsOK /\ OcspOK
      /\ \A s \in Sockets : ChainInv(s) /\ \A c \in ChainOf(s) : CertInv(s, c)
  BY OcspGoodIs
<1>2. OcspOK'
  BY <1>1 DEF OcspOK, StoreOK, NoFault, maxNumRetries, ChainOf
<1>7. /\ \A r \in Sockets : CheckedTwice(r)' <=> CheckedTwice(r)
      /\ RepeatInv' /\ \A r \in Sockets : \A d \in ChainOf(r) : RecallInv(r, d)'
  BY RecallFacts DEF RecallStays
<1>3. /\ \A c : undecodable(c)' = undecodable(c) /\ Good(c)' = Good(c)
      /\ Closed' = Closed /\ \A s : ChainOf(s)' = ChainOf(s)
      /\ \A s, c : Due(s, c)' = Due(s, c) /\ Awaited(s, c)' = Awaited(s, c)
  BY DEF undecodable, Closed, Good, ChainOf, Due, Awaited, Among
<1>4. ASSUME NEW s \in Sockets, NEW c \in ChainOf(s)
      PROVE  CertInv(s, c)'
  <2>1. SameCert(s, c)
    BY DEF SameCert, Due
  <2> QED
    BY <1>7, <2>1, CertStays
<1>5. ASSUME NEW s \in Sockets
      PROVE  ChainInv(s)'
  <2>1. HaveReported(s)' = HaveReported(s)
    BY <1>3 DEF HaveReported
  <2> QED
    BY <1>1, <1>3, <1>7, <2>1 DEF ChainInv
<1>6. OcspInv'
  <2>1. CacheInv'
    BY DEF StoreOK, CacheInv
  <2> QED
    BY <1>3, <1>4, <1>5, <1>7, <2>1 DEF OcspInv
<1> QED
  BY <1>2, <1>6 DEF OcspGood

\* and a socket whose chain is not looked at.
LEMMA SecureConnectOtherStep ==
    ASSUME OcspGood, NEW s \in Sockets, secureConnectOther(s)
    PROVE  OcspGood'
<1>1. /\ SocketsOK /\ StoreOK(store) /\ ChainInv(s) /\ sock[s] = "corked"
      /\ UNCHANGED <<ocsp, store, val, tries, completed, errors, ticks, late, ocspFaults, fresh>>
      /\ UNCHANGED <<unread, rerun>>
  BY OcspGoodIs DEF secureConnectOther, ocspVars
<1>2. s \notin fresh
  BY <1>1 DEF ChainInv
<1>3. \/ sock' = [sock EXCEPT ![s] = "open"]
      \/ sock' = [sock EXCEPT ![s] = "destroyed"]
  BY <1>1 DEF secureConnectOther, Uncork, Destroy, SocketsOK
<1>4. /\ SocketsOK'
      /\ \A r \in Sockets : sock'[r] = sock[r] \/ (r \notin fresh /\ sock'[r] \in {"open", "destroyed"})
  BY <1>1, <1>2, <1>3 DEF SocketsOK, SocketStates
<1>5. StoreOK(store)'
  BY <1>1 DEF StoreOK, Good
<1> QED
  BY <1>1, <1>4, <1>5, CertsStay DEF NoFault

\* The steps of the response cache alone.
LEMMA CacheStep ==
    ASSUME OcspGood, abortedError \/ cacheAges
    PROVE  OcspGood'
<1>1. /\ SocketsOK /\ StoreOK(store)
      /\ UNCHANGED <<ocsp, val, tries, completed, errors, ticks, fresh, sock, unread, rerun>>
      /\ late' \subseteq late /\ NoFault
      /\ store' = Finish(store) \/ store' = [store EXCEPT !.expired = TRUE]
  BY OcspGoodIs DEF abortedError, cacheAges, socketVars, NoFault
<1>2. StoreOK(store')
  BY <1>1, LookedOK
<1>3. StoreOK(store)' /\ SocketsOK'
  BY <1>1, <1>2 DEF StoreOK, Good, SocketsOK
<1> QED
  BY <1>1, <1>3, CertsStay

\* No step of the OCSP check breaks its invariant.
LEMMA OcspNextGood ==
    ASSUME OcspGood, OcspNext
    PROVE  OcspGood'
<1>1. ASSUME NEW s \in Sockets, NEW c \in ChainOf(s), CertEvent(s, c)
      PROVE  OcspGood'
  BY <1>1, CacheTimerStep, DownloadResponseStep, DownloadErrorStep, ResponderAnswersStep,
     ResponderFailsStep, RetryTimerStep DEF CertEvent
<1> QED
  BY <1>1, SecureConnectFreshStep, SecureConnectOtherStep, RepeatTickStep, OcspTickStep,
     AnswerCutStep, ResponseUnreadStep, SecondAnswerStep, CacheStep DEF OcspNext

-----------------------------------------------------------------------------
(* Both checks. *)

\* The response cache as it is made from the cache file.
LEMMA NewStoreOK ==
    ASSUME NEW f \in SUBSET Certs, f \subseteq ocsp.file, NEW x \in BOOLEAN
    PROVE  StoreOK(NewStore(f, x))
<1>1. IsFiniteSet(f) /\ Cardinality(f) \in Nat
  BY ChainAssumption, FS_Subset, FS_CardinalityType
<1>2. Loaded(f) \in Responses /\ \A c \in Certs : Loaded(f)[c] = "none" => c \in f
  BY DEF Loaded, Responses, Results, Absent
<1>3. Cached(Loaded(f)) = f
  BY DEF Cached, Loaded, Absent
<1>4. PICK st : st = NewStore(f, x)
  OBVIOUS
<1>5. st.cache = Loaded(f) /\ st.maxSize = Cardinality(f) /\ st \in AnyStore
  BY <1>1, <1>2, <1>4 DEF NewStore, AnyStore
<1>6. Cardinality(Cached(st.cache)) <= st.maxSize
  BY <1>1, <1>3, <1>5
<1> QED
  BY <1>2, <1>4, <1>5, <1>6 DEF StoreOK, Good

\* The invariant of the OCSP check holds when the agents are made,
LEMMA OcspInitGood ==
    ASSUME SocketsInit, OcspInit
    PROVE  OcspGood
<1>1. /\ SocketsOK /\ fresh = {} /\ ticks = << >>
      /\ \A s \in Sockets : sock[s] = "corked" /\ completed[s] = 0
      /\ \A s \in Sockets, c \in Certs : val[s][c] = "idle" /\ errors[s][c] = "none"
      /\ unread = {} /\ rerun = [s \in Sockets |-> [c \in Certs |-> "none"]]
  BY DEF SocketsInit, OcspInit, SocketsOK, SocketStates
<1>2. ocsp \in [mode : {"FAIL_OPEN", "FAIL_CLOSED"}, useCacheServer : BOOLEAN,
                kind : [Certs -> Kinds], file : SUBSET Certs]
  BY OcspAssumption DEF OcspInit
<1>3. StoreOK(store)
  <2>1. PICK x \in BOOLEAN : store = NewStore(ocsp.file, x)
    BY DEF OcspInit
  <2>2. ocsp.file \in SUBSET Certs
    BY <1>2
  <2>3. StoreOK(NewStore(ocsp.file, x))
    BY <2>2, NewStoreOK
  <2> QED
    BY <2>1, <2>3
<1>4. OcspOK
  <2>1. /\ val \in [Sockets -> [Certs -> Waits]]
        /\ errors \in [Sockets -> [Certs -> Results]]
        /\ completed \in [Sockets -> Nat]
        /\ rerun \in [Sockets -> [Certs -> Repetitions]] /\ unread \subseteq Sockets \X Certs
    BY <1>1 DEF OcspInit, Waits, Results, Repetitions
  <2>2. tries \in [Sockets -> [Certs -> 1 .. maxNumRetries]]
    <3>1. 1 \in 1 .. maxNumRetries
      BY DEF maxNumRetries
    <3> QED
      BY <3>1 DEF OcspInit
  <2>3. ticks \in Seq(AnyTick) /\ DOMAIN ticks = {}
    BY <1>1
  <2>4. late = {} /\ ocspFaults \in 0 .. MaxOcspFaults
    BY OcspAssumption DEF OcspInit
  <2> QED
    BY <1>2, <1>3, <2>1, <2>2, <2>3, <2>4 DEF OcspOK, StoreOK
<1>5. \A X : Among(ticks, X) = {} /\ AtMostOne(ticks, X)
  BY <1>1, AmongEmpty
<1>6. ASSUME NEW s \in Sockets
      PROVE  ChainInv(s) /\ \A c \in ChainOf(s) : CertInv(s, c)
  <2>1. \A c \in ChainOf(s) : val[s][c] = "idle" /\ errors[s][c] = "none" /\ Due(s, c) = {}
    BY <1>1, <1>5, ChainFacts DEF Due
  <2>2. \A c \in ChainOf(s) : ~Awaited(s, c) /\ TickInv(s, c) /\ OnceInv(s, c)
    BY <1>1, <1>5, <2>1 DEF Awaited, TickInv, OnceInv
  <2>3. \A c \in ChainOf(s) : CertInv(s, c)
    BY <1>1, <2>1, <2>2 DEF CertInv
  <2>4. Cardinality(HaveReported(s)) \in Nat
    <3>1. HaveReported(s) \in SUBSET ChainOf(s) /\ IsFiniteSet(ChainOf(s))
      BY ChainFacts DEF HaveReported
    <3> QED
      BY <3>1, FS_Subset, FS_CardinalityType
  <2>5. completed[s] <= Cardinality(HaveReported(s))
    BY <1>1, <2>4
  <2>6. ChainInv(s)
    BY <1>1, <2>5 DEF ChainInv
  <2> QED
    BY <2>3, <2>6
<1>7. RepeatInv /\ \A s \in Sockets : \A c \in ChainOf(s) : RecallInv(s, c)
  <2>1. \A s \in Sockets : \A c \in ChainOf(s) : rerun[s][c] = "none"
    BY <1>1, ChainFacts
  <2> QED
    BY <1>1, <1>5, <2>1 DEF RepeatInv, RecallInv
<1> QED
  BY <1>1, <1>3, <1>4, <1>6, <1>7 DEF OcspGood, OcspInv, StoreOK, CacheInv

\* and so does that of the CRL check,
LEMMA CrlInitGood ==
    ASSUME SocketsInit, CrlInit
    PROVE  CrlOK /\ CrlInv
<1>1. /\ crl \in AnyCrlConfig /\ now = 0
      /\ \A s \in Sockets : sock[s] = "corked"
      /\ memory = [u \in Urls |-> NoEntry] /\ disk = [u \in Urls |-> NoEntry]
      /\ pending = [u \in Urls |-> NoOne]
      /\ fetch = [s \in Sockets |-> NoFetch] /\ walk = [s \in Sockets |-> Resting]
      /\ todo = [s \in Sockets |-> << >>]
      /\ revokedAt = [u \in Urls |-> [c \in Certs |-> Never]] /\ crlFaults = 0
  BY CrlAssumption DEF SocketsInit, CrlInit
<1>2. Life \in Nat /\ MaxNow \in Nat /\ MaxCrlFaults \in Nat
  BY CrlAssumption
<1>3. NoCrl \in Crls /\ NoEntry \in Entries
  BY <1>2 DEF NoCrl, NoEntry, Crls, Entries, Never
<1>4. published \in [Urls -> Crls]
  <2>1. PICK bad \in BadCrls : published =
           [u \in Urls |-> [valid |-> u \notin bad, nextUpdate |-> Life, revoked |-> {}]]
    BY DEF CrlInit
  <2>2. \A u : [valid |-> u \notin bad, nextUpdate |-> Life, revoked |-> {}] \in Crls
    BY <1>2 DEF Crls
  <2> QED
    BY <2>1, <2>2
<1>5. CrlOK
  <2>1. {memory, disk} \subseteq [Urls -> Entries]
    BY <1>1, <1>3
  <2>2. fetch \in [Sockets -> [pc : {"none", "download", "write"}, url : Places, crl : Crls]]
    BY <1>1, <1>3 DEF NoFetch, Places
  <2>3. walk \in [Sockets -> [pc : {"none", "await", "disk", "got", "failed"},
                              on : Sockets \cup {NoOne}, crl : Crls]]
    BY <1>1, <1>3 DEF Resting
  <2>4. /\ todo \in [Sockets -> Seq(Certs \X Places)]
        /\ revokedAt \in [Urls -> [Certs -> -1 .. MaxNow]]
    BY <1>1, <1>2 DEF Never
  <2>5. now \in 0 .. MaxNow /\ crlFaults \in 0 .. MaxCrlFaults
    BY <1>1, <1>2
  <2>6. \A s \in Sockets : walk[s].pc = "none"
    BY <1>1 DEF Resting
  <2> QED
    BY <1>1, <1>4, <2>1, <2>2, <2>3, <2>4, <2>5, <2>6 DEF CrlOK
<1>6. \A u \in Urls : UrlInv(u)
  BY <1>1 DEF UrlInv, PublishedInv, MemoryInv, DiskInv, PendingInv
<1>7. \A s \in Sockets : FetchInv(s) /\ WalkInv(s)
  BY <1>1 DEF FetchInv, WalkInv, NoFetch, Resting
<1> QED
  BY <1>5, <1>6, <1>7 DEF CrlInv

\* and the two together.
LEMMA InitGood ==
    ASSUME RevocationInit
    PROVE  RevocationInv
<1>1. SocketsInit /\ CrlInit /\ OcspInit /\ ocspDisabled \in ocspDisabledFor
  BY DEF RevocationInit
<1>2. OcspGood /\ CrlOK /\ CrlInv
  BY <1>1, OcspInitGood, CrlInitGood
<1>3. ocspDisabled \in BOOLEAN /\ (ocspDisabled => ~isCrlValidationEnabled)
  BY <1>1, HostsAssumption DEF ocspDisabledFor
<1> QED
  BY <1>2, <1>3 DEF RevocationInv, RevocationOK, OcspGood

\* What the steps of one check leave of the other.
LEMMA OtherCheckStays ==
    ASSUME RevocationInv, SocketsOK'
    PROVE  /\ UNCHANGED ocspVars => OcspOK'
           /\ UNCHANGED crlVars /\ ~isCrlValidationEnabled => CrlOK'
<1>1. OcspOK /\ CrlOK
  BY DEF RevocationInv, RevocationOK
<1>2. ASSUME UNCHANGED ocspVars
      PROVE  OcspOK'
  BY <1>1, <1>2 DEF OcspOK, ocspVars, maxNumRetries, ChainOf
<1>3. ASSUME UNCHANGED crlVars, ~isCrlValidationEnabled
      PROVE  CrlOK'
  BY <1>1, <1>3 DEF CrlOK, crlVars, isCrlValidationEnabled
<1> QED
  BY <1>2, <1>3

\* No step of either check breaks RevocationInv.
LEMMA NextGood ==
    ASSUME RevocationInv, [RevocationNext]_revocationVars
    PROVE  RevocationInv'
<1>1. /\ SocketsOK /\ OcspOK /\ CrlOK /\ ocspDisabled \in BOOLEAN
      /\ ocspDisabled => ~isCrlValidationEnabled
      /\ viaOcsp => OcspInv
      /\ viaCrl => CrlInv
  BY DEF RevocationInv, RevocationOK
<1>2. CASE viaOcsp /\ OcspNext /\ UNCHANGED <<crlVars, ocspDisabled>>
  <2>1. OcspGood /\ ~isCrlValidationEnabled
    BY <1>1, <1>2 DEF OcspGood, viaOcsp
  <2>2. SocketsOK' /\ OcspOK' /\ OcspInv'
    BY <1>2, <2>1, OcspNextGood DEF OcspGood
  <2>3. CrlOK'
    BY <1>2, <2>1, <2>2, OtherCheckStays
  <2>4. ocspDisabled' = ocspDisabled /\ ~isCrlValidationEnabled'
    BY <1>2, <2>1 DEF crlVars, isCrlValidationEnabled
  <2> QED
    BY <1>1, <2>2, <2>3, <2>4 DEF RevocationInv, RevocationOK, viaCrl
<1>3. CASE viaCrl /\ CrlNext /\ UNCHANGED <<ocspVars, ocspDisabled>>
  <2>1. CrlGood
    BY <1>1, <1>3 DEF CrlGood, viaCrl
  <2>2. SocketsOK' /\ CrlOK' /\ CrlInv' /\ isCrlValidationEnabled'
    BY <1>3, <2>1, CrlNextGood DEF CrlGood
  <2>3. OcspOK'
    BY <1>3, <2>2, OtherCheckStays
  <2>4. ~ocspDisabled' /\ ocspDisabled' \in BOOLEAN
    BY <1>1, <1>3 DEF viaCrl
  <2> QED
    BY <2>2, <2>3, <2>4 DEF RevocationInv, RevocationOK, viaOcsp
<1>4. ASSUME NEW s \in Sockets, unsecured(s)
      PROVE  RevocationInv'
  <2>1. /\ ocspDisabled /\ ~isCrlValidationEnabled /\ sock[s] = "corked"
        /\ sock' = [sock EXCEPT ![s] = "open"] /\ fresh' = fresh
        /\ UNCHANGED <<ocspVars, crlVars, ocspDisabled>>
    BY <1>1, <1>4 DEF unsecured, Uncork, SocketsOK
  <2>2. SocketsOK'
    BY <1>1, <2>1 DEF SocketsOK, SocketStates
  <2>3. OcspOK' /\ CrlOK'
    BY <2>1, <2>2, OtherCheckStays
  <2>4. ocspDisabled' /\ ocspDisabled' \in BOOLEAN /\ ~isCrlValidationEnabled'
    BY <1>1, <2>1 DEF crlVars, isCrlValidationEnabled
  <2> QED
    BY <2>2, <2>3, <2>4 DEF RevocationInv, RevocationOK, viaOcsp, viaCrl
<1>5. CASE UNCHANGED revocationVars
  <2>1. /\ UNCHANGED <<sock, fresh, ocspDisabled>>
        /\ UNCHANGED <<ocsp, store, val, tries, completed, errors, ticks, late, unread, rerun,
                        ocspFaults>>
        /\ UNCHANGED <<crl, now, published, memory, disk, pending, fetch, walk, todo, revokedAt, crlFaults>>
    BY <1>5 DEF revocationVars, socketVars, ocspVars, crlVars
  <2>2. SocketsOK' /\ OcspOK' /\ CrlOK'
    BY <1>1, <2>1 DEF SocketsOK, OcspOK, CrlOK, maxNumRetries, ChainOf, isCrlValidationEnabled
  <2>3. viaOcsp' = viaOcsp /\ viaCrl' = viaCrl /\ isCrlValidationEnabled' = isCrlValidationEnabled
    BY <2>1 DEF viaOcsp, viaCrl, isCrlValidationEnabled
  <2>4. OcspInv => OcspInv'
    <3>1. /\ \A s \in Sockets : CheckedTwice(s)' <=> CheckedTwice(s)
          /\ \A s, c : Due(s, c)' = Due(s, c)
          /\ \A c : Good(c)' <=> Good(c)
          /\ \A c : undecodable(c)' <=> undecodable(c)
          /\ Closed' <=> Closed
      BY <2>1 DEF CheckedTwice, ChainOf, Due, Among, Good, undecodable, Closed
    <3>2. /\ \A s, c : Awaited(s, c)' <=> Awaited(s, c)
          /\ \A s, c : TickInv(s, c) => TickInv(s, c)'
      BY <2>1, <3>1 DEF Awaited, TickInv
    <3>3. \A s \in Sockets : HaveReported(s)' = HaveReported(s)
      BY <3>2 DEF HaveReported
    <3>4. \A s \in Sockets : \A c : OnceInv(s, c) => OnceInv(s, c)'
      BY <2>1, <3>1, <3>2 DEF OnceInv, AtMostOne
    <3>5. \A s \in Sockets : \A c : CertInv(s, c) => CertInv(s, c)'
      BY <2>1, <3>1, <3>2, <3>4 DEF CertInv
    <3>6. \A s \in Sockets : ChainInv(s) => ChainInv(s)'
      BY <2>1, <3>1, <3>3 DEF ChainInv
    <3>7. /\ CacheInv => CacheInv'
          /\ RepeatInv => RepeatInv'
          /\ \A s, c : RecallInv(s, c) => RecallInv(s, c)'
      BY <2>1, <3>1 DEF CacheInv, RepeatInv, RecallInv, Among
    <3> QED
      BY <3>5, <3>6, <3>7 DEF OcspInv
  <2>5. CrlInv => CrlInv'
    BY <2>1 DEF CrlInv, UrlInv, PublishedInv, MemoryInv, DiskInv, PendingInv, FetchInv,
       WalkInv, Knows
  <2> QED
    BY <1>1, <2>1, <2>2, <2>3, <2>4, <2>5 DEF RevocationInv, RevocationOK
<1> QED
  BY <1>2, <1>3, <1>4, <1>5 DEF RevocationNext

-----------------------------------------------------------------------------
(* The theorems about revocation. *)

\* RevocationInv holds in every state, whichever check a socket takes.
LEMMA RevocationInvariant == RevocationSpec => []RevocationInv
<1>1. RevocationInit => RevocationInv
  BY InitGood
<1>2. RevocationInv /\ [RevocationNext]_revocationVars => RevocationInv'
  BY NextGood
<1> QED
  BY <1>1, <1>2, PTL DEF RevocationSpec

\* The variables of both checks stay within their types, the cache within its size, a
\* socket is in validation exactly while its walk rests somewhere, and nobody awaits a
\* fetch that is over.
THEOREM RevocationTypes == RevocationSpec => []RevocationOK
<1>1. RevocationInv => RevocationOK
  BY DEF RevocationInv
<1> QED
  BY <1>1, RevocationInvariant, PTL

\* FAIL_CLOSED (socket_util.js, canEarlyExitForOCSP): a socket that was checked is open
\* only if every certificate of its chain is good, whatever is lost, cached or reported
\* out of order, and whatever is counted twice for another socket; a chain of which a
\* certificate was checked twice is excepted (see DecidedByTheLast).
THEOREM ClosedIsClosed == RevocationSpec => []ClosedOpensOnlyGood
<1>1. RevocationInv => ClosedOpensOnlyGood
  BY DEF RevocationInv, RevocationOK, SocketsOK, OcspInv, ChainInv, ClosedOpensOnlyGood,
     Closed, Good
<1> QED
  BY <1>1, RevocationInvariant, PTL

\* A revoked certificate is let through by a CRL (crl_validator/index.ts) only within two
\* validity times of its revocation: one in the directory and one in memory.
THEOREM RevocationIsNoticed == RevocationSpec => RevocationNoticed
<1>1. RevocationInv /\ [RevocationNext]_revocationVars =>
         [\A s \in Sockets :
             /\ walk[s].pc = "got" /\ walk'[s] # walk[s]
             /\ sock'[s] # "destroyed"
             /\ crl.checkMode = "ENABLED"
             => LET point == Head(todo[s])
                    since == revokedAt[point[2]][point[1]]
                IN  since = Never \/ now - since < 2 * Validity]_<<walk, sock>>
  <2> SUFFICES ASSUME RevocationInv, [RevocationNext]_revocationVars,
                      NEW s \in Sockets, walk[s].pc = "got", walk'[s] # walk[s],
                      sock'[s] # "destroyed", crl.checkMode = "ENABLED"
               PROVE  LET point == Head(todo[s])
                          since == revokedAt[point[2]][point[1]]
                      IN  since = Never \/ now - since < 2 * Validity
    OBVIOUS
  <2>1. ~(UNCHANGED crlVars)
    BY DEF crlVars
  <2>2. viaCrl /\ CrlNext
    BY <2>1 DEF RevocationNext, unsecured, revocationVars
  <2>3. CrlGood
    BY <2>2 DEF CrlGood, RevocationInv, RevocationOK, viaCrl
  <2> QED
    BY <2>2, <2>3, NoticedStep
<1> QED
  BY <1>1, RevocationInvariant, PTL DEF RevocationSpec, RevocationNoticed
==============================================================================
