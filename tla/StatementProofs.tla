--------------------------- MODULE StatementProofs ---------------------------
(***************************************************************************)
(* A statement completes once, keeps the result of its own query and gives *)
(* each row once, for any number of fetchRows() calls, chunks, results and *)
(* failures.                                                               *)
(***************************************************************************)
EXTENDS Statement, TLAPS

\* The context has not been answered yet.
Fresh(st) == st.result = NoResult /\ st.error = "none"

\* What complete was told fits where the context is: nothing before an answer, nothing
\* while the rows are aggregated, and success only with a result.
Once(st) ==
    /\ st.completes \in {<<>>, <<"ok">>, <<"error">>}
    /\ Fresh(st) => st.fetching /\ st.completes = <<>> /\ st.aggregate = "no"
    /\ st.aggregate \notin {"no", "done"} => st.completes = <<>>
    /\ st.aggregate = "reading" => st.result # NoResult
    /\ st.completes = <<"ok">> => st.result # NoResult \/ st.async

\* The query whose result the first context can have: its own, or the first of several.
Base == IF options.results > 0 THEN 2 ELSE 1

\* Which contexts there are, and when binds and files are on their way.
Shape(c, st) ==
    /\ c = 1 => st.kind = options.kind /\ (options.results = 0 => st.cur = 0)
    /\ c > 1 => st.kind = "post" /\ ~st.async /\ options.results > 0
    /\ st.transfer => st.kind = "file" /\ Fresh(st) /\ st.query # NoQuery
    /\ st.bind = "uploading" => st.kind = "stage" /\ Fresh(st) /\ st.cur = 0

HasRows(st) == st.result \notin {NoResult, Handle}

\* The chunks of a result are as many as there were at first, whatever their urls.
Chunked(st) ==
    /\ ~HasRows(st) => st.urls = <<>>
    /\ HasRows(st) => DOMAIN st.urls = DOMAIN OwnChunks(st)
    /\ HasRows(st) /\ ~st.moved /\ ~st.inline => st.urls = OwnChunks(st)

\* A result belongs to the query of the context, until NextResult() moves that on.
Own(c, st) ==
    /\ Chunked(st)
    /\ c = 1 => /\ st.result # NoResult \/ st.kind = "post" => st.query # NoQuery
                /\ ~st.moved => st.result \in {NoResult, Handle, Base} /\ st.query \in 0 .. Base
    /\ c > 1 => /\ st.query >= 2
                /\ ~st.moved => st.result \in {NoResult, st.query}

ContextInv(c, st) == (IsMulti(st) \/ Once(st)) /\ Shape(c, st) /\ Own(c, st)

\* The queries whose result context c may be waiting for.
Asks(c, q, st) ==
    /\ q # 0
    /\ c > 1 => q >= 2
    /\ ~st.moved => /\ c = 1 => q \in 1 .. Base
                    /\ c > 1 => q = st.query

\* A request in flight belongs to a context, to what waits for it, and to the query of
\* the context.  The first answer is that of the execution.
RequestFits(r, st) ==
    /\ st.bind # "uploading" /\ ~st.transfer
    /\ st.kind = "file" => r.purpose = "execute"
    /\ r.purpose = "execute" => IsMulti(st) \/ Fresh(st)
    /\ r.purpose = "stream" => IsMulti(st) \/ st.aggregate \in {"refreshing", "interrupted"}
    /\ r.purpose \in Fetches =>
          /\ IsMulti(st) \/ ~Fresh(st)
          /\ fetches[r.purpose].ctx = r.ctx
          /\ fetches[r.purpose].phase \in {"refreshing", "interrupted"}
    /\ Asks(r.ctx, r.query, st)

RequestInv(r) == r.ctx \in DOMAIN contexts /\ RequestFits(r, contexts[r.ctx])

\* No two requests of a context are for the same purpose, until it has several results.
Unique ==
    \A r, q \in requests :
        r.ctx = q.ctx /\ r.purpose = q.purpose =>
            r = q \/ (IsMulti(contexts[r.ctx]) /\ r.purpose \notin Fetches)

\* How far a fetchRows() call is in the chunks of its context, and what it has read of
\* them while their urls were those of the result.
Reads(op, st) ==
    /\ st.kind # "file"
    /\ op.next = Len(op.out) + 1
    /\ op.phase = "refreshing" => op.out = <<>>
    /\ op.phase \in {"reading", "interrupted"} => HasRows(st) /\ op.next <= LastChunk(op, st)
    /\ op.out # <<>> => HasRows(st)
    /\ ~st.moved /\ st.urls = OwnChunks(st) =>
          \A i \in DOMAIN op.out : op.out[i] = OwnChunks(st)[i]

FetchInv(f) ==
    LET op == fetches[f]
    IN  /\ op.phase = "idle" => op.out = <<>> /\ op.next = 1
        /\ op.phase # "idle" => op.ctx \in DOMAIN contexts /\ Reads(op, contexts[op.ctx])

\* How contexts, requests and fetchRows() calls hang together.
Linked ==
    /\ contexts # <<>>
    /\ \A c \in DOMAIN contexts : ContextInv(c, contexts[c])
    /\ \A r \in requests : RequestInv(r)
    /\ Unique
    /\ \A f \in Fetches : FetchInv(f)

IInv == TypeOK /\ Linked

-----------------------------------------------------------------------------
(* Sequences of contexts, and the operations on one                        *)

LEMMA SeqUpdate ==
    ASSUME NEW S, NEW s \in Seq(S), NEW i \in DOMAIN s, NEW x \in S, NEW t,
           t = [s EXCEPT ![i] = x]
    PROVE  /\ t \in Seq(S) /\ t # <<>> /\ Len(t) = Len(s) /\ DOMAIN t = DOMAIN s
           /\ t[i] = x
           /\ \A j \in DOMAIN s : j # i => t[j] = s[j]
BY SMT

LEMMA AppendFirst == \A x : Append(<<>>, x) = <<x>>
BY SMT

\* The fields that a response changes are those of the query and its outcome.
SameRest(st, d) ==
    /\ d.kind = st.kind /\ d.stream = st.stream /\ d.async = st.async /\ d.bind = st.bind
    /\ d.cur = st.cur /\ d.inline = st.inline /\ d.moved = st.moved

SameOutcome(st, d) ==
    /\ d.query = st.query /\ d.result = st.result /\ d.urls = st.urls /\ d.error = st.error
    /\ d.transfer = st.transfer

SameProgress(st, d) == d.aggregate = st.aggregate /\ d.completes = st.completes

LEMMA AppendTypes == \A S : \A s \in Seq(S), x \in S : Append(s, x) \in Seq(S)
BY SMT

\* What Append gives, as one predicate, so that the provers do not look for its instances.
Appended(s, x, t) ==
    /\ Len(t) = Len(s) + 1
    /\ DOMAIN t = DOMAIN s \cup {Len(s) + 1}
    /\ t[Len(s) + 1] = x
    /\ \A i \in DOMAIN s : t[i] = s[i]

LEMMA AppendFacts == \A S : \A s \in Seq(S), x \in S : Appended(s, x, Append(s, x))
BY SMT DEF Appended

LEMMA TellTypes ==
    ASSUME NEW st \in ContextType, NEW x \in {"ok", "error"}
    PROVE  [st EXCEPT !.completes = Append(@, x)] \in ContextType
<1>1. st.completes \in Seq({"ok", "error"})
  BY DEF ContextType
<1> PICK s \in Seq({"ok", "error"}) : s = Append(st.completes, x)
  BY <1>1, AppendTypes, Zenon
<1>2. [st EXCEPT !.completes = s] \in ContextType
  BY DEF ContextType
<1>3. [st EXCEPT !.completes = Append(@, x)] = [st EXCEPT !.completes = s]
  BY DEF ContextType
<1> QED
  BY <1>2, <1>3, Zenon

\* invokeStatementComplete() tells complete once, or leaves that to the aggregation.
LEMMA InvokeComplete ==
    ASSUME NEW st \in ContextType, NEW d, d = invokeStatementComplete(st)
    PROVE  /\ d \in ContextType
           /\ SameRest(st, d) /\ SameOutcome(st, d) /\ d.fetching = st.fetching
           /\ st.completes = <<>> /\ st.aggregate = "no" =>
                 \/ d.completes = <<>> /\ d.aggregate = "due"
                 \/ d.completes = <<"error">> /\ d.aggregate = "no"
                 \/ /\ d.completes = <<"ok">> /\ d.aggregate = "no"
                    /\ st.error = "none" \/ st.async
<1>1. CASE st.stream /\ st.error = "none"
  <2>1. d = [st EXCEPT !.completes = Append(@, "ok")]
    BY <1>1 DEF invokeStatementComplete
  <2>2. d \in ContextType
    BY <2>1, TellTypes, Zenon
  <2>3. /\ SameRest(st, d) /\ SameOutcome(st, d) /\ d.fetching = st.fetching
        /\ d.completes = Append(st.completes, "ok") /\ d.aggregate = st.aggregate
    BY <2>1 DEF SameRest, SameOutcome, ContextType
  <2>4. st.completes = <<>> => d.completes = <<"ok">>
    BY <2>3, AppendFirst
  <2> QED
    BY <1>1, <2>2, <2>3, <2>4
<1>2. CASE st.stream /\ st.error # "none"
  <2>1. d = [st EXCEPT !.completes = Append(@, "error")]
    BY <1>2 DEF invokeStatementComplete
  <2>2. d \in ContextType
    BY <2>1, TellTypes, Zenon
  <2>3. /\ SameRest(st, d) /\ SameOutcome(st, d) /\ d.fetching = st.fetching
        /\ d.completes = Append(st.completes, "error") /\ d.aggregate = st.aggregate
    BY <2>1 DEF SameRest, SameOutcome, ContextType
  <2>4. st.completes = <<>> => d.completes = <<"error">>
    BY <2>3, AppendFirst
  <2> QED
    BY <1>2, <2>2, <2>3, <2>4
<1>3. CASE ~st.stream /\ st.async
  <2>1. d = [st EXCEPT !.completes = Append(@, "ok")]
    BY <1>3 DEF invokeStatementComplete
  <2>2. d \in ContextType
    BY <2>1, TellTypes, Zenon
  <2>3. /\ SameRest(st, d) /\ SameOutcome(st, d) /\ d.fetching = st.fetching
        /\ d.completes = Append(st.completes, "ok") /\ d.aggregate = st.aggregate
    BY <2>1 DEF SameRest, SameOutcome, ContextType
  <2>4. st.completes = <<>> => d.completes = <<"ok">>
    BY <2>3, AppendFirst
  <2> QED
    BY <1>3, <2>2, <2>3, <2>4
<1>4. CASE ~st.stream /\ ~st.async
  <2>1. d = [st EXCEPT !.aggregate = "due"]
    BY <1>4 DEF invokeStatementComplete
  <2>2. d \in ContextType
    BY <2>1 DEF ContextType
  <2>3. /\ SameRest(st, d) /\ SameOutcome(st, d) /\ d.fetching = st.fetching
        /\ d.completes = st.completes /\ d.aggregate = "due"
    BY <2>1 DEF SameRest, SameOutcome, ContextType
  <2> QED
    BY <1>4, <2>2, <2>3
<1> QED
  BY <1>1, <1>2, <1>3, <1>4

\* The end of a request: complete is told of the first answer only.
LEMMA AnsweredOnce ==
    ASSUME NEW st \in ContextType, NEW after \in ContextType,
           SameRest(st, after), SameProgress(st, after),
           ~Fresh(after), st.result # NoResult => after.result # NoResult,
           NEW d, d = onStatementRequestComp(st, after)
    PROVE  /\ d \in ContextType
           /\ SameRest(after, d) /\ SameOutcome(after, d) /\ ~d.fetching /\ ~Fresh(d)
           /\ Once(st) => Once(d)
           /\ ~Fresh(st) => SameProgress(st, d)
<1> DEFINE done == [after EXCEPT !.fetching = FALSE]
<1>0. done \in ContextType
  BY DEF ContextType
<1>1. /\ SameRest(after, done) /\ SameOutcome(after, done)
      /\ SameProgress(after, done) /\ ~done.fetching
  BY DEF SameRest, SameOutcome, SameProgress, ContextType
<1> HIDE DEF done
<1>2. CASE Fresh(st)
  <2>1. d = invokeStatementComplete(done)
    BY <1>2 DEF onStatementRequestComp, Fresh, done
  <2>2. Once(st) => done.completes = <<>> /\ done.aggregate = "no"
    BY <1>1, <1>2 DEF Once, SameProgress
  <2>3. d \in ContextType /\ SameRest(done, d) /\ SameOutcome(done, d) /\ d.fetching = done.fetching
    BY <1>0, <2>1, InvokeComplete
  <2>4. Once(st) => \/ d.completes = <<>> /\ d.aggregate = "due"
                    \/ d.completes = <<"error">> /\ d.aggregate = "no"
                    \/ /\ d.completes = <<"ok">> /\ d.aggregate = "no"
                       /\ done.error = "none" \/ done.async
    BY <1>0, <2>1, <2>2, InvokeComplete
  <2>5. SameRest(after, d) /\ SameOutcome(after, d) /\ ~d.fetching /\ ~Fresh(d)
    BY <1>1, <2>3 DEF SameRest, SameOutcome, Fresh
  <2>6. ASSUME Once(st) PROVE Once(d)
    <3>1. d.completes = <<"ok">> => d.result # NoResult \/ d.async
      BY <2>3, <2>4, <2>5, <2>6 DEF Fresh, SameOutcome, SameRest
    <3>2. d.completes \in {<<>>, <<"ok">>, <<"error">>}
      BY <2>4, <2>6
    <3> QED
      BY <2>4, <2>5, <2>6, <3>1, <3>2 DEF Once
  <2> QED
    BY <1>2, <2>3, <2>5, <2>6
<1>3. CASE ~Fresh(st)
  <2>1. d = done
    BY <1>3 DEF onStatementRequestComp, Fresh, done
  <2>2. (Once(st) => Once(d)) /\ ~Fresh(d)
    BY <1>1, <2>1 DEF Once, Fresh, SameOutcome, SameRest, SameProgress
  <2> QED
    BY <1>0, <1>1, <2>1, <2>2 DEF SameProgress
<1> QED
  BY <1>2, <1>3

LEMMA EndTypes ==
    ASSUME NEW st \in ContextType, NEW x \in {"ok", "error"}
    PROVE  [st EXCEPT !.aggregate = "done", !.completes = Append(@, x)] \in ContextType
<1> DEFINE e == [st EXCEPT !.aggregate = "done"]
<1>1. e \in ContextType
  BY DEF ContextType
<1>2. [e EXCEPT !.completes = Append(@, x)] \in ContextType
  BY <1>1, TellTypes, Zenon
<1>3. [e EXCEPT !.completes = Append(@, x)]
         = [st EXCEPT !.aggregate = "done", !.completes = Append(@, x)]
  BY DEF ContextType
<1> QED
  BY <1>2, <1>3, Zenon

\* The end of the aggregation tells complete, which nothing has done before.
LEMMA AggregationEnds ==
    ASSUME NEW st \in ContextType, NEW x \in {"ok", "error"},
           NEW d, d = [st EXCEPT !.aggregate = "done", !.completes = Append(@, x)]
    PROVE  /\ d \in ContextType
           /\ SameRest(st, d) /\ SameOutcome(st, d) /\ d.fetching = st.fetching
           /\ d.aggregate = "done"
           /\ Once(st) /\ ~Fresh(st) /\ st.completes = <<>>
                 /\ (x = "ok" => st.result # NoResult) => Once(d) /\ d.completes = <<x>>
<1>1. d \in ContextType
  BY EndTypes, Zenon
<1>2. /\ SameRest(st, d) /\ SameOutcome(st, d) /\ d.fetching = st.fetching
      /\ d.aggregate = "done" /\ d.completes = Append(st.completes, x)
  BY DEF SameRest, SameOutcome, ContextType
<1>3. ASSUME Once(st), ~Fresh(st), st.completes = <<>>, x = "ok" => st.result # NoResult
      PROVE  Once(d) /\ d.completes = <<x>>
  <2>1. d.completes = <<x>>
    BY <1>2, <1>3, AppendFirst
  <2>2. d.completes \in {<<>>, <<"ok">>, <<"error">>}
    BY <2>1
  <2>3. d.completes = <<"ok">> => d.result # NoResult
    BY <1>2, <1>3, <2>1 DEF SameOutcome
  <2> QED
    BY <1>2, <1>3, <2>1, <2>2, <2>3 DEF Once, Fresh, SameOutcome
<1> QED
  BY <1>1, <1>2, <1>3

\* The request of the aggregation: it goes on with a result, and else is at its end.
LEMMA AggregationContinues ==
    ASSUME NEW st \in ContextType, NEW d, d = ResumeAggregation(st)
    PROVE  /\ d \in ContextType
           /\ SameRest(st, d) /\ SameOutcome(st, d) /\ d.fetching = st.fetching
           /\ Once(st) /\ ~Fresh(st) /\ st.completes = <<>> => Once(d)
<1> DEFINE more == st.result # NoResult /\ (st.aggregate = "refreshing" \/ st.error = "none")
<1>1. CASE more
  <2>1. d = [st EXCEPT !.aggregate = "reading"]
    BY <1>1 DEF ResumeAggregation
  <2>2. d \in ContextType
    BY <2>1 DEF ContextType
  <2>3. /\ SameRest(st, d) /\ SameOutcome(st, d) /\ d.fetching = st.fetching
        /\ d.aggregate = "reading" /\ d.completes = st.completes
    BY <2>1 DEF SameRest, SameOutcome, ContextType
  <2>4. Once(st) /\ ~Fresh(st) /\ st.completes = <<>> => Once(d)
    BY <1>1, <2>3 DEF Once, Fresh, SameOutcome, SameRest
  <2> QED
    BY <2>2, <2>3, <2>4
<1>2. CASE ~more /\ Fresh(st)
  <2>1. d = [st EXCEPT !.aggregate = "done", !.completes = Append(@, "ok")]
    BY <1>2 DEF ResumeAggregation, Fresh
  <2>2. d \in ContextType /\ SameRest(st, d) /\ SameOutcome(st, d) /\ d.fetching = st.fetching
    BY <2>1, AggregationEnds
  <2> QED
    BY <1>2, <2>2
<1>3. CASE ~more /\ ~Fresh(st)
  <2>1. d = [st EXCEPT !.aggregate = "done", !.completes = Append(@, "error")]
    BY <1>3 DEF ResumeAggregation, FailAggregation, Fresh
  <2> QED
    BY <2>1, AggregationEnds
<1> QED
  BY <1>1, <1>2, <1>3

-----------------------------------------------------------------------------
(* The chunks of a result, and the reading of them                         *)

LEMMA SeqOfFunction ==
    ASSUME NEW S, NEW n \in Nat, NEW f \in [1 .. n -> S]
    PROVE  f \in Seq(S)
BY SMT

LEMMA UrlsTypes ==
    ASSUME NEW q \in Nat
    PROVE  /\ UrlsOf(q) \in Seq(Nat \X Nat)
           /\ \A k \in DOMAIN UrlsOf(q) : UrlsOf(q)[k] = <<q, k>>
<1>1. CASE q \in DOMAIN Chunks
  <2>1. Chunks[q] \in Nat
    BY <1>1, BoundAssumption
  <2>2. UrlsOf(q) = [k \in 1 .. Chunks[q] |-> <<q, k>>]
    BY <1>1 DEF UrlsOf
  <2>3. UrlsOf(q) \in [1 .. Chunks[q] -> Nat \X Nat]
    BY <2>1, <2>2
  <2> QED
    BY <2>1, <2>2, <2>3, SeqOfFunction
<1>2. CASE q \notin DOMAIN Chunks
  BY <1>2 DEF UrlsOf
<1> QED
  BY <1>1, <1>2

LEMMA ChunksTypes ==
    ASSUME NEW st \in ContextType, NEW q \in Nat
    PROVE  /\ CreateChunks(st, q) \in Seq(Nat \X Nat)
           /\ st.kind = "file" => CreateChunks(st, q) = <<>>
           /\ st.kind # "file" /\ ~st.inline => CreateChunks(st, q) = UrlsOf(q)
           /\ st.kind # "file" /\ st.inline =>
                 /\ 1 \in DOMAIN CreateChunks(st, q)
                 /\ CreateChunks(st, q)[1] = <<q, 0>>
<1> PICK u \in Seq(Nat \X Nat) : u = UrlsOf(q)
  BY UrlsTypes
<1> PICK z \in Nat \X Nat : z = <<q, 0>>
  OBVIOUS
<1>1. CASE st.kind = "file"
  BY <1>1 DEF CreateChunks
<1>2. CASE st.kind # "file" /\ st.inline
  <2>1. CreateChunks(st, q) = <<z>> \o u
    BY <1>2 DEF CreateChunks
  <2>2. /\ <<z>> \o u \in Seq(Nat \X Nat) /\ 1 \in DOMAIN (<<z>> \o u)
        /\ (<<z>> \o u)[1] = z
    OBVIOUS
  <2> QED
    BY <1>2, <2>1, <2>2
<1>3. CASE st.kind # "file" /\ ~st.inline
  <2>1. CreateChunks(st, q) = u
    BY <1>3 DEF CreateChunks
  <2> QED
    BY <1>3, <2>1
<1> QED
  BY <1>1, <1>2, <1>3

\* A context d after st, for those who read the result of st.
Follows(st, d) ==
    /\ d.kind = st.kind /\ d.inline = st.inline
    /\ st.moved => d.moved
    /\ HasRows(st) =>
          /\ d.result = st.result
          /\ DOMAIN d.urls = DOMAIN st.urls
          /\ ~d.moved /\ d.urls = OwnChunks(d) => st.urls = OwnChunks(st)

LEMMA SameFollows ==
    ASSUME NEW st, NEW d, SameRest(st, d), SameOutcome(st, d)
    PROVE  /\ Follows(st, d) /\ (HasRows(st) <=> HasRows(d)) /\ OwnChunks(st) = OwnChunks(d)
           /\ Chunked(st) => Chunked(d)
BY DEF SameRest, SameOutcome, Follows, Chunked, HasRows, OwnChunks, CreateChunks

LEMMA FollowsOn ==
    ASSUME NEW st, NEW e, NEW d, Follows(st, e), SameRest(e, d), SameOutcome(e, d)
    PROVE  Follows(st, d)
BY DEF SameRest, SameOutcome, Follows, HasRows, OwnChunks, CreateChunks

\* Who has read the result of st goes on with that of d.
LEMMA ReadsOn ==
    ASSUME NEW op \in FetchType, NEW st \in ContextType, NEW d \in ContextType,
           Reads(op, st), Follows(st, d)
    PROVE  Reads(op, d)
<1>1. st.urls \in Seq(Nat \X Nat) /\ d.urls \in Seq(Nat \X Nat)
  BY DEF ContextType
<1>2. ASSUME HasRows(st)
      PROVE  HasRows(d) /\ OwnChunks(d) = OwnChunks(st) /\ Len(d.urls) = Len(st.urls)
  <2>1. d.result = st.result /\ d.kind = st.kind /\ d.inline = st.inline
        /\ DOMAIN d.urls = DOMAIN st.urls
    BY <1>2 DEF Follows
  <2>2. HasRows(d)
    BY <1>2, <2>1 DEF HasRows
  <2>3. OwnChunks(d) = OwnChunks(st)
    BY <2>1 DEF OwnChunks, CreateChunks
  <2>4. \A s, u \in Seq(Nat \X Nat) : DOMAIN s = DOMAIN u => Len(s) = Len(u)
    <3>1. ASSUME NEW m \in Nat, NEW n \in Nat, 1 .. m = 1 .. n PROVE m = n
      BY <3>1
    <3> QED
      BY <3>1
  <2> QED
    BY <1>1, <2>1, <2>2, <2>3, <2>4
<1>3. HasRows(st) => LastChunk(op, d) = LastChunk(op, st)
  BY <1>2 DEF LastChunk
<1>4. CASE HasRows(st)
  BY <1>2, <1>3, <1>4 DEF Reads, Follows
<1>5. CASE ~HasRows(st)
  <2>1. op.out = <<>> /\ op.phase \notin {"reading", "interrupted"}
    BY <1>5 DEF Reads
  <2>2. DOMAIN op.out = {}
    BY <2>1
  <2> QED
    BY <2>1, <2>2 DEF Reads, Follows
<1> QED
  BY <1>4, <1>5

\* A call starts with the first chunk there is.
LEMMA FetchStarts ==
    ASSUME NEW op \in FetchType, NEW st \in ContextType,
           NEW d, d = FetchFromResult(op, st), op.out = <<>>, op.next = 1, st.kind # "file"
    PROVE  /\ d \in FetchType /\ d.ctx = op.ctx
           /\ d.phase \in {"threw", "ending", "reading"} /\ Reads(d, st)
<1>1. ASSUME NEW p \in {"threw", "ending", "reading"}
      PROVE  [op EXCEPT !.phase = p] \in FetchType
  BY DEF FetchType
<1>2. PICK p \in {"threw", "ending", "reading"} :
         /\ d = [op EXCEPT !.phase = p]
         /\ p = "reading" => HasRows(st) /\ LastChunk(op, st) # 0
  BY DEF FetchFromResult, HasRows
<1>3. /\ d.ctx = op.ctx /\ d.out = op.out /\ d.next = op.next /\ d.last = op.last /\ d.phase = p
  BY <1>2 DEF FetchType
<1>4. op.last \in Nat /\ Len(st.urls) \in Nat
  BY DEF FetchType, ContextType
<1>5. LastChunk(d, st) = LastChunk(op, st) /\ LastChunk(op, st) \in Nat
  BY <1>3, <1>4 DEF LastChunk
<1>6. d.next = Len(d.out) + 1 /\ DOMAIN d.out = {}
  BY <1>3
<1>7. p = "reading" => d.next <= LastChunk(d, st)
  BY <1>2, <1>3, <1>5
<1>8. Reads(d, st)
  BY <1>2, <1>3, <1>6, <1>7 DEF Reads
<1> QED
  BY <1>1, <1>2, <1>3, <1>8

\* A fetchRows() call goes on after the request it was waiting for.
LEMMA FetchContinues ==
    ASSUME NEW op \in FetchType, NEW st \in ContextType, NEW failed \in BOOLEAN,
           op.phase \in {"refreshing", "interrupted"}, Reads(op, st),
           NEW d, d = ResumeFetch(op, st, failed)
    PROVE  /\ d \in FetchType /\ d.ctx = op.ctx
           /\ d.phase \in {"threw", "ending", "stuck", "reading"} /\ Reads(d, st)
<1>1. ASSUME NEW p \in {"ending", "stuck", "reading"}, d = [op EXCEPT !.phase = p],
             p = "reading" => op.phase = "interrupted"
      PROVE  /\ d \in FetchType /\ d.ctx = op.ctx
             /\ d.phase \in {"threw", "ending", "stuck", "reading"} /\ Reads(d, st)
  <2>1. d \in FetchType
    BY <1>1 DEF FetchType
  <2>2. d.ctx = op.ctx /\ d.out = op.out /\ d.next = op.next /\ d.last = op.last /\ d.phase = p
    BY <1>1 DEF FetchType
  <2>3. LastChunk(d, st) = LastChunk(op, st)
    BY <2>2 DEF LastChunk
  <2>4. Reads(d, st)
    BY <1>1, <2>2, <2>3 DEF Reads
  <2> QED
    BY <2>1, <2>2, <2>4
<1>2. CASE op.phase = "interrupted"
  BY <1>1, <1>2 DEF ResumeFetch
<1>3. CASE op.phase = "refreshing" /\ st.error # "none"
  BY <1>1, <1>3 DEF ResumeFetch
<1>4. CASE op.phase = "refreshing" /\ st.error = "none"
  <2>1. d = FetchFromResult(op, st)
    BY <1>4 DEF ResumeFetch
  <2>2. op.out = <<>> /\ op.next = 1 /\ st.kind # "file"
    BY <1>4 DEF Reads
  <2> QED
    BY <2>1, <2>2, FetchStarts
<1> QED
  BY <1>2, <1>3, <1>4

-----------------------------------------------------------------------------
(* Responses                                                               *)

LEMMA ContextTyped ==
    ASSUME TypeOK, NEW c \in DOMAIN contexts
    PROVE  contexts[c] \in ContextType /\ c \in Nat /\ c >= 1
BY DEF TypeOK

\* A request that is over, in the context it is of, for what waits for it.
LEMMA ContinueKeeps ==
    ASSUME IInv, NEW r \in requests, NEW after \in ContextType, NEW failed \in BOOLEAN,
           SameRest(contexts[r.ctx], after), SameProgress(contexts[r.ctx], after),
           after.transfer = contexts[r.ctx].transfer,
           ~Fresh(after), contexts[r.ctx].result # NoResult => after.result # NoResult,
           Own(r.ctx, after), Follows(contexts[r.ctx], after),
           r.ctx > 1 /\ ~contexts[r.ctx].moved => after.query = contexts[r.ctx].query,
           Continue(r, onStatementRequestComp(contexts[r.ctx], after), failed),
           options' = options
    PROVE  /\ contexts' \in Seq(ContextType) /\ requests' \subseteq RequestType
           /\ fetches' \in [Fetches -> FetchType]
           /\ Linked'
<1> DEFINE c == r.ctx
           st == contexts[c]
           d == onStatementRequestComp(st, after)
           e == IF r.purpose = "stream" THEN ResumeAggregation(d) ELSE d
<1>1. /\ TypeOK /\ Linked /\ RequestInv(r) /\ r \in RequestType
      /\ c \in DOMAIN contexts /\ ContextInv(c, st)
  BY DEF IInv, Linked, RequestInv, TypeOK
<1>2. st \in ContextType /\ c \in Nat /\ c >= 1
  BY <1>1, ContextTyped
<1>3. /\ contexts' = [contexts EXCEPT ![c] = e]
      /\ fetches' = IF r.purpose \notin Fetches THEN fetches
                    ELSE [fetches EXCEPT ![r.purpose] = ResumeFetch(@, d, failed)]
      /\ requests' = requests \ {r}
  BY DEF Continue
<1>4. /\ d \in ContextType
      /\ SameRest(after, d) /\ SameOutcome(after, d) /\ ~d.fetching /\ ~Fresh(d)
      /\ Once(st) => Once(d)
      /\ ~Fresh(st) => SameProgress(st, d)
  BY <1>2, AnsweredOnce
<1> HIDE DEF d
<1>5. /\ e \in ContextType
      /\ SameRest(after, e) /\ SameOutcome(after, e) /\ ~e.fetching /\ ~Fresh(e)
      /\ r.purpose # "stream" /\ ~Fresh(st) => SameProgress(st, e)
      /\ IsMulti(st) \/ Once(e)
  <2>1. CASE r.purpose # "stream"
    BY <1>1, <1>4, <2>1 DEF ContextInv
  <2>2. CASE r.purpose = "stream"
    <3>1. IsMulti(st) \/ (st.aggregate \in {"refreshing", "interrupted"} /\ Once(st))
      BY <1>1, <2>2 DEF RequestInv, RequestFits, ContextInv
    <3>2. IsMulti(st) \/ (~Fresh(st) /\ st.completes = <<>>)
      BY <3>1 DEF Once
    <3>3. e = ResumeAggregation(d)
      BY <2>2
    <3>4. /\ e \in ContextType
          /\ SameRest(d, e) /\ SameOutcome(d, e) /\ e.fetching = d.fetching
          /\ Once(d) /\ ~Fresh(d) /\ d.completes = <<>> => Once(e)
      BY <1>4, <3>3, AggregationContinues
    <3> HIDE DEF e
    <3>5. SameRest(after, e) /\ SameOutcome(after, e) /\ ~e.fetching /\ ~Fresh(e)
      BY <1>4, <3>4 DEF SameRest, SameOutcome, Fresh
    <3>6. ~IsMulti(st) => d.completes = <<>> /\ Once(d)
      BY <1>4, <3>1, <3>2 DEF SameProgress, SameOutcome
    <3> QED
      BY <1>4, <2>2, <3>4, <3>5, <3>6
  <2> QED
    BY <2>1, <2>2
<1> HIDE DEF e
<1>6. /\ contexts' \in Seq(ContextType) /\ contexts' # <<>> /\ DOMAIN contexts' = DOMAIN contexts
      /\ contexts'[c] = e
      /\ \A j \in DOMAIN contexts : j # c => contexts'[j] = contexts[j]
  BY <1>1, <1>3, <1>5, SeqUpdate DEF TypeOK
<1>7. /\ SameRest(st, e) /\ e.transfer = st.transfer
      /\ IsMulti(st) <=> IsMulti(e)
      /\ c > 1 /\ ~st.moved => e.query = st.query
      /\ Follows(st, e) /\ Follows(st, d) /\ Own(c, e)
  <2>1. SameRest(st, e) /\ e.transfer = st.transfer /\ (c > 1 /\ ~st.moved => e.query = st.query)
    BY <1>5 DEF SameRest, SameOutcome
  <2>2. IsMulti(st) <=> IsMulti(e)
    BY <2>1 DEF IsMulti, SameRest
  <2>3. Follows(st, e) /\ Follows(st, d)
    BY <1>4, <1>5, FollowsOn
  <2>4. Chunked(e)
    <3>1. Chunked(after)
      BY DEF Own
    <3> QED
      BY <1>5, <3>1, SameFollows
  <2>5. Own(c, e)
    BY <1>5, <2>4 DEF SameRest, SameOutcome, Own
  <2> QED
    BY <2>1, <2>2, <2>3, <2>5
<1>8. st.bind # "uploading" /\ ~st.transfer
  BY <1>1 DEF RequestInv, RequestFits
<1>9. ContextInv(c, e)
  <2>1. Shape(c, e)
    BY <1>1, <1>7, <1>8 DEF ContextInv, Shape, SameRest
  <2> QED
    BY <1>5, <1>7, <2>1 DEF ContextInv
<1>10. ASSUME NEW j \in DOMAIN contexts' PROVE ContextInv(j, contexts[j])'
  <2>1. ContextInv(j, contexts'[j])
    BY <1>1, <1>6, <1>9 DEF Linked
  <2> QED
    BY <2>1 DEF ContextInv, Shape, Own, Base
<1>11. /\ fetches' \in [Fetches -> FetchType]
       /\ \A f \in Fetches : f # r.purpose => fetches'[f] = fetches[f]
       /\ r.purpose \in Fetches =>
             /\ fetches'[r.purpose].ctx = fetches[r.purpose].ctx
             /\ fetches'[r.purpose].phase \in {"threw", "ending", "stuck", "reading"}
             /\ Reads(fetches'[r.purpose], d)
  <2>1. CASE r.purpose \notin Fetches
    BY <1>1, <1>3, <2>1 DEF TypeOK
  <2>2. CASE r.purpose \in Fetches
    <3> DEFINE op == fetches[r.purpose]
               o == ResumeFetch(op, d, failed)
    <3>1. op \in FetchType /\ fetches \in [Fetches -> FetchType]
      BY <1>1, <2>2 DEF TypeOK
    <3>2. op.ctx = c /\ op.phase \in {"refreshing", "interrupted"} /\ Reads(op, st)
      <4>1. op.ctx = c /\ op.phase \in {"refreshing", "interrupted"}
        BY <1>1, <2>2 DEF RequestInv, RequestFits
      <4> QED
        BY <1>1, <2>2, <4>1 DEF Linked, FetchInv
    <3>3. Reads(op, d)
      BY <1>2, <1>4, <1>7, <3>1, <3>2, ReadsOn
    <3>4. /\ o \in FetchType /\ o.ctx = op.ctx
          /\ o.phase \in {"threw", "ending", "stuck", "reading"} /\ Reads(o, d)
      BY <1>4, <3>1, <3>2, <3>3, FetchContinues
    <3>5. fetches' = [fetches EXCEPT ![r.purpose] = o]
      BY <1>3, <2>2
    <3> HIDE DEF o
    <3> QED
      BY <2>2, <3>1, <3>4, <3>5
  <2> QED
    BY <2>1, <2>2
<1>12. requests' \subseteq RequestType
  BY <1>1, <1>3 DEF TypeOK
<1>13. r.purpose \in Fetches => e = d
  <2>1. "stream" \notin Fetches
    BY BoundAssumption
  <2> QED
    BY <2>1 DEF e
<1>14. ASSUME NEW q \in requests, q # r, q.ctx = c PROVE RequestInv(q)'
  <2>1. RequestInv(q) /\ (q.purpose = r.purpose => IsMulti(st) /\ r.purpose \notin Fetches)
    BY <1>1, <1>14 DEF Linked, Unique
  <2>2. q.purpose = "execute" => IsMulti(e)
    <3>1. ASSUME q.purpose = "execute", ~IsMulti(st) PROVE FALSE
      <4>1. Fresh(st) /\ Once(st) /\ st.aggregate = "no"
        BY <1>1, <1>14, <2>1, <3>1 DEF RequestInv, RequestFits, ContextInv, Once
      <4>2. r.purpose \notin Fetches /\ r.purpose # "stream"
        BY <1>1, <3>1, <4>1 DEF RequestInv, RequestFits
      <4> QED
        BY <1>1, <2>1, <3>1, <4>2 DEF RequestType
    <3> QED
      BY <1>7, <3>1
  <2>3. q.purpose = "stream" => IsMulti(e) \/ e.aggregate \in {"refreshing", "interrupted"}
    <3>1. ASSUME q.purpose = "stream", ~IsMulti(st)
          PROVE  e.aggregate \in {"refreshing", "interrupted"}
      <4>1. st.aggregate \in {"refreshing", "interrupted"} /\ Once(st)
        BY <1>1, <1>14, <2>1, <3>1 DEF RequestInv, RequestFits, ContextInv
      <4>2. ~Fresh(st) /\ r.purpose # "stream"
        BY <2>1, <3>1, <4>1 DEF Once
      <4> QED
        BY <1>5, <4>1, <4>2 DEF SameProgress
    <3> QED
      BY <1>7, <3>1
  <2>4. q.purpose \in Fetches =>
          /\ ~Fresh(e)
          /\ fetches'[q.purpose] = fetches[q.purpose]
    BY <1>5, <1>11, <2>1
  <2> QED
    BY <1>1, <1>6, <1>7, <1>14, <2>1, <2>2, <2>3, <2>4
    DEF RequestInv, RequestFits, Asks, Base, SameRest
<1>15. ASSUME NEW q \in requests, q.ctx # c PROVE RequestInv(q)'
  <2>1. RequestInv(q)
    BY <1>1 DEF Linked
  <2>2. q.purpose \in Fetches => q.purpose # r.purpose
    BY <1>1, <1>15, <2>1 DEF RequestInv, RequestFits
  <2> QED
    BY <1>6, <1>11, <1>15, <2>1, <2>2 DEF RequestInv, RequestFits, Asks, Base
<1>16. \A q \in requests' : RequestInv(q)'
  BY <1>3, <1>14, <1>15
<1>17. Unique'
  <2>1. \A q \in requests : q.ctx \in DOMAIN contexts
    BY <1>1 DEF Linked, RequestInv
  <2>2. \A j \in DOMAIN contexts : IsMulti(contexts[j]) => IsMulti(contexts'[j])
    BY <1>6, <1>7
  <2> QED
    BY <1>1, <1>3, <2>1, <2>2 DEF Linked, Unique
<1>18. ASSUME NEW f \in Fetches PROVE FetchInv(f)'
  <2>1. FetchInv(f) /\ fetches[f] \in FetchType
    BY <1>1 DEF Linked, TypeOK
  <2>2. CASE f = r.purpose
    <3>1. fetches[f].ctx = c
      BY <1>1, <2>2 DEF RequestInv, RequestFits
    <3>2. /\ fetches'[f].ctx = c /\ fetches'[f].phase # "idle" /\ Reads(fetches'[f], e)
          /\ c \in DOMAIN contexts' /\ contexts'[c] = e
      BY <1>1, <1>6, <1>11, <1>13, <2>2, <3>1
    <3> QED
      BY <3>2 DEF FetchInv
  <2>3. CASE f # r.purpose
    <3>1. fetches'[f] = fetches[f]
      BY <1>11, <2>3
    <3>2. ASSUME fetches[f].phase # "idle", fetches[f].ctx = c
          PROVE  Reads(fetches[f], e)
      BY <1>2, <1>5, <1>7, <2>1, <3>2, ReadsOn DEF FetchInv
    <3> QED
      BY <1>6, <2>1, <3>1, <3>2 DEF FetchInv
  <2> QED
    BY <2>2, <2>3
<1> QED
  BY <1>6, <1>10, <1>11, <1>12, <1>16, <1>17, <1>18 DEF Linked

\* The requests after a step that adds or removes those of one context only, which
\* becomes d.
RequestsOf(c, d) ==
    /\ requests' \subseteq RequestType
    /\ \A q \in requests' : q \in requests \/ q.ctx = c
    /\ \A q \in requests' : q.ctx = c => RequestFits(q, d)
    /\ \A q, s \in requests' :
           q.ctx = c /\ s.ctx = c /\ q.purpose = s.purpose =>
               q = s \/ (IsMulti(d) /\ q.purpose \notin Fetches)

\* A step that brings one context to d.
LEMMA ContextStep ==
    ASSUME IInv, NEW c \in DOMAIN contexts, NEW d \in ContextType,
           contexts' = [contexts EXCEPT ![c] = d], UNCHANGED <<options, fetches>>,
           ContextInv(c, d), Follows(contexts[c], d), RequestsOf(c, d)
    PROVE  contexts' \in Seq(ContextType) /\ Linked'
<1>1. TypeOK /\ Linked
  BY DEF IInv
<1>2. /\ contexts' \in Seq(ContextType) /\ contexts' # <<>> /\ DOMAIN contexts' = DOMAIN contexts
      /\ contexts'[c] = d
      /\ \A j \in DOMAIN contexts : j # c => contexts'[j] = contexts[j]
  BY <1>1, SeqUpdate DEF TypeOK
<1>3. ASSUME NEW j \in DOMAIN contexts' PROVE ContextInv(j, contexts[j])'
  <2>1. ContextInv(j, contexts'[j])
    BY <1>1, <1>2 DEF Linked
  <2> QED
    BY <2>1 DEF ContextInv, Shape, Own, Base
<1>4. ASSUME NEW q \in requests' PROVE RequestInv(q)'
  <2>1. q.ctx \in DOMAIN contexts' /\ RequestFits(q, contexts'[q.ctx])
    BY <1>1, <1>2 DEF Linked, RequestInv, RequestsOf
  <2> QED
    BY <2>1 DEF RequestInv, RequestFits, Asks, Base
<1>5. Unique'
  <2>1. ASSUME NEW q \in requests', NEW s \in requests', q.ctx = s.ctx, q.purpose = s.purpose
        PROVE  q = s \/ (IsMulti(contexts'[q.ctx]) /\ q.purpose \notin Fetches)
    <3>1. CASE q.ctx = c
      BY <1>2, <2>1, <3>1 DEF RequestsOf
    <3>2. CASE q.ctx # c
      <4>1. q \in requests /\ s \in requests
        BY <2>1, <3>2 DEF RequestsOf
      <4>2. q.ctx \in DOMAIN contexts
        BY <1>1, <4>1 DEF Linked, RequestInv
      <4> QED
        BY <1>1, <1>2, <2>1, <3>2, <4>1, <4>2 DEF Linked, Unique
    <3> QED
      BY <3>1, <3>2
  <2> QED
    BY <2>1 DEF Unique
<1>6. ASSUME NEW f \in Fetches PROVE FetchInv(f)'
  <2>1. FetchInv(f) /\ fetches[f] \in FetchType
    BY <1>1 DEF Linked, TypeOK
  <2>2. ASSUME fetches[f].phase # "idle", fetches[f].ctx = c
        PROVE  Reads(fetches[f], d)
    BY <1>1, <2>1, <2>2, ContextTyped, ReadsOn DEF FetchInv
  <2> QED
    BY <1>2, <2>1, <2>2 DEF FetchInv
<1> QED
  BY <1>2, <1>3, <1>4, <1>5, <1>6 DEF Linked

\* A step of one fetchRows() call, for which no request is in flight, and which may send
\* one.
LEMMA FetchStep ==
    ASSUME IInv, NEW f \in Fetches, NEW o \in FetchType,
           fetches[f].phase \notin {"refreshing", "interrupted"},
           fetches' = [fetches EXCEPT ![f] = o], UNCHANGED <<options, contexts>>,
           FetchInv(f)',
           \/ requests' = requests
           \/ \E x \in RequestType : /\ requests' = requests \cup {x}
                                     /\ x.purpose = f /\ RequestInv(x)'
    PROVE  requests' \subseteq RequestType /\ fetches' \in [Fetches -> FetchType] /\ Linked'
<1>1. TypeOK /\ Linked
  BY DEF IInv
<1>2. \A g \in Fetches : g # f => fetches'[g] = fetches[g]
  BY <1>1 DEF TypeOK
<1>3. \A q \in requests : q.purpose # f
  BY <1>1 DEF Linked, RequestInv, RequestFits
<1>4. ASSUME NEW q \in requests PROVE RequestInv(q)'
  <2>1. RequestInv(q)
    BY <1>1 DEF Linked
  <2> QED
    BY <1>2, <1>3, <2>1 DEF RequestInv, RequestFits, Asks, Base
<1>5. \A q \in requests' : RequestInv(q)'
  BY <1>4
<1>6. Unique'
  BY <1>1, <1>3 DEF Linked, Unique
<1>7. ASSUME NEW g \in Fetches PROVE FetchInv(g)'
  <2>1. FetchInv(g)
    BY <1>1 DEF Linked
  <2> QED
    BY <1>2, <2>1 DEF FetchInv
<1>8. ASSUME NEW c \in DOMAIN contexts PROVE ContextInv(c, contexts[c])'
  <2>1. ContextInv(c, contexts[c])
    BY <1>1 DEF Linked
  <2> QED
    BY <2>1 DEF ContextInv, Shape, Own, Base
<1>9. requests' \subseteq RequestType /\ fetches' \in [Fetches -> FetchType]
  BY <1>1 DEF TypeOK
<1> QED
  BY <1>1, <1>5, <1>6, <1>7, <1>8, <1>9 DEF Linked

\* What is known of a request and its context.
LEMMA RequestFacts ==
    ASSUME IInv, NEW r \in requests
    PROVE  /\ TypeOK /\ Linked /\ r \in RequestType
           /\ r.ctx \in DOMAIN contexts /\ r.ctx \in Nat /\ r.ctx >= 1
           /\ contexts[r.ctx] \in ContextType
           /\ ContextInv(r.ctx, contexts[r.ctx]) /\ RequestFits(r, contexts[r.ctx])
           /\ r.query \in Nat /\ r.query # 0
<1>1. TypeOK /\ Linked /\ r \in RequestType /\ RequestInv(r)
  BY DEF IInv, Linked, TypeOK
<1>2. /\ r.ctx \in DOMAIN contexts /\ contexts[r.ctx] \in ContextType
      /\ r.ctx \in Nat /\ r.ctx >= 1
  BY <1>1, ContextTyped DEF RequestInv
<1>3. ContextInv(r.ctx, contexts[r.ctx]) /\ RequestFits(r, contexts[r.ctx])
  BY <1>1, <1>2 DEF Linked, RequestInv
<1>4. r.query \in Nat /\ r.query # 0
  BY <1>1, <1>3 DEF RequestType, RequestFits, Asks
<1> QED
  BY <1>1, <1>2, <1>3, <1>4

\* New urls for the chunks there are.
LEMMA RefreshedUrls ==
    ASSUME NEW st \in ContextType, NEW q, NEW urls, NEW d, d = Refresh(st, q, urls)
    PROVE  d.urls = [k \in DOMAIN st.urls |-> IF k \in DOMAIN urls THEN urls[k] ELSE st.urls[k]]
<1> PICK w : w = [k \in DOMAIN st.urls |-> IF k \in DOMAIN urls THEN urls[k] ELSE st.urls[k]]
  OBVIOUS
<1>1. PICK e : d = [st EXCEPT !.query = q, !.error = e, !.urls = w]
  BY DEF Refresh
<1> QED
  BY <1>1 DEF ContextType

Refreshed(st, q, d) == d.transfer = st.transfer /\ d.query = q /\ d.result = st.result

LEMMA RefreshedTypes ==
    ASSUME NEW st \in ContextType, NEW q \in Nat, NEW urls \in {<<>>, UrlsOf(q)},
           NEW d, d = Refresh(st, q, urls)
    PROVE  /\ d \in ContextType
           /\ SameRest(st, d) /\ SameProgress(st, d) /\ Refreshed(st, q, d)
<1> DEFINE w == [k \in DOMAIN st.urls |-> IF k \in DOMAIN urls THEN urls[k] ELSE st.urls[k]]
<1>0. urls \in Seq(Nat \X Nat)
  <2>1. <<>> \in Seq(Nat \X Nat) /\ UrlsOf(q) \in Seq(Nat \X Nat)
    BY UrlsTypes
  <2> QED
    BY <2>1
<1>1. st.urls \in Seq(Nat \X Nat)
  BY DEF ContextType
<1>2. w \in Seq(Nat \X Nat)
  <2> PICK n \in Nat : DOMAIN st.urls = 1 .. n
    BY <1>1
  <2>1. \A k \in 1 .. n : st.urls[k] \in Nat \X Nat
    BY <1>1
  <2>2. \A k \in DOMAIN urls : urls[k] \in Nat \X Nat
    BY <1>0
  <2>3. w \in [1 .. n -> Nat \X Nat]
    BY <2>1, <2>2
  <2> HIDE DEF w
  <2> QED
    BY <2>3, SeqOfFunction
<1>3. PICK e \in {"none", "other"} : d = [st EXCEPT !.query = q, !.error = e, !.urls = w]
  BY DEF Refresh
<1> HIDE DEF w
<1>4. d \in ContextType
  BY <1>2, <1>3 DEF ContextType, Errors
<1> QED
  BY <1>3, <1>4 DEF ContextType, SameRest, SameProgress, Refreshed

\* The urls of the result's own query, or none, leave those of a result without rows in
\* the response where they are, and shift the others for good.
LEMMA RefreshedFollows ==
    ASSUME NEW st \in ContextType, NEW q \in Nat, NEW urls \in {<<>>, UrlsOf(q)},
           st.result # NoResult, Chunked(st), st.kind # "file" \/ urls = <<>>,
           st.moved \/ urls = <<>> \/ q = st.result \/ st.result = Handle,
           NEW d, d = Refresh(st, q, urls)
    PROVE  Follows(st, d) /\ Chunked(d)
<1>1. urls \in Seq(Nat \X Nat) /\ \A k \in DOMAIN urls : urls[k] = <<q, k>>
  <2>1. <<>> \in Seq(Nat \X Nat) /\ DOMAIN <<>> = {}
    OBVIOUS
  <2> QED
    BY <2>1, UrlsTypes
<1>2. /\ d \in ContextType /\ SameRest(st, d) /\ d.result = st.result
      /\ d.urls = [k \in DOMAIN st.urls |-> IF k \in DOMAIN urls THEN urls[k] ELSE st.urls[k]]
  <2>1. d \in ContextType /\ SameRest(st, d) /\ d.result = st.result
    BY RefreshedTypes DEF Refreshed
  <2>2. d.urls = [k \in DOMAIN st.urls |-> IF k \in DOMAIN urls THEN urls[k] ELSE st.urls[k]]
    BY RefreshedUrls
  <2> QED
    BY <2>1, <2>2, Zenon
<1>3. /\ HasRows(st) <=> HasRows(d)
      /\ OwnChunks(st) = OwnChunks(d)
      /\ DOMAIN d.urls = DOMAIN st.urls
      /\ d.moved = st.moved /\ d.kind = st.kind /\ d.inline = st.inline
  BY <1>2 DEF SameRest, HasRows, OwnChunks, CreateChunks
<1>4. st.urls \in Seq(Nat \X Nat)
  BY DEF ContextType
<1>5. urls = <<>> => d.urls = st.urls
  BY <1>2, <1>4
<1>6. ASSUME ~HasRows(st) PROVE d.urls = <<>>
  <2>1. st.urls = <<>>
    BY <1>6 DEF Chunked
  <2> QED
    BY <1>2, <2>1
<1>7. ASSUME HasRows(st), ~st.moved, urls # <<>>
      PROVE  st.result = q /\ q \in Nat /\ urls = UrlsOf(q)
  BY <1>7 DEF HasRows
<1>8. ASSUME HasRows(st), ~st.moved, ~st.inline PROVE d.urls = OwnChunks(d)
  <2>1. st.urls = OwnChunks(st)
    BY <1>8 DEF Chunked
  <2>2. CASE urls = <<>>
    BY <1>3, <1>5, <2>1, <2>2
  <2>3. CASE urls # <<>>
    <3>1. OwnChunks(st) = urls
      BY <1>7, <1>8, <2>3, ChunksTypes DEF OwnChunks
    <3>2. d.urls = urls
      BY <1>1, <1>2, <2>1, <3>1
    <3> QED
      BY <1>3, <3>1, <3>2
  <2> QED
    BY <2>2, <2>3
<1>9. ASSUME HasRows(st), ~st.moved, st.inline, d.urls = OwnChunks(d)
      PROVE  st.urls = OwnChunks(st)
  <2>1. CASE urls = <<>>
    BY <1>3, <1>5, <1>9, <2>1
  <2>2. CASE urls # <<>>
    <3>1. st.result = q /\ st.kind # "file"
      BY <1>7, <1>9, <2>2
    <3>2. 1 \in DOMAIN OwnChunks(st) /\ OwnChunks(st)[1] = <<q, 0>>
      BY <1>9, <3>1, ChunksTypes DEF OwnChunks
    <3>3. 1 \in DOMAIN st.urls /\ 1 \in DOMAIN urls
      <4>1. 1 \in DOMAIN st.urls
        BY <1>9, <3>2 DEF Chunked
      <4> QED
        BY <1>1, <2>2, <4>1
    <3>4. d.urls[1] = <<q, 1>>
      BY <1>1, <1>2, <3>3
    <3> QED
      BY <1>3, <1>9, <3>2, <3>4
  <2> QED
    BY <2>1, <2>2
<1>10. Chunked(d)
  BY <1>3, <1>6, <1>8 DEF Chunked
<1>11. Follows(st, d)
  <2>1. ASSUME HasRows(st), ~d.moved, d.urls = OwnChunks(d) PROVE st.urls = OwnChunks(st)
    <3>1. CASE st.inline
      BY <1>3, <1>9, <2>1, <3>1
    <3>2. CASE ~st.inline
      BY <1>3, <2>1, <3>2 DEF Chunked
    <3> QED
      BY <3>1, <3>2
  <2> QED
    BY <1>2, <1>3, <2>1 DEF Follows
<1> QED
  BY <1>10, <1>11

\* The first rows of a result come with its urls.
LEMMA NewResultFacts ==
    ASSUME NEW st \in ContextType, NEW q \in Nat, NEW urls, st.result = NoResult, q # NoResult,
           Handle \notin Nat, NEW d, d = ResultFor(st, q, urls)
    PROVE  /\ d \in ContextType
           /\ SameRest(st, d) /\ SameProgress(st, d) /\ d.transfer = st.transfer
           /\ d.query = q /\ d.result = q /\ d.error = "none"
           /\ Chunked(d) /\ Follows(st, d)
<1> PICK w \in Seq(Nat \X Nat) : w = CreateChunks(st, q)
  BY ChunksTypes
<1>1. d = [st EXCEPT !.query = q, !.error = "none", !.result = q, !.urls = w]
  BY DEF ResultFor
<1>2. d \in ContextType
  BY <1>1 DEF ContextType, Errors
<1>3. /\ SameRest(st, d) /\ SameProgress(st, d) /\ d.transfer = st.transfer
      /\ d.query = q /\ d.result = q /\ d.error = "none" /\ d.urls = w
  BY <1>1 DEF ContextType, SameRest, SameProgress
<1>4. HasRows(d) /\ OwnChunks(d) = w /\ ~HasRows(st)
  BY <1>3 DEF HasRows, OwnChunks, CreateChunks, SameRest
<1>5. Chunked(d)
  BY <1>3, <1>4 DEF Chunked
<1>6. Follows(st, d)
  BY <1>3, <1>4 DEF Follows, SameRest
<1> QED
  BY <1>2, <1>3, <1>5, <1>6

\* The rows of a query come to the context that asked for them.
LEMMA RequestAnsweredKeeps ==
    ASSUME IInv, NEW r \in requests, requestAnswered(r)
    PROVE  IInv'
<1> DEFINE st == contexts[r.ctx]
<1> PICK urls : urls = IF r.query = 1 /\ options.results > 0 THEN <<>> ELSE UrlsOf(r.query)
  OBVIOUS
<1> PICK after : after = ResultFor(st, r.query, urls)
  OBVIOUS
<1>1. /\ TypeOK /\ Linked /\ r \in RequestType
      /\ r.ctx \in DOMAIN contexts /\ r.ctx \in Nat /\ r.ctx >= 1
      /\ st \in ContextType /\ ContextInv(r.ctx, st) /\ RequestFits(r, st)
      /\ r.query \in Nat /\ r.query # 0
  BY RequestFacts
<1>2. /\ st.kind # "file"
      /\ r.query > 1 \/ options.results = 0 \/ st.result # NoResult
      /\ Continue(r, onStatementRequestComp(st, after), FALSE)
      /\ UNCHANGED <<options, cancels, polls, failures, cancelled>>
  BY DEF requestAnswered
<1>3. options.results \in Nat /\ Base \in {1, 2} /\ Handle \notin Nat
  BY <1>1, OptionAssumption, BoundAssumption DEF TypeOK, Base
<1>4. Asks(r.ctx, r.query, st) /\ Own(r.ctx, st)
  BY <1>1 DEF RequestFits, ContextInv
<1>5. CASE st.result = NoResult
  <2>1. /\ after \in ContextType
        /\ SameRest(st, after) /\ SameProgress(st, after) /\ after.transfer = st.transfer
        /\ after.query = r.query /\ after.result = r.query
        /\ Chunked(after) /\ Follows(st, after)
    BY <1>1, <1>3, <1>5, NewResultFacts DEF NoResult
  <2>2. after.moved = st.moved
    BY <2>1 DEF SameRest
  <2>3. Own(r.ctx, after)
    <3>1. CASE r.ctx = 1
      <4>1. ~st.moved => r.query = Base
        BY <1>2, <1>3, <1>4, <1>5, <3>1 DEF Asks, Base
      <4> QED
        BY <1>1, <1>3, <2>1, <2>2, <3>1, <4>1 DEF Own, NoQuery
    <3>2. CASE r.ctx # 1
      BY <1>1, <1>4, <2>1, <2>2, <3>2 DEF Own, Asks
    <3> QED
      BY <3>1, <3>2
  <2>4. r.ctx > 1 /\ ~st.moved => after.query = st.query
    BY <1>4, <2>1 DEF Asks
  <2>5. ~Fresh(after) /\ (st.result # NoResult => after.result # NoResult)
    BY <1>1, <2>1 DEF Fresh, NoResult
  <2>6. /\ contexts' \in Seq(ContextType) /\ requests' \subseteq RequestType
        /\ fetches' \in [Fetches -> FetchType] /\ Linked'
    BY <1>1, <1>2, <2>1, <2>3, <2>4, <2>5, ContinueKeeps
  <2> QED
    BY <1>1, <1>2, <2>6 DEF IInv, TypeOK
<1>6. CASE st.result # NoResult
  <2>1. after = Refresh(st, r.query, urls) /\ urls \in {<<>>, UrlsOf(r.query)}
    BY <1>6 DEF ResultFor
  <2>2. ~st.moved => urls = <<>> \/ r.query = st.result \/ st.result = Handle
    <3>1. CASE r.ctx = 1
      BY <1>1, <1>3, <1>4, <1>6, <3>1 DEF Own, Asks, Base
    <3>2. CASE r.ctx # 1
      BY <1>1, <1>4, <1>6, <3>2 DEF Own, Asks
    <3> QED
      BY <3>1, <3>2
  <2>3. /\ after \in ContextType
        /\ SameRest(st, after) /\ SameProgress(st, after) /\ after.transfer = st.transfer
        /\ after.query = r.query /\ after.result = st.result
    <3>1. /\ after \in ContextType
          /\ SameRest(st, after) /\ SameProgress(st, after) /\ Refreshed(st, r.query, after)
      BY <1>1, <2>1, RefreshedTypes
    <3> QED
      BY <3>1 DEF Refreshed
  <2>4. Chunked(after) /\ Follows(st, after)
    BY <1>1, <1>2, <1>4, <1>6, <2>1, <2>2, RefreshedFollows DEF Own
  <2>5. Own(r.ctx, after) /\ (r.ctx > 1 /\ ~st.moved => after.query = st.query)
    BY <1>1, <1>3, <1>4, <2>3, <2>4 DEF Own, Asks, SameRest, NoQuery
  <2>6. ~Fresh(after) /\ (st.result # NoResult => after.result # NoResult)
    BY <1>6, <2>3 DEF Fresh
  <2>7. /\ contexts' \in Seq(ContextType) /\ requests' \subseteq RequestType
        /\ fetches' \in [Fetches -> FetchType] /\ Linked'
    BY <1>1, <1>2, <2>3, <2>4, <2>5, <2>6, ContinueKeeps
  <2> QED
    BY <1>1, <1>2, <2>7 DEF IInv, TypeOK
<1> QED
  BY <1>5, <1>6

\* A request that fails leaves the result and, if it is known, the query.
LEMMA RequestFailedKeeps ==
    ASSUME IInv, NEW r \in requests, NEW x \in {"fatal", "transient"}, requestFailed(r, x)
    PROVE  IInv'
<1> DEFINE st == contexts[r.ctx]
           q == IF st.query = NoQuery /\ x = "fatal" THEN r.query ELSE st.query
           after == [st EXCEPT !.error = x, !.query = q]
<1>1. /\ TypeOK /\ Linked /\ r \in RequestType
      /\ r.ctx \in DOMAIN contexts /\ r.ctx \in Nat /\ r.ctx >= 1
      /\ st \in ContextType /\ ContextInv(r.ctx, st) /\ RequestFits(r, st)
      /\ r.query \in Nat /\ r.query # 0
  BY RequestFacts
<1>2. /\ failures < MaxFailures /\ failures' = failures + 1
      /\ Continue(r, onStatementRequestComp(st, after), TRUE)
      /\ UNCHANGED <<options, cancels, polls, cancelled>>
  BY DEF requestFailed
<1>3. q \in {r.query, st.query} /\ (st.query # NoQuery => q = st.query) /\ q \in Nat
  BY <1>1 DEF ContextType
<1> HIDE DEF q
<1>4. after \in ContextType
  BY <1>1, <1>3 DEF ContextType, Errors
<1>5. /\ SameRest(st, after) /\ SameProgress(st, after) /\ after.transfer = st.transfer
      /\ after.query = q /\ after.urls = st.urls /\ after.error = x /\ after.result = st.result
      /\ after.completes = st.completes /\ after.kind = st.kind
  BY <1>1 DEF ContextType, SameRest, SameProgress
<1> HIDE DEF after
<1>6. /\ r.ctx > 1 /\ ~st.moved => after.query = st.query
      /\ st.result # NoResult => after.result # NoResult
  BY <1>1, <1>3, <1>5 DEF RequestFits, Asks
<1>7. Own(r.ctx, after) /\ Follows(st, after)
  <2>1. Chunked(st)
    BY <1>1 DEF ContextInv, Own
  <2>2. Chunked(after) /\ Follows(st, after)
    BY <1>5, <2>1 DEF Chunked, Follows, SameRest, HasRows, OwnChunks, CreateChunks
  <2>3. Asks(r.ctx, r.query, st) /\ Own(r.ctx, st) /\ Base \in {1, 2}
    BY <1>1 DEF RequestFits, ContextInv, Base
  <2> QED
    BY <1>1, <1>3, <1>5, <2>2, <2>3 DEF Own, Asks, SameRest, NoQuery
<1>8. ~Fresh(after)
  BY <1>5 DEF Fresh
<1>9. /\ contexts' \in Seq(ContextType) /\ requests' \subseteq RequestType
      /\ fetches' \in [Fetches -> FetchType] /\ Linked'
  BY <1>1, <1>2, <1>4, <1>5, <1>6, <1>7, <1>8, ContinueKeeps
<1>10. failures' \in 0..MaxFailures
  BY <1>1, <1>2, BoundAssumption DEF TypeOK
<1> QED
  BY <1>1, <1>2, <1>9, <1>10 DEF IInv, TypeOK

\* A query in progress: the same request again, or the handle of an asynchronous one.
LEMMA InProgressKeeps ==
    ASSUME IInv, NEW r \in requests, inProgress(r)
    PROVE  IInv'
<1> DEFINE st == contexts[r.ctx]
<1>1. /\ TypeOK /\ Linked /\ r \in RequestType
      /\ r.ctx \in DOMAIN contexts /\ r.ctx \in Nat /\ r.ctx >= 1
      /\ st \in ContextType /\ ContextInv(r.ctx, st) /\ RequestFits(r, st)
      /\ r.query \in Nat /\ r.query # 0
  BY RequestFacts
<1>2. polls' \in 0..MaxPolls /\ UNCHANGED <<options, cancels, failures, cancelled>>
  BY <1>1, BoundAssumption DEF inProgress, TypeOK
<1>3. CASE ~st.async
  <2> DEFINE d == [st EXCEPT !.query = r.query]
             again == [r EXCEPT !.post = TRUE]
  <2>1. /\ contexts' = [contexts EXCEPT ![r.ctx] = d]
        /\ requests' = (requests \ {r}) \cup {again}
        /\ fetches' = fetches
    BY <1>1, <1>3 DEF inProgress, ContextType
  <2>2. d \in ContextType
    BY <1>1 DEF ContextType
  <2>3. /\ SameRest(st, d) /\ SameProgress(st, d) /\ d.transfer = st.transfer
        /\ d.fetching = st.fetching /\ d.error = st.error /\ d.urls = st.urls
        /\ d.result = st.result /\ d.query = r.query
    BY <1>1 DEF ContextType, SameRest, SameProgress
  <2> HIDE DEF d
  <2>4. again \in RequestType
    BY <1>1 DEF RequestType
  <2>5. again.ctx = r.ctx /\ again.purpose = r.purpose /\ again.query = r.query
    BY <1>1 DEF RequestType
  <2> HIDE DEF again
  <2>6. IsMulti(d) <=> IsMulti(st)
    BY <2>3 DEF IsMulti, SameRest
  <2>7. r.ctx > 1 /\ ~st.moved => d.query = st.query
    BY <1>1, <2>3 DEF RequestFits, Asks
  <2>8. ContextInv(r.ctx, d)
    <3>1. IsMulti(d) \/ Once(d)
      BY <1>1, <2>3, <2>6 DEF ContextInv, Once, Fresh, SameProgress, SameRest
    <3>2. Shape(r.ctx, d)
      BY <1>1, <2>3 DEF ContextInv, Shape, Fresh, SameRest, NoQuery
    <3>3. Own(r.ctx, d)
      <4>1. Chunked(d)
        BY <1>1, <2>3 DEF ContextInv, Own, Chunked, SameRest, HasRows, OwnChunks, CreateChunks
      <4>2. Asks(r.ctx, r.query, st) /\ Own(r.ctx, st) /\ Base \in {1, 2}
        BY <1>1 DEF RequestFits, ContextInv, Base
      <4> QED
        BY <1>1, <2>3, <4>1, <4>2 DEF Own, Asks, SameRest, NoQuery
    <3> QED
      BY <3>1, <3>2, <3>3 DEF ContextInv
  <2>9. ASSUME NEW q \in requests' , q.ctx = r.ctx PROVE RequestFits(q, d)
    <3>1. PICK p \in requests : /\ p.ctx = q.ctx /\ p.purpose = q.purpose /\ p.query = q.query
                                /\ RequestFits(p, st)
      BY <1>1, <2>1, <2>5, <2>9 DEF Linked, RequestInv
    <3> QED
      BY <2>3, <2>6, <2>7, <2>9, <3>1 DEF RequestFits, Asks, SameRest, SameProgress, Fresh
  <2>10. ASSUME NEW q \in requests', NEW s \in requests',
                q.ctx = r.ctx, s.ctx = r.ctx, q.purpose = s.purpose
         PROVE  q = s \/ (IsMulti(d) /\ q.purpose \notin Fetches)
    BY <1>1, <2>1, <2>5, <2>6, <2>10 DEF Linked, Unique
  <2>11. /\ requests' \subseteq RequestType
         /\ \A q \in requests' : q \in requests \/ q.ctx = r.ctx
    BY <1>1, <2>1, <2>4, <2>5 DEF TypeOK
  <2>12. RequestsOf(r.ctx, d)
    BY <2>9, <2>10, <2>11 DEF RequestsOf
  <2>13. Follows(st, d) /\ UNCHANGED <<options, fetches>>
    BY <1>2, <2>1, <2>3 DEF Follows, SameRest, OwnChunks, CreateChunks
  <2>14. contexts' \in Seq(ContextType) /\ Linked'
    BY <1>1, <2>1, <2>2, <2>8, <2>12, <2>13, ContextStep
  <2> QED
    BY <1>1, <1>2, <2>1, <2>11, <2>14 DEF IInv, TypeOK
<1>4. ASSUME st.async, NEW after \in ContextType,
             Continue(r, onStatementRequestComp(st, after), FALSE),
             SameRest(st, after), SameProgress(st, after), after.transfer = st.transfer,
             after.query = r.query, after.result # NoResult, Chunked(after), Follows(st, after),
             after.result \in {st.result, Handle}
      PROVE  IInv'
  <2>1. r.ctx = 1
    BY <1>1, <1>4 DEF ContextInv, Shape
  <2>2. Own(r.ctx, after)
    <3>1. Asks(r.ctx, r.query, st) /\ Own(r.ctx, st) /\ Base \in {1, 2}
      BY <1>1 DEF RequestFits, ContextInv, Base
    <3> QED
      BY <1>1, <1>4, <2>1, <3>1 DEF Own, Asks, SameRest, NoQuery
  <2>3. /\ ~Fresh(after) /\ (st.result # NoResult => after.result # NoResult)
        /\ r.ctx > 1 /\ ~st.moved => after.query = st.query
    BY <1>4, <2>1 DEF Fresh
  <2>4. /\ contexts' \in Seq(ContextType) /\ requests' \subseteq RequestType
        /\ fetches' \in [Fetches -> FetchType] /\ Linked'
    BY <1>1, <1>2, <1>4, <2>2, <2>3, ContinueKeeps
  <2> QED
    BY <1>1, <1>2, <2>4 DEF IInv, TypeOK
<1>5. CASE st.async /\ st.result = NoResult
  <2> PICK after : after = [st EXCEPT !.query = r.query, !.error = "none", !.result = Handle]
    OBVIOUS
  <2>1. Continue(r, onStatementRequestComp(st, after), FALSE)
    BY <1>5 DEF inProgress
  <2>2. after \in ContextType
    BY <1>1 DEF ContextType, Errors
  <2>3. /\ SameRest(st, after) /\ SameProgress(st, after) /\ after.transfer = st.transfer
        /\ after.query = r.query /\ after.urls = st.urls /\ after.result = Handle
    BY <1>1 DEF ContextType, SameRest, SameProgress
  <2>4. Handle # NoResult
    BY BoundAssumption DEF NoResult
  <2>5. Chunked(st)
    BY <1>1 DEF ContextInv, Own
  <2>6. Chunked(after) /\ Follows(st, after)
    BY <1>5, <2>3, <2>5 DEF Chunked, Follows, SameRest, HasRows
  <2> QED
    BY <1>4, <1>5, <2>1, <2>2, <2>3, <2>4, <2>6
<1>6. CASE st.async /\ st.result # NoResult
  <2> PICK urls : urls = <<>>
    OBVIOUS
  <2> PICK after : after = Refresh(st, r.query, urls)
    OBVIOUS
  <2>1. Continue(r, onStatementRequestComp(st, after), FALSE)
    BY <1>6 DEF inProgress
  <2>2. urls \in {<<>>, UrlsOf(r.query)} /\ urls = <<>>
    OBVIOUS
  <2>3. /\ after \in ContextType
        /\ SameRest(st, after) /\ SameProgress(st, after) /\ after.transfer = st.transfer
        /\ after.query = r.query /\ after.result = st.result
    <3>1. /\ after \in ContextType
          /\ SameRest(st, after) /\ SameProgress(st, after) /\ Refreshed(st, r.query, after)
      BY <1>1, <2>2, RefreshedTypes
    <3> QED
      BY <3>1 DEF Refreshed
  <2>4. Chunked(st)
    BY <1>1 DEF ContextInv, Own
  <2>5. Chunked(after) /\ Follows(st, after)
    BY <1>1, <1>6, <2>2, <2>4, RefreshedFollows
  <2> QED
    BY <1>4, <1>6, <2>1, <2>3, <2>5
<1> QED
  BY <1>3, <1>5, <1>6

\* The files of a PUT or GET go on their way when there is no other request.
LEMMA TransferStartedKeeps ==
    ASSUME IInv, NEW r \in requests, transferStarted(r)
    PROVE  IInv'
<1> DEFINE st == contexts[r.ctx]
           d == [st EXCEPT !.query = r.query, !.transfer = TRUE]
<1>1. /\ TypeOK /\ Linked /\ r \in RequestType
      /\ r.ctx \in DOMAIN contexts /\ r.ctx \in Nat /\ r.ctx >= 1
      /\ st \in ContextType /\ ContextInv(r.ctx, st) /\ RequestFits(r, st)
      /\ r.query \in Nat /\ r.query # 0
  BY RequestFacts
<1>2. /\ st.kind = "file"
      /\ contexts' = [contexts EXCEPT ![r.ctx] = d]
      /\ requests' = requests \ {r}
      /\ UNCHANGED <<options, fetches, cancels, polls, failures, cancelled>>
  BY <1>1 DEF transferStarted, ContextType
<1>3. d \in ContextType
  BY <1>1 DEF ContextType
<1>4. /\ SameRest(st, d) /\ SameProgress(st, d) /\ d.transfer /\ d.fetching = st.fetching
      /\ d.error = st.error /\ d.urls = st.urls /\ d.result = st.result /\ d.query = r.query
  BY <1>1 DEF ContextType, SameRest, SameProgress
<1> HIDE DEF d
<1>5. r.ctx = 1 /\ options.kind = "file" /\ st.cur = 0 /\ ~IsMulti(st)
  <2>1. r.ctx = 1 /\ options.kind = "file"
    BY <1>1, <1>2 DEF ContextInv, Shape
  <2>2. options.results = 0
    BY <1>1, <2>1, OptionAssumption DEF TypeOK
  <2> QED
    BY <1>1, <2>1, <2>2 DEF ContextInv, Shape, IsMulti
<1>6. Fresh(st) /\ r.purpose = "execute" /\ st.bind # "uploading"
  BY <1>1, <1>2, <1>5 DEF RequestFits
<1>7. \A q \in requests' : q.ctx # r.ctx
  <2>1. \A q \in requests : q.ctx = r.ctx => q.purpose = "execute"
    BY <1>1, <1>2 DEF Linked, RequestInv, RequestFits
  <2> QED
    BY <1>1, <1>2, <1>5, <1>6, <2>1 DEF Linked, Unique
<1>8. ContextInv(r.ctx, d)
  <2>1. Once(d)
    BY <1>1, <1>4, <1>5 DEF ContextInv, Once, Fresh, SameProgress, SameRest
  <2>2. Shape(r.ctx, d)
    BY <1>1, <1>2, <1>4, <1>5, <1>6 DEF ContextInv, Shape, Fresh, SameRest, NoQuery
  <2>3. Own(r.ctx, d)
    <3>1. Chunked(d)
      BY <1>1, <1>4 DEF ContextInv, Own, Chunked, SameRest, HasRows, OwnChunks, CreateChunks
    <3>2. Asks(r.ctx, r.query, st) /\ Own(r.ctx, st) /\ Base \in {1, 2}
      BY <1>1 DEF RequestFits, ContextInv, Base
    <3> QED
      BY <1>1, <1>4, <3>1, <3>2 DEF Own, Asks, SameRest, NoQuery
  <2> QED
    BY <2>1, <2>2, <2>3 DEF ContextInv
<1>9. requests' \subseteq RequestType
  BY <1>1, <1>2 DEF TypeOK
<1>10. RequestsOf(r.ctx, d)
  BY <1>2, <1>7, <1>9 DEF RequestsOf
<1>11. Follows(st, d) /\ UNCHANGED <<options, fetches>>
  BY <1>2, <1>4 DEF Follows, SameRest, OwnChunks, CreateChunks
<1>12. contexts' \in Seq(ContextType) /\ Linked'
  BY <1>1, <1>2, <1>3, <1>8, <1>10, <1>11, ContextStep
<1> QED
  BY <1>1, <1>2, <1>9, <1>12 DEF IInv, TypeOK

\* The first context is there.
LEMMA FirstContext ==
    ASSUME IInv
    PROVE  /\ TypeOK /\ Linked /\ 1 \in DOMAIN contexts
           /\ contexts[1] \in ContextType /\ ContextInv(1, contexts[1])
BY DEF IInv, Linked, TypeOK

\* The end of a transfer is the only answer to its statement.
LEMMA TransferEndsKeeps ==
    ASSUME IInv, NEW ok \in BOOLEAN, transferEnds(ok)
    PROVE  IInv'
<1> DEFINE st == contexts[1]
           outcome == IF ok THEN ResultFor(st, st.query, <<>>) ELSE [st EXCEPT !.error = "other"]
           after == [outcome EXCEPT !.transfer = FALSE]
           d == onStatementRequestComp(st, after)
<1>1. /\ TypeOK /\ Linked /\ 1 \in DOMAIN contexts /\ st \in ContextType
      /\ Once(st) \/ IsMulti(st)
      /\ Shape(1, st) /\ Own(1, st)
  BY FirstContext DEF ContextInv
<1>2. /\ st.transfer
      /\ contexts' = [contexts EXCEPT ![1] = d]
      /\ failures' <= MaxFailures /\ failures' \in {failures, failures + 1}
      /\ UNCHANGED <<options, requests, fetches, cancels, polls, cancelled>>
  BY DEF transferEnds
<1>3. st.kind = "file" /\ Fresh(st) /\ st.query # NoQuery /\ st.bind # "uploading"
  BY <1>1, <1>2 DEF Shape
<1>4. options.kind = "file" /\ options.results = 0 /\ st.cur = 0 /\ Once(st)
  <2>1. options.kind = "file"
    BY <1>1, <1>3 DEF Shape
  <2>2. options.results = 0
    BY <1>1, <2>1, OptionAssumption DEF TypeOK
  <2> QED
    BY <1>1, <2>1, <2>2 DEF Shape, IsMulti
<1>5. st.query = 1 \/ st.moved
  BY <1>1, <1>3, <1>4 DEF Own, Base, NoQuery
<1>6. /\ outcome \in ContextType
      /\ SameRest(st, outcome) /\ SameProgress(st, outcome)
      /\ outcome.query = st.query /\ outcome.result \in {NoResult, st.query}
      /\ Chunked(outcome) /\ ~Fresh(outcome)
  <2>1. CASE ok
    <3> PICK urls : urls = <<>>
      OBVIOUS
    <3>1. outcome = ResultFor(st, st.query, urls) /\ st.query \in Nat /\ st.result = NoResult
      BY <1>1, <1>3, <2>1 DEF ContextType, Fresh
    <3> HIDE DEF outcome
    <3>2. st.query # NoResult /\ Handle \notin Nat
      BY <1>3, BoundAssumption DEF NoQuery, NoResult
    <3>3. /\ outcome \in ContextType
          /\ SameRest(st, outcome) /\ SameProgress(st, outcome)
          /\ outcome.query = st.query /\ outcome.result = st.query /\ Chunked(outcome)
      BY <1>1, <3>1, <3>2, NewResultFacts
    <3> QED
      BY <3>2, <3>3 DEF Fresh
  <2>2. CASE ~ok
    <3>1. outcome = [st EXCEPT !.error = "other"]
      BY <2>2
    <3>2. [st EXCEPT !.error = "other"] \in ContextType
      BY <1>1 DEF ContextType, Errors
    <3>3. /\ SameRest(st, outcome) /\ SameProgress(st, outcome)
          /\ outcome.query = st.query /\ outcome.urls = st.urls /\ outcome.result = st.result
          /\ outcome.error = "other"
      BY <1>1, <3>1 DEF ContextType, SameRest, SameProgress
    <3>4. Chunked(outcome)
      BY <1>1, <1>3, <3>3 DEF Own, Chunked, Fresh, HasRows
    <3> QED
      BY <1>1, <1>3, <3>1, <3>2, <3>3, <3>4 DEF Fresh
  <2> QED
    BY <2>1, <2>2
<1> HIDE DEF outcome
<1>7. after \in ContextType
  BY <1>6 DEF ContextType
<1>8. /\ SameRest(st, after) /\ SameProgress(st, after) /\ ~after.transfer
      /\ after.query = st.query /\ after.result = outcome.result /\ after.urls = outcome.urls
      /\ after.error = outcome.error
  BY <1>6 DEF ContextType, SameRest, SameProgress
<1> HIDE DEF after
<1>9. ~Fresh(after) /\ (st.result # NoResult => after.result # NoResult)
  BY <1>3, <1>6, <1>8 DEF Fresh
<1>10. /\ d \in ContextType /\ SameRest(after, d) /\ SameOutcome(after, d) /\ Once(d)
  BY <1>1, <1>4, <1>7, <1>8, <1>9, AnsweredOnce
<1> HIDE DEF d
<1>11. ContextInv(1, d)
  <2>1. Shape(1, d)
    BY <1>1, <1>3, <1>8, <1>10 DEF Shape, SameRest, SameOutcome
  <2>2. Own(1, d)
    <3>1. Chunked(d)
      BY <1>6, <1>8, <1>10
      DEF Chunked, SameOutcome, SameRest, HasRows, OwnChunks, CreateChunks
    <3>2. Base = 1
      BY <1>4 DEF Base
    <3> QED
      BY <1>1, <1>3, <1>5, <1>6, <1>8, <1>10, <3>1, <3>2
      DEF Own, SameOutcome, SameRest, NoQuery
  <2> QED
    BY <1>10, <2>1, <2>2 DEF ContextInv
<1>12. \A q \in requests : q.ctx # 1
  BY <1>1, <1>2 DEF Linked, RequestInv, RequestFits
<1>13. RequestsOf(1, d)
  BY <1>1, <1>2, <1>12 DEF RequestsOf, TypeOK
<1>14. Follows(st, d) /\ UNCHANGED <<options, fetches>>
  BY <1>2, <1>3, <1>8, <1>10 DEF SameRest, Fresh, Follows, HasRows
<1>15. contexts' \in Seq(ContextType) /\ Linked'
  <2>1. contexts' = [contexts EXCEPT ![1] = d] /\ d \in ContextType
    BY <1>2, <1>10
  <2> QED
    BY <1>1, <1>11, <1>13, <1>14, <2>1, ContextStep
<1>16. failures' \in 0..MaxFailures
  BY <1>1, <1>2, BoundAssumption DEF TypeOK
<1> QED
  BY <1>1, <1>2, <1>15, <1>16 DEF IInv, TypeOK

-----------------------------------------------------------------------------
(* Array binds                                                             *)

\* Whether or not the binds are on the stage, the first request is sent now.
LEMMA BindsKeep ==
    ASSUME IInv, NEW b \in {"stage", "inline"},
           contexts[1].bind = "uploading",
           contexts' = [contexts EXCEPT ![1].bind = b],
           requests' = requests \cup {PreExecRequest(1, contexts'[1], "execute")},
           UNCHANGED <<options, fetches>>
    PROVE  contexts' \in Seq(ContextType) /\ requests' \subseteq RequestType /\ Linked'
<1> DEFINE st == contexts[1]
           d == [st EXCEPT !.bind = b]
           x == PreExecRequest(1, d, "execute")
<1>1. /\ TypeOK /\ Linked /\ 1 \in DOMAIN contexts /\ st \in ContextType
      /\ Once(st) \/ IsMulti(st)
      /\ Shape(1, st) /\ Own(1, st)
  BY FirstContext DEF ContextInv
<1>2. contexts' = [contexts EXCEPT ![1] = d]
  BY <1>1 DEF ContextType
<1>3. d \in ContextType
  BY <1>1 DEF ContextType
<1>4. /\ d.kind = st.kind /\ d.async = st.async /\ d.cur = st.cur /\ d.bind = b
      /\ d.inline = st.inline /\ d.moved = st.moved
      /\ d.fetching = st.fetching /\ SameOutcome(st, d) /\ SameProgress(st, d)
  BY <1>1 DEF ContextType, SameOutcome, SameProgress
<1>5. contexts'[1] = d /\ requests' = requests \cup {x}
  BY <1>1, <1>2, <1>3, SeqUpdate DEF TypeOK
<1> HIDE DEF d
<1>6. st.kind = "stage" /\ Fresh(st) /\ st.cur = 0 /\ Once(st) /\ ~st.transfer
  BY <1>1 DEF Shape, IsMulti
<1>7. x \in RequestType
  <2>1. FALSE \in BOOLEAN /\ "execute" \in {"execute", "stream"} \cup Fetches
        /\ d.bind \in {"none", "stage", "inline"} /\ 1 \in Nat
    BY <1>4
  <2> QED
    BY <2>1, Zenon DEF PreExecRequest, RequestType
<1>8. x.ctx = 1 /\ x.purpose = "execute" /\ x.query = 1
  BY DEF PreExecRequest
<1> HIDE DEF x
<1>9. ContextInv(1, d)
  <2>1. Once(d)
    BY <1>4, <1>6 DEF Once, Fresh, SameOutcome, SameProgress
  <2>2. Shape(1, d)
    BY <1>1, <1>4, <1>6 DEF Shape, SameOutcome
  <2>3. Own(1, d)
    BY <1>1, <1>4 DEF Own, SameOutcome, Chunked, HasRows, OwnChunks, CreateChunks
  <2> QED
    BY <2>1, <2>2, <2>3 DEF ContextInv
<1>10. \A q \in requests : q.ctx # 1
  BY <1>1 DEF Linked, RequestInv, RequestFits
<1>11. RequestFits(x, d)
  <2>1. "execute" \notin Fetches /\ Base \in {1, 2}
    BY BoundAssumption DEF Base
  <2> QED
    BY <1>4, <1>6, <1>8, <2>1 DEF RequestFits, Asks, Fresh, SameOutcome
<1>12. requests' \subseteq RequestType
  BY <1>1, <1>5, <1>7 DEF TypeOK
<1>13. RequestsOf(1, d)
  BY <1>5, <1>8, <1>10, <1>11, <1>12 DEF RequestsOf
<1>14. Follows(st, d)
  BY <1>4 DEF SameOutcome, Follows, OwnChunks, CreateChunks
<1> QED
  BY <1>1, <1>2, <1>3, <1>9, <1>12, <1>13, <1>14, ContextStep

-----------------------------------------------------------------------------
(* Aggregation of the rows for complete                                    *)

LEMMA RefreshTypes ==
    ASSUME NEW st \in ContextType, st.bind # "uploading", NEW c \in Nat,
           NEW p \in {"execute", "stream"} \cup Fetches
    PROVE  PreExecRequest(c, st, p) \in RequestType /\ PostExecRequest(c, st, p) \in RequestType
<1>1. /\ st.bind \in {"none", "stage", "inline"} /\ "none" \in {"none", "stage", "inline"}
      /\ 1 \in Nat /\ st.query \in Nat
  BY DEF ContextType
<1>2. PreExecRequest(c, st, p) \in RequestType
  BY <1>1, Zenon DEF PreExecRequest, RequestType
<1>3. PostExecRequest(c, st, p) \in RequestType
  BY <1>1, Zenon DEF PostExecRequest, RequestType
<1> QED
  BY <1>2, <1>3

\* context.refresh asks for the query of the context.
LEMMA RefreshFacts ==
    ASSUME NEW st \in ContextType, st.bind # "uploading", NEW c \in Nat,
           NEW p \in {"execute", "stream"} \cup Fetches, NEW x, x = RefreshRequest(c, st, p)
    PROVE  /\ x \in RequestType /\ x.ctx = c /\ x.purpose = p
           /\ st.query # NoQuery => x.query = st.query
           /\ st.query = NoQuery => x.query = 1
<1>1. x \in RequestType
  BY RefreshTypes DEF RefreshRequest
<1> QED
  BY <1>1 DEF RefreshRequest, PreExecRequest, PostExecRequest

\* That is a query the context may be waiting for.
LEMMA RefreshAsks ==
    ASSUME NEW st \in ContextType, NEW c \in Nat, c >= 1, Own(c, st),
           NEW q \in Nat, st.query # NoQuery => q = st.query, st.query = NoQuery => q = 1
    PROVE  Asks(c, q, st)
<1>1. st.query \in Nat /\ Base \in {1, 2}
  BY DEF ContextType, Base
<1>2. CASE c = 1
  BY <1>1, <1>2 DEF Own, Asks, NoQuery
<1>3. CASE c # 1
  BY <1>1, <1>3 DEF Own, Asks, NoQuery
<1> QED
  BY <1>2, <1>3

\* A step of the aggregation, when no request is in flight for it.
LEMMA AggregationStep ==
    ASSUME IInv, NEW c \in DOMAIN contexts, contexts[c].aggregate \in {"due", "reading"},
           NEW d \in ContextType, contexts' = [contexts EXCEPT ![c] = d],
           UNCHANGED <<options, fetches>>,
           SameRest(contexts[c], d), SameOutcome(contexts[c], d), IsMulti(d) \/ Once(d),
           \/ requests' = requests
           \/ \E x \in RequestType : /\ requests' = requests \cup {x}
                                     /\ x.ctx = c /\ x.purpose = "stream"
                                     /\ RequestFits(x, d)
    PROVE  contexts' \in Seq(ContextType) /\ requests' \subseteq RequestType /\ Linked'
<1> DEFINE st == contexts[c]
<1>1. /\ TypeOK /\ Linked /\ st \in ContextType /\ ContextInv(c, st)
      /\ c \in Nat /\ c >= 1
  BY ContextTyped DEF IInv, Linked
<1>2. IsMulti(d) <=> IsMulti(st)
  BY DEF IsMulti, SameRest
<1>3. Fresh(d) <=> Fresh(st)
  BY DEF Fresh, SameOutcome
<1>4. ~IsMulti(st) => st.completes = <<>> /\ ~Fresh(st)
  BY <1>1 DEF ContextInv, Once
<1>5. Follows(st, d) /\ Chunked(d)
  BY <1>1, SameFollows DEF ContextInv, Own
<1>6. ContextInv(c, d)
  <2>1. Shape(c, d)
    BY <1>1, <1>3 DEF ContextInv, Shape, SameOutcome, SameRest
  <2>2. Own(c, d)
    BY <1>1, <1>4, <1>5 DEF ContextInv, Own, SameOutcome, SameRest
  <2> QED
    BY <2>1, <2>2 DEF ContextInv
<1>7. ASSUME NEW q \in requests, q.ctx = c
      PROVE  RequestFits(q, d) /\ (q.purpose = "stream" => IsMulti(st))
  <2>1. RequestFits(q, st)
    BY <1>1, <1>7 DEF Linked, RequestInv
  <2> QED
    BY <1>2, <1>3, <1>4, <2>1 DEF RequestFits, Asks, SameOutcome, SameRest
<1>8. requests' \subseteq RequestType
  BY <1>1 DEF TypeOK
<1>9. RequestsOf(c, d)
  <2>1. "stream" \notin Fetches
    BY BoundAssumption
  <2>2. \A q, s \in requests :
           q.ctx = c /\ s.ctx = c /\ q.purpose = s.purpose =>
               q = s \/ (IsMulti(d) /\ q.purpose \notin Fetches)
    BY <1>1, <1>2 DEF Linked, Unique
  <2>3. CASE requests' = requests
    BY <1>7, <1>8, <2>2, <2>3 DEF RequestsOf
  <2>4. ASSUME NEW x \in RequestType, requests' = requests \cup {x},
               x.ctx = c, x.purpose = "stream", RequestFits(x, d)
        PROVE  RequestsOf(c, d)
    BY <1>2, <1>7, <1>8, <2>1, <2>2, <2>4 DEF RequestsOf
  <2> QED
    BY <2>3, <2>4
<1> QED
  BY <1>5, <1>6, <1>8, <1>9, ContextStep

LEMMA AllRowsReadKeeps ==
    ASSUME IInv, NEW c \in DOMAIN contexts, allRowsRead(c)
    PROVE  IInv'
<1> DEFINE st == contexts[c]
           d == [st EXCEPT !.aggregate = "done", !.completes = Append(@, "ok")]
<1>1. TypeOK /\ Linked /\ st \in ContextType /\ ContextInv(c, st)
  BY ContextTyped DEF IInv, Linked
<1>2. /\ st.aggregate = "reading" /\ contexts' = [contexts EXCEPT ![c] = d]
      /\ UNCHANGED <<options, requests, fetches, cancels, polls, failures, cancelled>>
  BY <1>1 DEF allRowsRead, ContextType
<1>3. /\ d \in ContextType
      /\ SameRest(st, d) /\ SameOutcome(st, d)
      /\ Once(st) /\ ~Fresh(st) /\ st.completes = <<>> /\ st.result # NoResult => Once(d)
  BY <1>1, AggregationEnds
<1> HIDE DEF d
<1>4. IsMulti(d) \/ Once(d)
  BY <1>1, <1>2, <1>3 DEF ContextInv, Once, Fresh, IsMulti, SameRest
<1>5. contexts' \in Seq(ContextType) /\ requests' \subseteq RequestType /\ Linked'
  BY <1>2, <1>3, <1>4, AggregationStep
<1> QED
  BY <1>1, <1>2, <1>5 DEF IInv, TypeOK

\* The stream fails or gives up: complete is told of the error.
LEMMA AggregationGivesUp ==
    ASSUME IInv, NEW c \in DOMAIN contexts, contexts[c].aggregate \in {"due", "reading"},
           contexts' = [contexts EXCEPT ![c] = FailAggregation(contexts[c])],
           UNCHANGED <<options, requests, fetches>>
    PROVE  contexts' \in Seq(ContextType) /\ requests' \subseteq RequestType /\ Linked'
<1> DEFINE st == contexts[c]
           d == FailAggregation(st)
<1>1. TypeOK /\ Linked /\ st \in ContextType /\ ContextInv(c, st)
  BY ContextTyped DEF IInv, Linked
<1>2. /\ d \in ContextType
      /\ SameRest(st, d) /\ SameOutcome(st, d)
      /\ Once(st) /\ ~Fresh(st) /\ st.completes = <<>> => Once(d)
  BY <1>1, AggregationEnds DEF FailAggregation
<1>3. contexts' = [contexts EXCEPT ![c] = d]
  OBVIOUS
<1> HIDE DEF d
<1>4. IsMulti(d) \/ Once(d)
  BY <1>1, <1>2 DEF ContextInv, Once, Fresh, IsMulti, SameRest
<1> QED
  BY <1>2, <1>3, <1>4, AggregationStep

LEMMA AggregateKeeps ==
    ASSUME IInv, NEW c \in DOMAIN contexts, aggregate(c)
    PROVE  IInv'
<1> DEFINE st == contexts[c]
           fatal == st.error = "fatal" \/ (st.kind = "file" /\ st.error # "none")
           Kept == contexts' \in Seq(ContextType) /\ requests' \subseteq RequestType /\ Linked'
<1>1. /\ TypeOK /\ Linked /\ st \in ContextType /\ ContextInv(c, st)
      /\ c \in Nat /\ c >= 1
  BY ContextTyped DEF IInv, Linked
<1>2. /\ st.aggregate = "due"
      /\ UNCHANGED <<options, fetches, cancels, polls, failures, cancelled>>
  BY DEF aggregate
<1>3. ASSUME NEW g \in {"reading", "idle", "refreshing"}, NEW d, d = [st EXCEPT !.aggregate = g],
             g = "reading" => st.result # NoResult
      PROVE  /\ d \in ContextType
             /\ SameOutcome(st, d) /\ d.aggregate = g
             /\ SameRest(st, d) /\ (IsMulti(d) \/ Once(d))
  <2>1. [st EXCEPT !.aggregate = g] \in ContextType
    BY <1>1, <1>3 DEF ContextType
  <2>2. /\ SameOutcome(st, d) /\ SameRest(st, d) /\ d.fetching = st.fetching
        /\ d.aggregate = g /\ d.completes = st.completes
    BY <1>1, <1>3 DEF ContextType, SameRest, SameOutcome
  <2>3. IsMulti(d) \/ Once(d)
    BY <1>1, <1>2, <1>3, <2>2 DEF ContextInv, Once, Fresh, IsMulti, SameRest, SameOutcome
  <2> QED
    BY <1>3, <2>1, <2>2, <2>3
<1>4. ASSUME st.result # NoResult, contexts' = [contexts EXCEPT ![c].aggregate = "reading"],
             UNCHANGED requests
      PROVE  Kept
  <2> DEFINE d == [st EXCEPT !.aggregate = "reading"]
  <2>1. contexts' = [contexts EXCEPT ![c] = d]
    BY <1>4
  <2>2. /\ d \in ContextType
        /\ SameOutcome(st, d) /\ d.aggregate = "reading"
        /\ SameRest(st, d) /\ (IsMulti(d) \/ Once(d))
    BY <1>3, <1>4
  <2> HIDE DEF d
  <2> QED
    BY <1>2, <1>4, <2>1, <2>2, AggregationStep
<1>5. ASSUME contexts' = [contexts EXCEPT ![c] = FailAggregation(st)], UNCHANGED requests
      PROVE  Kept
  BY <1>2, <1>5, AggregationGivesUp
<1>6. ASSUME st.result = NoResult, ~fatal, st.cur > 0,
             contexts' = [contexts EXCEPT ![c].aggregate = "idle"], UNCHANGED requests
      PROVE  Kept
  <2> DEFINE d == [st EXCEPT !.aggregate = "idle"]
  <2>1. contexts' = [contexts EXCEPT ![c] = d]
    BY <1>6
  <2>2. /\ d \in ContextType
        /\ SameOutcome(st, d) /\ d.aggregate = "idle"
        /\ SameRest(st, d) /\ (IsMulti(d) \/ Once(d))
    BY <1>3
  <2> HIDE DEF d
  <2> QED
    BY <1>2, <1>6, <2>1, <2>2, AggregationStep
<1>7. ASSUME st.result = NoResult, ~fatal, ~(st.cur > 0),
             contexts' = [contexts EXCEPT ![c].aggregate = "refreshing"],
             requests' = requests \cup {RefreshRequest(c, st, "stream")}
      PROVE  Kept
  <2> DEFINE d == [st EXCEPT !.aggregate = "refreshing"]
             x == RefreshRequest(c, st, "stream")
  <2>1. contexts' = [contexts EXCEPT ![c] = d] /\ requests' = requests \cup {x}
    BY <1>7
  <2>2. /\ d \in ContextType
        /\ SameOutcome(st, d) /\ d.aggregate = "refreshing"
        /\ SameRest(st, d) /\ (IsMulti(d) \/ Once(d))
    BY <1>3
  <2> HIDE DEF d
  <2>3. ~Fresh(st) /\ st.bind # "uploading" /\ ~st.transfer /\ st.kind # "file"
    <3>1. ~IsMulti(st)
      BY <1>7 DEF IsMulti
    <3>2. ~Fresh(st)
      BY <1>1, <1>2, <3>1 DEF ContextInv, Once
    <3> QED
      BY <1>1, <1>7, <3>2 DEF ContextInv, Shape, Fresh
  <2>4. /\ x \in RequestType /\ x.ctx = c /\ x.purpose = "stream"
        /\ st.query # NoQuery => x.query = st.query
        /\ st.query = NoQuery => x.query = 1
    BY <1>1, <2>3, RefreshFacts
  <2> HIDE DEF x
  <2>5. "stream" \notin Fetches /\ Base \in {1, 2}
    BY BoundAssumption DEF Base
  <2>6. Asks(c, x.query, st)
    <3>1. x.query \in Nat /\ Own(c, st)
      BY <1>1, <2>4 DEF RequestType, ContextInv
    <3> QED
      BY <1>1, <2>4, <3>1, RefreshAsks
  <2>7. RequestFits(x, d)
    BY <2>2, <2>3, <2>4, <2>5, <2>6 DEF RequestFits, Asks, Fresh, SameOutcome, SameRest
  <2> QED
    BY <1>2, <1>7, <2>1, <2>2, <2>4, <2>7, AggregationStep
<1>8. Kept
  BY <1>4, <1>5, <1>6, <1>7 DEF aggregate
<1> QED
  BY <1>1, <1>2, <1>8 DEF IInv, TypeOK

LEMMA AggregationFailsKeeps ==
    ASSUME IInv, NEW c \in DOMAIN contexts, NEW expired \in BOOLEAN, aggregationFails(c, expired)
    PROVE  IInv'
<1> DEFINE st == contexts[c]
           Kept == contexts' \in Seq(ContextType) /\ requests' \subseteq RequestType /\ Linked'
<1>1. /\ TypeOK /\ Linked /\ st \in ContextType /\ ContextInv(c, st)
      /\ c \in Nat /\ c >= 1
  BY ContextTyped DEF IInv, Linked
<1>2. /\ st.aggregate = "reading" /\ \E k \in DOMAIN st.urls : HasUrl(st.urls[k])
      /\ failures < MaxFailures /\ failures' = failures + 1
      /\ UNCHANGED <<options, fetches, cancels, polls, cancelled>>
  BY DEF aggregationFails
<1>3. st.kind # "file" /\ st.result # NoResult
  <2>1. HasRows(st) /\ DOMAIN OwnChunks(st) # {}
    <3>1. DOMAIN st.urls # {}
      BY <1>2
    <3> QED
      BY <1>1, <3>1 DEF ContextInv, Own, Chunked
  <2> QED
    BY <2>1 DEF HasRows, OwnChunks, CreateChunks
<1>4. ASSUME st.interrupts < Interrupts,
             contexts' = [contexts EXCEPT ![c].aggregate = "interrupted", ![c].interrupts = @ + 1],
             requests' = requests \cup {RefreshRequest(c, st, "stream")}
      PROVE  Kept
  <2> DEFINE d == [st EXCEPT !.aggregate = "interrupted", !.interrupts = st.interrupts + 1]
             x == RefreshRequest(c, st, "stream")
  <2>1. contexts' = [contexts EXCEPT ![c] = d] /\ requests' = requests \cup {x}
    BY <1>1, <1>4 DEF ContextType
  <2>2. d \in ContextType
    <3>1. st.interrupts + 1 \in 0..Interrupts
      BY <1>1, <1>4, BoundAssumption DEF ContextType
    <3> QED
      BY <1>1, <3>1 DEF ContextType
  <2>3. /\ SameOutcome(st, d) /\ d.aggregate = "interrupted" /\ d.completes = st.completes
        /\ SameRest(st, d) /\ d.fetching = st.fetching
    BY <1>1 DEF ContextType, SameOutcome, SameRest
  <2> HIDE DEF d
  <2>4. IsMulti(d) \/ Once(d)
    BY <1>1, <1>2, <2>3 DEF ContextInv, Once, Fresh, IsMulti, SameOutcome, SameRest
  <2>5. st.bind # "uploading" /\ ~st.transfer
    BY <1>1, <1>3 DEF ContextInv, Shape, Fresh
  <2>6. /\ x \in RequestType /\ x.ctx = c /\ x.purpose = "stream"
        /\ st.query # NoQuery => x.query = st.query
        /\ st.query = NoQuery => x.query = 1
    BY <1>1, <2>5, RefreshFacts
  <2> HIDE DEF x
  <2>7. "stream" \notin Fetches /\ Base \in {1, 2}
    BY BoundAssumption DEF Base
  <2>8. Asks(c, x.query, st)
    <3>1. x.query \in Nat /\ Own(c, st)
      BY <1>1, <2>6 DEF RequestType, ContextInv
    <3> QED
      BY <1>1, <2>6, <3>1, RefreshAsks
  <2>9. RequestFits(x, d)
    BY <1>3, <2>3, <2>5, <2>6, <2>7, <2>8 DEF RequestFits, Asks, SameOutcome, SameRest
  <2> QED
    BY <1>2, <2>1, <2>2, <2>3, <2>4, <2>6, <2>9, AggregationStep
<1>5. ASSUME contexts' = [contexts EXCEPT ![c] = FailAggregation(st)], UNCHANGED requests
      PROVE  Kept
  BY <1>2, <1>5, AggregationGivesUp
<1>6. Kept
  BY <1>4, <1>5 DEF aggregationFails
<1>7. failures' \in 0..MaxFailures
  BY <1>1, <1>2, BoundAssumption DEF TypeOK
<1> QED
  BY <1>1, <1>2, <1>6, <1>7 DEF IInv, TypeOK

-----------------------------------------------------------------------------
(* fetchRows()                                                             *)

LEMMA FetchFacts ==
    ASSUME IInv, NEW f \in Fetches
    PROVE  TypeOK /\ Linked /\ fetches[f] \in FetchType /\ FetchInv(f)
BY DEF IInv, Linked, TypeOK

\* A call starts to read, or asks for the result of the statement it is called on.
LEMMA FetchRowsKeeps ==
    ASSUME IInv, NEW f \in Fetches, NEW c \in DOMAIN contexts, NEW last \in Ends,
           fetchRows(f, c, last)
    PROVE  IInv'
<1> DEFINE st == contexts[c]
           op == [fetches[f] EXCEPT !.ctx = c, !.last = last]
           phase == CASE st.fetching \/ st.error = "fatal" -> "ending"
                      [] ~st.fetching /\ st.error \in {"transient", "other"} -> "refreshing"
                      [] OTHER -> FetchFromResult(op, st).phase
           err == IF st.fetching THEN "fetching" ELSE "none"
           o == [op EXCEPT !.phase = phase, !.err = err]
<1>1. /\ TypeOK /\ Linked /\ st \in ContextType /\ ContextInv(c, st)
      /\ c \in Nat /\ c >= 1 /\ fetches[f] \in FetchType
  BY ContextTyped, FetchFacts DEF IInv, Linked
<1>2. /\ fetches[f].phase = "idle" /\ st.kind # "file"
      /\ fetches' = [fetches EXCEPT ![f] = o]
      /\ requests' = IF phase = "refreshing" THEN requests \cup {RefreshRequest(c, st, f)}
                   ELSE requests
      /\ UNCHANGED <<options, contexts, cancels, polls, failures, cancelled>>
  BY DEF fetchRows
<1>3. op \in FetchType
  <2>1. ASSUME NEW g \in FetchType, NEW k \in Nat
        PROVE  [g EXCEPT !.ctx = c, !.last = k] \in FetchType
    BY <1>1 DEF FetchType
  <2>2. last \in Nat
    BY BoundAssumption
  <2> QED
    BY <1>1, <2>1, <2>2
<1>4. op.ctx = c /\ op.out = <<>> /\ op.next = 1
  BY <1>1, <1>2, FetchFacts DEF FetchType, FetchInv
<1> HIDE DEF op
<1>5. /\ phase \in {"ending", "refreshing", "threw", "reading"}
      /\ phase = "refreshing" => st.error # "none"
      /\ phase = "reading" => HasRows(st) /\ LastChunk(op, st) # 0
  <2>1. /\ FetchFromResult(op, st).phase \in {"threw", "ending", "reading"}
        /\ Reads(FetchFromResult(op, st), st)
    BY <1>1, <1>2, <1>3, <1>4, FetchStarts
  <2>2. FetchFromResult(op, st).phase = "reading" => HasRows(st) /\ LastChunk(op, st) # 0
    BY <1>3 DEF FetchFromResult, FetchType, HasRows
  <2> QED
    BY <2>1, <2>2
<1> HIDE DEF phase
<1>6. err \in {"fetching", "none"}
  OBVIOUS
<1> HIDE DEF err
<1>7. o \in FetchType
  BY <1>3, <1>5, <1>6 DEF FetchType, Errors
<1>8. o.ctx = c /\ o.phase = phase /\ o.out = <<>> /\ o.next = 1 /\ o.last = op.last
  BY <1>3, <1>4 DEF FetchType
<1> HIDE DEF o
<1>9. Reads(o, st)
  <2>1. LastChunk(o, st) = LastChunk(op, st)
    BY <1>8 DEF LastChunk
  <2>2. op.last \in Nat /\ Len(st.urls) \in Nat
    BY <1>1, <1>3 DEF FetchType, ContextType
  <2>3. phase = "reading" => o.next <= LastChunk(o, st)
    BY <1>5, <1>8, <2>1, <2>2 DEF LastChunk
  <2>4. Len(<<>>) = 0 /\ DOMAIN <<>> = {}
    OBVIOUS
  <2> QED
    BY <1>2, <1>5, <1>8, <2>3, <2>4 DEF Reads
<1>10. fetches'[f] = o
  BY <1>1, <1>2 DEF TypeOK
<1>11. FetchInv(f)'
  BY <1>2, <1>5, <1>8, <1>9, <1>10 DEF FetchInv
<1>12. CASE phase = "refreshing"
  <2>1. ~Fresh(st) /\ st.bind # "uploading" /\ ~st.transfer
    BY <1>1, <1>5, <1>12 DEF ContextInv, Shape, Fresh
  <2> PICK x : x = RefreshRequest(c, st, f)
    OBVIOUS
  <2>2. /\ x \in RequestType /\ x.ctx = c /\ x.purpose = f
        /\ st.query # NoQuery => x.query = st.query
        /\ st.query = NoQuery => x.query = 1
    <3>1. f \in {"execute", "stream"} \cup Fetches
      OBVIOUS
    <3> QED
      BY <1>1, <2>1, <3>1, RefreshFacts
  <2>3. f # "execute" /\ f # "stream" /\ Base \in {1, 2}
    BY BoundAssumption DEF Base
  <2>4. Asks(c, x.query, st)
    <3>1. x.query \in Nat /\ Own(c, st)
      BY <1>1, <2>2 DEF RequestType, ContextInv
    <3> QED
      BY <1>1, <2>2, <3>1, RefreshAsks
  <2>5. RequestInv(x)'
    BY <1>2, <1>8, <1>10, <1>12, <2>1, <2>2, <2>3, <2>4 DEF RequestInv, RequestFits, Asks, Base
  <2>6. requests' \subseteq RequestType /\ fetches' \in [Fetches -> FetchType] /\ Linked'
    <3>1. requests' = requests \cup {x} /\ fetches[f].phase \notin {"refreshing", "interrupted"}
      BY <1>2, <1>12
    <3> QED
      BY <1>2, <1>7, <1>11, <2>2, <2>5, <3>1, FetchStep
  <2> QED
    BY <1>1, <1>2, <2>6 DEF IInv, TypeOK
<1>13. CASE phase # "refreshing"
  <2>1. requests' \subseteq RequestType /\ fetches' \in [Fetches -> FetchType] /\ Linked'
    BY <1>2, <1>7, <1>11, <1>13, FetchStep
  <2> QED
    BY <1>1, <1>2, <2>1 DEF IInv, TypeOK
<1> QED
  BY <1>12, <1>13

\* What is known of the context that a call reads.
LEMMA ReadingFacts ==
    ASSUME IInv, NEW f \in Fetches, fetches[f].phase # "idle"
    PROVE  /\ TypeOK /\ Linked /\ fetches[f] \in FetchType
           /\ fetches[f].ctx \in DOMAIN contexts /\ fetches[f].ctx \in Nat /\ fetches[f].ctx >= 1
           /\ contexts[fetches[f].ctx] \in ContextType
           /\ ContextInv(fetches[f].ctx, contexts[fetches[f].ctx])
           /\ Reads(fetches[f], contexts[fetches[f].ctx])
<1>1. TypeOK /\ Linked /\ fetches[f] \in FetchType /\ FetchInv(f)
  BY FetchFacts
<1> QED
  BY <1>1, ContextTyped DEF FetchInv, Linked

LEMMA ProcessChunkKeeps ==
    ASSUME IInv, NEW f \in Fetches, NEW stop \in BOOLEAN, processChunk(f, stop)
    PROVE  IInv'
<1> DEFINE op == fetches[f]
           st == contexts[op.ctx]
           own == OwnChunks(st)
           phase == IF stop \/ op.next = LastChunk(op, st) THEN "ending" ELSE op.phase
<1>1. /\ op.phase = "reading"
      /\ UNCHANGED <<options, contexts, requests, cancels, polls, failures, cancelled>>
  BY DEF processChunk
<1>2. /\ TypeOK /\ Linked /\ op \in FetchType
      /\ op.ctx \in DOMAIN contexts /\ st \in ContextType
      /\ ContextInv(op.ctx, st) /\ Reads(op, st)
  BY <1>1, ReadingFacts
<1>3. /\ HasRows(st) /\ op.next = Len(op.out) + 1 /\ op.next <= LastChunk(op, st)
      /\ DOMAIN st.urls = DOMAIN own
  BY <1>1, <1>2 DEF Reads, ContextInv, Own, Chunked
<1>4. st.urls \in Seq(Nat \X Nat) /\ own \in Seq(Nat \X Nat) /\ op.out \in Seq(Nat \X Nat)
  <2>1. st.result \in Nat
    BY <1>2, <1>3 DEF ContextType, HasRows
  <2>2. own \in Seq(Nat \X Nat)
    BY <1>2, <2>1, ChunksTypes DEF OwnChunks
  <2> QED
    BY <1>2, <2>2 DEF ContextType, FetchType
<1>5. op.next \in Nat /\ LastChunk(op, st) \in Nat /\ op.next \in DOMAIN st.urls
  <2>1. op.last \in Nat /\ Len(st.urls) \in Nat /\ Len(op.out) \in Nat
    BY <1>2, <1>4 DEF FetchType
  <2>2. LastChunk(op, st) \in Nat /\ LastChunk(op, st) <= Len(st.urls)
    BY <2>1 DEF LastChunk
  <2>3. DOMAIN st.urls = 1 .. Len(st.urls)
    BY <1>4
  <2>4. op.next \in 1 .. Len(st.urls)
    <3>1. op.next = Len(op.out) + 1 /\ op.next <= LastChunk(op, st)
      BY <1>3
    <3> QED
      BY <2>1, <2>2, <3>1
  <2> QED
    BY <2>2, <2>3, <2>4
<1>6. PICK row \in {st.urls[op.next], own[op.next]} :
         fetches' = [fetches EXCEPT ![f] =
                        [op EXCEPT !.out = Append(op.out, row), !.next = op.next + 1,
                                   !.phase = phase]]
  BY <1>2 DEF processChunk, OwnChunks, TypeOK, FetchType
<1> DEFINE o == [op EXCEPT !.out = Append(op.out, row), !.next = op.next + 1, !.phase = phase]
<1>7. phase \in {"ending", "reading"} /\ (phase = "reading" => op.next # LastChunk(op, st))
  BY <1>1
<1> HIDE DEF phase
<1>8. row \in Nat \X Nat
  <2>1. \A s \in Seq(Nat \X Nat) : \A i \in DOMAIN s : s[i] \in Nat \X Nat
    OBVIOUS
  <2>2. op.next \in DOMAIN own
    BY <1>3, <1>5
  <2>3. st.urls[op.next] \in Nat \X Nat /\ own[op.next] \in Nat \X Nat
    BY <1>4, <1>5, <2>1, <2>2
  <2>4. row = st.urls[op.next] \/ row = own[op.next]
    BY <1>6
  <2> QED
    BY <2>3, <2>4
<1>9. o \in FetchType
  <2>1. ASSUME NEW g \in FetchType, NEW k \in Seq(Nat \X Nat), NEW n \in Nat,
               NEW h \in {"ending", "reading"}
        PROVE  [g EXCEPT !.out = k, !.next = n, !.phase = h] \in FetchType
    BY DEF FetchType
  <2>2. Append(op.out, row) \in Seq(Nat \X Nat)
    BY <1>4, <1>8, AppendTypes
  <2>3. op.next + 1 \in Nat
    BY <1>5
  <2> QED
    BY <1>2, <1>7, <2>1, <2>2, <2>3
<1>10. /\ o.ctx = op.ctx /\ o.phase = phase /\ o.last = op.last
       /\ o.next = op.next + 1 /\ o.out = Append(op.out, row)
  BY <1>2 DEF FetchType
<1> HIDE DEF o
<1>11. Reads(o, st)
  <2>1. LastChunk(o, st) = LastChunk(op, st)
    BY <1>10 DEF LastChunk
  <2>2. Len(o.out) = Len(op.out) + 1 /\ DOMAIN o.out = DOMAIN op.out \cup {op.next}
        /\ o.out[op.next] = row /\ \A i \in DOMAIN op.out : o.out[i] = op.out[i]
    <3> PICK S : S = Nat \X Nat
      OBVIOUS
    <3> PICK s \in Seq(S), x \in S : s = op.out /\ x = row
      BY <1>4, <1>8
    <3>1. Appended(s, x, Append(s, x))
      BY ONLY s \in Seq(S), x \in S, AppendFacts, Zenon
    <3>2. o.out = Append(s, x) /\ op.next = Len(s) + 1
      BY <1>3, <1>10
    <3> QED
      BY <3>1, <3>2, Zenon DEF Appended
  <2>3. o.next = Len(o.out) + 1
    BY <1>3, <1>10, <2>2
  <2>4. phase = "reading" => o.next <= LastChunk(o, st)
    BY <1>3, <1>5, <1>7, <1>10, <2>1
  <2>5. ASSUME ~st.moved, st.urls = own, NEW i \in DOMAIN o.out PROVE o.out[i] = own[i]
    <3>1. row = own[op.next]
      BY <1>6, <2>5
    <3>2. \A k \in DOMAIN op.out : op.out[k] = own[k]
      BY <1>2, <2>5 DEF Reads
    <3> QED
      BY <2>2, <2>5, <3>1, <3>2
  <2>6. st.kind # "file"
    BY <1>2 DEF Reads
  <2> QED
    BY <1>3, <1>7, <1>10, <2>3, <2>4, <2>5, <2>6 DEF Reads
<1>12. fetches' = [fetches EXCEPT ![f] = o]
  BY <1>6 DEF o
<1>13. FetchInv(f)'
  <2>1. fetches'[f] = o
    BY <1>2, <1>12 DEF TypeOK
  <2> QED
    BY <1>1, <1>2, <1>7, <1>10, <1>11, <2>1 DEF FetchInv
<1>14. fetches[f].phase \notin {"refreshing", "interrupted"} /\ requests' = requests
  BY <1>1
<1>15. requests' \subseteq RequestType /\ fetches' \in [Fetches -> FetchType] /\ Linked'
  BY <1>1, <1>9, <1>12, <1>13, <1>14, FetchStep
<1> QED
  BY <1>1, <1>2, <1>15 DEF IInv, TypeOK

\* An interrupted call asks for the result it was reading.
LEMMA DownloadFailsKeeps ==
    ASSUME IInv, NEW f \in Fetches, NEW expired \in BOOLEAN, downloadFails(f, expired)
    PROVE  IInv'
<1> DEFINE op == fetches[f]
           c == op.ctx
           st == contexts[c]
           Kept == /\ requests' \subseteq RequestType /\ fetches' \in [Fetches -> FetchType]
                   /\ Linked'
<1>1. /\ op.phase = "reading"
      /\ failures < MaxFailures /\ failures' = failures + 1
      /\ UNCHANGED <<options, contexts, cancels, polls, cancelled>>
  BY DEF downloadFails
<1>2. /\ TypeOK /\ Linked /\ op \in FetchType
      /\ c \in DOMAIN contexts /\ c \in Nat /\ c >= 1 /\ st \in ContextType
      /\ ContextInv(c, st) /\ Reads(op, st)
  BY <1>1, ReadingFacts
<1>3. st.result # NoResult /\ st.kind # "file" /\ HasRows(st)
  BY <1>1, <1>2 DEF Reads, HasRows
<1>4. ASSUME NEW o \in FetchType, o.ctx = c, o.phase \in {"ending", "interrupted"},
             o.out = op.out, o.next = op.next, o.last = op.last
      PROVE  Reads(o, st)
  BY <1>1, <1>2, <1>4 DEF Reads, LastChunk
<1>5. ~Fresh(st) /\ st.bind # "uploading" /\ ~st.transfer
  BY <1>2, <1>3 DEF Fresh, ContextInv, Shape
<1>6. fetches[f].phase \notin {"refreshing", "interrupted"}
  BY <1>1
<1>7. ASSUME op.interrupts < Interrupts,
             fetches' = [fetches EXCEPT ![f] = Interrupt(@)],
             requests' = requests \cup {PostExecRequest(c, st, f)}
      PROVE  Kept
  <2> DEFINE o == [op EXCEPT !.phase = "interrupted", !.interrupts = op.interrupts + 1]
  <2> PICK x : x = PostExecRequest(c, st, f)
    OBVIOUS
  <2>1. fetches' = [fetches EXCEPT ![f] = o] /\ requests' = requests \cup {x}
    BY <1>2, <1>7 DEF Interrupt, TypeOK, FetchType
  <2>2. o \in FetchType
    <3> PICK h \in 0..Interrupts : h = op.interrupts
      BY <1>2 DEF FetchType
    <3>1. op.interrupts + 1 \in 0..Interrupts
      BY <1>7, BoundAssumption
    <3> PICK i \in 0..Interrupts : i = op.interrupts + 1
      BY <3>1
    <3> PICK e \in FetchType : e = op
      BY <1>2
    <3>2. [e EXCEPT !.phase = "interrupted", !.interrupts = i] \in FetchType
      BY DEF FetchType
    <3> QED
      BY <3>2
  <2>3. /\ o.ctx = c /\ o.phase = "interrupted"
        /\ o.out = op.out /\ o.next = op.next /\ o.last = op.last
    BY <1>2 DEF FetchType
  <2> HIDE DEF o
  <2>4. fetches'[f] = o
    BY <1>2, <2>1 DEF TypeOK
  <2>5. x \in RequestType /\ x.ctx = c /\ x.purpose = f /\ x.query = st.query
    <3>1. f \in {"execute", "stream"} \cup Fetches
      OBVIOUS
    <3>2. x \in RequestType
      BY <1>2, <1>5, <3>1, RefreshTypes
    <3> QED
      BY <3>2 DEF PostExecRequest
  <2>6. f # "execute" /\ f # "stream" /\ Base \in {1, 2}
    BY BoundAssumption DEF Base
  <2>7. Asks(c, x.query, st)
    BY <1>2, <1>3, <2>5, <2>6 DEF ContextInv, Own, Asks, NoQuery, ContextType
  <2>8. RequestInv(x)'
    <3>1. fetches'[f].ctx = c /\ fetches'[f].phase \in {"refreshing", "interrupted"}
      BY <2>3, <2>4
    <3> QED
      BY <1>1, <1>2, <1>3, <1>5, <2>5, <2>6, <2>7, <3>1 DEF RequestInv, RequestFits, Asks, Base
  <2>9. FetchInv(f)'
    BY <1>1, <1>2, <1>4, <2>2, <2>3, <2>4 DEF FetchInv
  <2> QED
    BY <1>1, <1>6, <2>1, <2>2, <2>5, <2>8, <2>9, FetchStep
<1>8. ASSUME fetches' = [fetches EXCEPT ![f].phase = "ending"], UNCHANGED requests
      PROVE  Kept
  <2> DEFINE o == [op EXCEPT !.phase = "ending"]
  <2>1. fetches' = [fetches EXCEPT ![f] = o]
    BY <1>8
  <2>2. o \in FetchType
    BY <1>2 DEF FetchType
  <2>3. /\ o.ctx = c /\ o.phase = "ending"
        /\ o.out = op.out /\ o.next = op.next /\ o.last = op.last
    BY <1>2 DEF FetchType
  <2> HIDE DEF o
  <2>4. fetches'[f] = o
    BY <1>2, <2>1 DEF TypeOK
  <2>5. FetchInv(f)'
    BY <1>1, <1>2, <1>4, <2>2, <2>3, <2>4 DEF FetchInv
  <2> QED
    BY <1>1, <1>6, <1>8, <2>1, <2>2, <2>5, FetchStep
<1>9. Kept
  BY <1>7, <1>8 DEF downloadFails
<1>10. failures' \in 0..MaxFailures
  BY <1>1, <1>2, BoundAssumption DEF TypeOK
<1> QED
  BY <1>1, <1>2, <1>9, <1>10 DEF IInv, TypeOK

LEMMA EndFetchRowsKeeps ==
    ASSUME IInv, NEW f \in Fetches, endFetchRows(f)
    PROVE  IInv'
<1> DEFINE op == fetches[f]
           err == IF op.err = "fetching" THEN op.err ELSE contexts[op.ctx].error
           o == [op EXCEPT !.phase = "ended", !.err = err]
<1>1. op \in FetchType /\ TypeOK
  BY FetchFacts
<1>2. /\ op.phase = "ending" /\ fetches' = [fetches EXCEPT ![f] = o]
      /\ UNCHANGED <<options, contexts, requests, cancels, polls, failures, cancelled>>
  BY <1>1 DEF endFetchRows, TypeOK, FetchType
<1>3. op.ctx \in DOMAIN contexts /\ contexts[op.ctx] \in ContextType /\ Reads(op, contexts[op.ctx])
  BY <1>2, ReadingFacts
<1>4. err \in Errors \cup {"fetching"}
  BY <1>1, <1>3 DEF ContextType
<1> HIDE DEF err
<1>5. o \in FetchType
  BY <1>1, <1>4 DEF FetchType
<1>6. /\ o.ctx = op.ctx /\ o.phase = "ended"
      /\ o.out = op.out /\ o.next = op.next /\ o.last = op.last
  BY <1>1 DEF FetchType
<1> HIDE DEF o
<1>7. fetches'[f] = o
  BY <1>1, <1>2 DEF TypeOK
<1>8. FetchInv(f)'
  <2>1. Reads(o, contexts[op.ctx])
    BY <1>2, <1>3, <1>6 DEF Reads
  <2> QED
    BY <1>2, <1>3, <1>6, <1>7, <2>1 DEF FetchInv
<1>9. fetches[f].phase \notin {"refreshing", "interrupted"} /\ requests' = requests
  BY <1>2
<1>10. requests' \subseteq RequestType /\ fetches' \in [Fetches -> FetchType] /\ Linked'
  BY <1>2, <1>5, <1>8, <1>9, FetchStep
<1> QED
  BY <1>1, <1>2, <1>10 DEF IInv, TypeOK

-----------------------------------------------------------------------------
(* Several results                                                         *)

LEMMA NewContextTypes ==
    ASSUME NEW kind \in {"row", "stage", "file", "post"}, NEW stream \in BOOLEAN,
           NEW async \in BOOLEAN, NEW inline \in BOOLEAN, NEW q \in Nat, NEW k \in Nat
    PROVE  NewContext(kind, stream, async, inline, q, k) \in ContextType
BY BoundAssumption DEF NewContext, ContextType, Errors, NoResult, NoQuery

\* The context of a further result waits for its first answer.
LEMMA PostExecFacts ==
    ASSUME NEW st \in ContextType, NEW k \in Nat
    PROVE  /\ PostExecContext(st, k) \in ContextType
           /\ PostExecContext(st, k).kind = "post" /\ ~PostExecContext(st, k).async
           /\ PostExecContext(st, k).bind = "none" /\ ~PostExecContext(st, k).transfer
           /\ PostExecContext(st, k).query = 1 + k /\ PostExecContext(st, k).urls = <<>>
           /\ ~PostExecContext(st, k).moved
           /\ Fresh(PostExecContext(st, k)) /\ Once(PostExecContext(st, k))
<1> DEFINE x == PostExecContext(st, k)
<1>1. x \in ContextType
  <2>1. st.stream \in BOOLEAN /\ st.inline \in BOOLEAN /\ FALSE \in BOOLEAN /\ 1 + k \in Nat
        /\ "post" \in {"row", "stage", "file", "post"}
    BY DEF ContextType
  <2>2. NewContext("post", st.stream, FALSE, st.inline, 1 + k, k) \in ContextType
    BY <2>1, NewContextTypes
  <2> QED
    BY <2>2 DEF PostExecContext
<1>2. /\ x.kind = "post" /\ ~x.async /\ x.bind = "none" /\ x.query = 1 + k
      /\ x.urls = <<>> /\ ~x.moved /\ x.result = NoResult /\ x.error = "none" /\ ~x.transfer
      /\ x.fetching /\ x.aggregate = "no" /\ x.completes = <<>>
  BY DEF PostExecContext, NewContext
<1> HIDE DEF x
<1>3. Fresh(x) /\ Once(x)
  <2>1. x.completes # <<"ok">>
    BY <1>2
  <2> QED
    BY <1>2, <2>1 DEF Fresh, Once
<1> QED
  BY <1>1, <1>2, <1>3 DEF x

\* One context changes, and one is made.
LEMMA ContextAdded ==
    ASSUME TypeOK, NEW c \in DOMAIN contexts, NEW d \in ContextType, NEW x \in ContextType,
           contexts' = Append([contexts EXCEPT ![c] = d], x)
    PROVE  /\ contexts' \in Seq(ContextType) /\ contexts' # <<>>
           /\ Len(contexts') \in Nat /\ Len(contexts') > 1 /\ Len(contexts') # c
           /\ DOMAIN contexts' = DOMAIN contexts \cup {Len(contexts')}
           /\ Len(contexts') \notin DOMAIN contexts
           /\ contexts'[Len(contexts')] = x /\ contexts'[c] = d
           /\ \A j \in DOMAIN contexts : j # c => contexts'[j] = contexts[j]
<1> DEFINE mid == [contexts EXCEPT ![c] = d]
<1>1. contexts \in Seq(ContextType)
  BY DEF TypeOK
<1>2. /\ mid \in Seq(ContextType) /\ mid # <<>> /\ Len(mid) = Len(contexts)
      /\ DOMAIN mid = DOMAIN contexts /\ mid[c] = d
      /\ \A j \in DOMAIN contexts : j # c => mid[j] = contexts[j]
  BY <1>1, SeqUpdate
<1>3. contexts' = Append(mid, x)
  OBVIOUS
<1> HIDE DEF mid
<1>4. /\ contexts' \in Seq(ContextType) /\ contexts' # <<>> /\ Len(contexts') = Len(mid) + 1
      /\ DOMAIN contexts' = DOMAIN mid \cup {Len(contexts')} /\ Len(contexts') \notin DOMAIN mid
      /\ contexts'[Len(contexts')] = x
      /\ \A j \in DOMAIN mid : contexts'[j] = mid[j]
  <2>1. /\ Append(mid, x) \in Seq(ContextType) /\ Append(mid, x) # <<>>
        /\ Len(Append(mid, x)) = Len(mid) + 1
        /\ DOMAIN Append(mid, x) = DOMAIN mid \cup {Len(mid) + 1} /\ Len(mid) + 1 \notin DOMAIN mid
        /\ Append(mid, x)[Len(mid) + 1] = x
        /\ \A j \in DOMAIN mid : Append(mid, x)[j] = mid[j]
    BY <1>2, SMT
  <2> QED
    BY <1>3, <2>1, Zenon
<1>5. Len(mid) \in Nat /\ Len(mid) >= 1 /\ DOMAIN mid = 1 .. Len(mid)
  BY <1>2
<1>6. Len(contexts') \in Nat /\ Len(contexts') > 1
  BY <1>4, <1>5
<1> QED
  <2>1. c \in DOMAIN mid /\ Len(contexts') # c
    BY <1>2, <1>4
  <2>2. contexts'[c] = d /\ \A j \in DOMAIN contexts : j # c => contexts'[j] = contexts[j]
    BY <1>2, <1>4, <2>1
  <2>3. /\ DOMAIN contexts' = DOMAIN contexts \cup {Len(contexts')}
        /\ Len(contexts') \notin DOMAIN contexts
    BY <1>2, <1>4
  <2> QED
    BY <1>4, <1>6, <2>1, <2>2, <2>3

LEMMA ExecuteFits ==
    ASSUME NEW r, NEW st, NEW n \in Nat, n > 1,
           r.query \in Nat, r.query >= 2, r.ctx = n, r.purpose = "execute",
           "execute" \notin Fetches, r.query = st.query, n \in DOMAIN contexts',
           contexts'[n] = st, st.bind = "none", ~st.transfer, st.kind = "post", Fresh(st)
    PROVE  RequestInv(r)'
<1>1. RequestFits(r, st)'
  BY DEF RequestFits, Asks, Fresh
<1>2. RequestFits(r, contexts[r.ctx])'
  BY <1>1 DEF RequestFits, Asks, Base
<1> QED
  BY <1>2 DEF RequestInv

\* The context of a further result starts with the request for it.
LEMMA ResultAdded ==
    ASSUME IInv, NEW c \in DOMAIN contexts, NEW d \in ContextType, NEW k \in Nat \ {0},
           NEW rs \in SUBSET requests,
           options.results > 0, options' = options, ContextInv(c, d),
           IsMulti(contexts[c]) => IsMulti(d),
           contexts' = Append([contexts EXCEPT ![c] = d], PostExecContext(contexts[c], k)),
           requests' = rs \cup
               {PostExecRequest(Len(contexts'), contexts'[Len(contexts')], "execute")},
           fetches' \in [Fetches -> FetchType],
           \A f \in Fetches : /\ fetches'[f].ctx = fetches[f].ctx
                              /\ fetches'[f] = fetches[f] \/ fetches[f].ctx = c,
           \A q \in rs : q.ctx = c => RequestInv(q)',
           \A f \in Fetches : fetches[f].ctx = c => FetchInv(f)'
    PROVE  contexts' \in Seq(ContextType) /\ requests' \subseteq RequestType /\ Linked'
<1> PICK x : x = PostExecContext(contexts[c], k)
  OBVIOUS
<1> PICK n : n = Len(contexts')
  OBVIOUS
<1> PICK y : y = PostExecRequest(n, contexts'[n], "execute")
  OBVIOUS
<1>1. TypeOK /\ Linked /\ contexts[c] \in ContextType /\ c \in Nat
  BY ContextTyped DEF IInv
<1>2. /\ x \in ContextType
      /\ x.kind = "post" /\ ~x.async /\ x.bind = "none" /\ x.query = 1 + k
      /\ x.urls = <<>> /\ ~x.moved /\ Fresh(x) /\ ~x.transfer /\ Once(x)
  <2>1. k \in Nat
    OBVIOUS
  <2> QED
    BY <1>1, <2>1, PostExecFacts
<1>3. contexts' = Append([contexts EXCEPT ![c] = d], x)
  OBVIOUS
<1>4. /\ contexts' \in Seq(ContextType) /\ contexts' # <<>>
      /\ n \in Nat /\ n > 1 /\ n # c
      /\ DOMAIN contexts' = DOMAIN contexts \cup {n} /\ n \notin DOMAIN contexts
      /\ contexts'[n] = x /\ contexts'[c] = d
      /\ \A j \in DOMAIN contexts : j # c => contexts'[j] = contexts[j]
  BY <1>1, <1>2, <1>3, ContextAdded
<1>5. y \in RequestType /\ y.ctx = n /\ y.purpose = "execute" /\ y.query = x.query
  <2>1. PostExecRequest(n, x, "execute") \in RequestType
    BY <1>2, <1>4, RefreshTypes
  <2> QED
    BY <1>4, <2>1 DEF PostExecRequest
<1>6. requests' = rs \cup {y}
  OBVIOUS
<1>7. ASSUME NEW j \in DOMAIN contexts' PROVE ContextInv(j, contexts[j])'
  <2>1. ContextInv(n, x)
    <3>1. Shape(n, x)
      BY <1>2, <1>4 DEF Shape
    <3>2. Own(n, x)
      BY <1>2, <1>4 DEF Own, Fresh, Chunked, HasRows
    <3> QED
      BY <1>2, <3>1, <3>2 DEF ContextInv
  <2>2. ContextInv(j, contexts'[j])
    BY <1>1, <1>4, <2>1 DEF Linked
  <2> QED
    BY <2>2 DEF ContextInv, Shape, Own, Base
<1>8. ASSUME NEW q \in rs PROVE RequestInv(q)'
  <2>1. CASE q.ctx # c
    <3>1. RequestInv(q)
      BY <1>1 DEF Linked
    <3>2. q.purpose \in Fetches => fetches'[q.purpose] = fetches[q.purpose]
      BY <2>1, <3>1 DEF RequestInv, RequestFits
    <3>3. q.ctx \in DOMAIN contexts /\ contexts'[q.ctx] = contexts[q.ctx]
      BY <1>4, <2>1, <3>1 DEF RequestInv
    <3>4. q.ctx \in DOMAIN contexts'
      BY <1>4, <3>3
    <3> QED
      BY <3>1, <3>2, <3>3, <3>4 DEF RequestInv, RequestFits, Asks, Base
  <2> QED
    BY <2>1
<1>9. RequestInv(y)'
  <2>1. "execute" \notin Fetches
    BY BoundAssumption
  <2>2. /\ y.purpose = "execute" /\ y.purpose \notin Fetches /\ y.ctx = n /\ n > 1
        /\ y.query = x.query /\ x.bind = "none" /\ ~x.transfer /\ x.kind = "post"
        /\ Fresh(x) /\ y.query \in Nat /\ y.query >= 2
    BY <1>2, <1>4, <1>5, <2>1 DEF Fresh
  <2>3. n \in Nat /\ n \in DOMAIN contexts' /\ contexts'[n] = x
    BY <1>4
  <2> QED
    BY <2>1, <2>2, <2>3, ExecuteFits
<1>10. \A q \in requests' : RequestInv(q)'
  BY <1>6, <1>8, <1>9
<1>11. Unique'
  <2>1. \A q \in rs : q.ctx \in DOMAIN contexts
    BY <1>1 DEF Linked, RequestInv
  <2>2. \A j \in DOMAIN contexts : IsMulti(contexts[j]) => IsMulti(contexts'[j])
    BY <1>4
  <2>3. \A q \in rs : q.ctx # y.ctx
    BY <1>4, <1>5, <2>1
  <2> QED
    BY <1>1, <1>6, <2>1, <2>2, <2>3 DEF Linked, Unique
<1>12. ASSUME NEW f \in Fetches PROVE FetchInv(f)'
  <2>1. CASE fetches[f].ctx # c
    <3>1. FetchInv(f) /\ fetches'[f] = fetches[f]
      BY <1>1, <2>1 DEF Linked
    <3> QED
      BY <1>4, <2>1, <3>1 DEF FetchInv
  <2> QED
    BY <2>1
<1>13. requests' \subseteq RequestType
  BY <1>1, <1>5, <1>6 DEF TypeOK
<1> QED
  BY <1>4, <1>7, <1>10, <1>11, <1>12, <1>13 DEF Linked

\* onStatementRequestComp() changes nothing else, whatever came before.
LEMMA RequestCompTypes ==
    ASSUME NEW st \in ContextType, NEW after \in ContextType,
           NEW d, d = onStatementRequestComp(st, after)
    PROVE  d \in ContextType /\ SameRest(after, d) /\ SameOutcome(after, d)
<1> DEFINE done == [after EXCEPT !.fetching = FALSE]
<1>1. done \in ContextType
  BY DEF ContextType
<1>2. SameRest(after, done) /\ SameOutcome(after, done)
  BY DEF SameRest, SameOutcome, ContextType
<1>3. d = done \/ d = invokeStatementComplete(done)
  BY DEF onStatementRequestComp
<1> HIDE DEF done
<1>4. CASE d = done
  BY <1>1, <1>2, <1>4
<1>5. CASE d = invokeStatementComplete(done)
  <2>1. d \in ContextType /\ SameRest(done, d) /\ SameOutcome(done, d)
    BY <1>1, <1>5, InvokeComplete
  <2> QED
    BY <1>2, <2>1 DEF SameRest, SameOutcome
<1> QED
  BY <1>3, <1>4, <1>5

\* The context of several statements goes on without a result, whatever the request was
\* for, and the first result has a context of its own.
LEMMA MultiAnsweredKeeps ==
    ASSUME IInv, NEW r \in requests, multiAnswered(r)
    PROVE  IInv'
<1> DEFINE st == contexts[r.ctx]
           after == [st EXCEPT !.query = 2, !.error = "none", !.cur = 1]
<1> PICK new : new = onStatementRequestComp(st, after)
  OBVIOUS
<1> PICK d : d = IF r.purpose = "stream" THEN ResumeAggregation(new) ELSE new
  OBVIOUS
<1>1. /\ TypeOK /\ Linked /\ r \in RequestType
      /\ r.ctx \in DOMAIN contexts /\ r.ctx \in Nat /\ r.ctx >= 1
      /\ st \in ContextType /\ ContextInv(r.ctx, st) /\ RequestFits(r, st)
  BY RequestFacts
<1>2. /\ r.query = 1 /\ options.results > 0 /\ st.result = NoResult
      /\ contexts' = Append([contexts EXCEPT ![r.ctx] = d], PostExecContext(st, 1))
      /\ requests' = (requests \ {r}) \cup
             {PostExecRequest(Len(contexts'), contexts'[Len(contexts')], "execute")}
      /\ fetches' = IF r.purpose \notin Fetches THEN fetches
                    ELSE [fetches EXCEPT ![r.purpose] = ResumeFetch(@, new, FALSE)]
      /\ UNCHANGED <<options, cancels, polls, failures, cancelled>>
  BY DEF multiAnswered
<1>3. r.ctx = 1 /\ st.kind \in {"row", "stage"} /\ st.bind # "uploading" /\ ~st.transfer
  <2>1. r.ctx = 1
    BY <1>1, <1>2 DEF RequestFits, Asks
  <2>2. options.kind \in {"row", "stage"}
    BY <1>1, <1>2, OptionAssumption DEF TypeOK
  <2> QED
    BY <1>1, <2>1, <2>2 DEF RequestFits, ContextInv, Shape
<1>4. after \in ContextType
  BY <1>1 DEF ContextType, Errors
<1>5. /\ after.kind = st.kind /\ after.async = st.async /\ after.bind = st.bind /\ after.cur = 1
      /\ after.query = 2 /\ after.result = st.result /\ after.urls = st.urls
      /\ after.transfer = st.transfer /\ after.inline = st.inline /\ after.moved = st.moved
  BY <1>1 DEF ContextType
<1> HIDE DEF after
<1>6. new \in ContextType /\ SameRest(after, new) /\ SameOutcome(after, new)
  BY <1>1, <1>4, RequestCompTypes
<1>7. d \in ContextType /\ SameRest(new, d) /\ SameOutcome(new, d)
  <2>1. CASE r.purpose = "stream"
    BY <1>6, <2>1, AggregationContinues
  <2>2. CASE r.purpose # "stream"
    BY <1>6, <2>2 DEF SameRest, SameOutcome
  <2> QED
    BY <2>1, <2>2
<1>8. /\ d.kind = st.kind /\ d.async = st.async /\ d.bind = st.bind /\ d.cur = 1
      /\ d.query = 2 /\ d.result = st.result /\ d.urls = st.urls /\ ~d.transfer
      /\ new.result = st.result /\ IsMulti(d) /\ d.moved = st.moved /\ d.inline = st.inline
      /\ new.kind = st.kind /\ new.moved = st.moved /\ new.inline = st.inline
  BY <1>3, <1>5, <1>6, <1>7 DEF SameRest, SameOutcome, IsMulti
<1>9. ContextInv(r.ctx, d)
  <2>1. Shape(r.ctx, d)
    BY <1>1, <1>2, <1>3, <1>8 DEF ContextInv, Shape
  <2>2. Own(r.ctx, d)
    BY <1>1, <1>2, <1>3, <1>8 DEF ContextInv, Own, Chunked, HasRows, Base, NoQuery
  <2> QED
    BY <1>8, <2>1, <2>2 DEF ContextInv
<1>10. ~HasRows(st) /\ Follows(st, new) /\ Follows(st, d)
  BY <1>2, <1>8 DEF HasRows, Follows
<1>11. /\ fetches' \in [Fetches -> FetchType]
       /\ \A f \in Fetches : f # r.purpose => fetches'[f] = fetches[f]
       /\ r.purpose \in Fetches =>
             /\ fetches'[r.purpose].ctx = fetches[r.purpose].ctx
             /\ fetches[r.purpose].ctx = r.ctx
             /\ fetches'[r.purpose].phase \in {"threw", "ending", "stuck", "reading"}
             /\ Reads(fetches'[r.purpose], new)
  <2>1. CASE r.purpose \notin Fetches
    BY <1>1, <1>2, <2>1 DEF TypeOK
  <2>2. CASE r.purpose \in Fetches
    <3> PICK failed \in BOOLEAN : failed = FALSE
      OBVIOUS
    <3> PICK o : o = ResumeFetch(fetches[r.purpose], new, failed)
      OBVIOUS
    <3>1. fetches[r.purpose] \in FetchType /\ fetches \in [Fetches -> FetchType]
      BY <1>1, <2>2 DEF TypeOK
    <3>2. /\ fetches[r.purpose].ctx = r.ctx
          /\ fetches[r.purpose].phase \in {"refreshing", "interrupted"}
      BY <1>1, <2>2 DEF RequestFits
    <3>3. Reads(fetches[r.purpose], st)
      BY <2>2, <3>2, ReadingFacts
    <3>4. Reads(fetches[r.purpose], new)
      BY <1>1, <1>6, <1>10, <3>1, <3>3, ReadsOn
    <3>5. /\ o \in FetchType /\ o.ctx = fetches[r.purpose].ctx
          /\ o.phase \in {"threw", "ending", "stuck", "reading"} /\ Reads(o, new)
      BY <1>6, <3>1, <3>2, <3>4, FetchContinues
    <3>6. fetches' = [fetches EXCEPT ![r.purpose] = o]
      BY <1>2, <2>2
    <3> QED
      BY <2>2, <3>1, <3>2, <3>5, <3>6
  <2> QED
    BY <2>1, <2>2
<1>12. \A f \in Fetches : /\ fetches'[f].ctx = fetches[f].ctx
                          /\ fetches'[f] = fetches[f] \/ fetches[f].ctx = r.ctx
  BY <1>11
<1>13. contexts'[r.ctx] = d /\ r.ctx \in DOMAIN contexts'
  <2>1. PostExecContext(st, 1) \in ContextType
    BY <1>1, PostExecFacts
  <2> QED
    BY <1>1, <1>2, <1>7, <2>1, ContextAdded
<1>14. ASSUME NEW q \in requests \ {r}, q.ctx = r.ctx PROVE RequestInv(q)'
  <2>1. RequestInv(q) /\ (q.purpose = r.purpose => r.purpose \notin Fetches)
    BY <1>1, <1>14 DEF Linked, Unique
  <2>2. q.purpose \in Fetches => fetches'[q.purpose] = fetches[q.purpose]
    BY <1>11, <2>1
  <2>3. RequestFits(q, st)
    BY <1>14, <2>1 DEF RequestInv
  <2>4. q.ctx = 1 /\ q.query # 0 /\ (~d.moved => q.query \in 1 .. Base)
    BY <1>3, <1>8, <1>14, <2>3 DEF RequestFits, Asks
  <2>5. q.purpose \in Fetches => /\ fetches'[q.purpose].ctx = q.ctx
                                 /\ fetches'[q.purpose].phase \in {"refreshing", "interrupted"}
    BY <2>2, <2>3 DEF RequestFits
  <2>6. d.bind # "uploading" /\ ~d.transfer /\ d.kind # "file" /\ IsMulti(d)
    BY <1>3, <1>8
  <2>7. q.ctx \in DOMAIN contexts' /\ contexts'[q.ctx] = d
    BY <1>13, <1>14
  <2>8. options' = options
    BY <1>2
  <2> QED
    BY <2>4, <2>5, <2>6, <2>7, <2>8 DEF RequestInv, RequestFits, Asks, Base
<1>15. ASSUME NEW f \in Fetches, fetches[f].ctx = r.ctx PROVE FetchInv(f)'
  <2>1. FetchInv(f) /\ fetches[f] \in FetchType
    BY <1>1 DEF Linked, TypeOK
  <2>2. CASE f = r.purpose
    <3>1. r.purpose # "stream"
      BY <2>2, BoundAssumption
    <3>2. d = new
      BY <3>1
    <3>3. /\ fetches'[f].ctx = r.ctx /\ fetches'[f].phase # "idle" /\ Reads(fetches'[f], d)
          /\ r.ctx \in DOMAIN contexts' /\ contexts'[r.ctx] = d
      BY <1>11, <1>13, <2>2, <3>2
    <3> QED
      BY <3>3 DEF FetchInv
  <2>3. CASE f # r.purpose
    <3>1. fetches'[f] = fetches[f]
      BY <1>11, <2>3
    <3>2. ASSUME fetches[f].phase # "idle" PROVE Reads(fetches[f], d)
      <4>1. Reads(fetches[f], st)
        BY <1>15, <2>1, <3>2 DEF FetchInv
      <4> QED
        BY <1>1, <1>7, <1>10, <2>1, <4>1, ReadsOn
    <3> QED
      BY <1>13, <1>15, <2>1, <3>1, <3>2 DEF FetchInv
  <2> QED
    BY <2>2, <2>3
<1>16. contexts' \in Seq(ContextType) /\ requests' \subseteq RequestType /\ Linked'
  <2>1. 1 \in Nat \ {0} /\ (requests \ {r}) \in SUBSET requests /\ options' = options
        /\ (IsMulti(contexts[r.ctx]) => IsMulti(d))
    BY <1>2, <1>8
  <2>2. /\ contexts' = Append([contexts EXCEPT ![r.ctx] = d], PostExecContext(contexts[r.ctx], 1))
        /\ requests' = (requests \ {r}) \cup
               {PostExecRequest(Len(contexts'), contexts'[Len(contexts')], "execute")}
        /\ r.ctx \in DOMAIN contexts /\ options.results > 0
        /\ fetches' \in [Fetches -> FetchType]
    BY <1>1, <1>2, <1>11
  <2>3. /\ \A q \in requests \ {r} : q.ctx = r.ctx => RequestInv(q)'
        /\ \A f \in Fetches : fetches[f].ctx = r.ctx => FetchInv(f)'
    BY <1>14, <1>15
  <2> QED
    BY <1>7, <1>9, <1>12, <2>1, <2>2, <2>3, ResultAdded
<1> QED
  BY <1>1, <1>2, <1>11, <1>16 DEF IInv, TypeOK

\* NextResult() moves the context on, whatever is in flight.
LEMMA NextResultKeeps ==
    ASSUME IInv, NEW c \in DOMAIN contexts, NextResult(c)
    PROVE  IInv'
<1> DEFINE st == contexts[c]
<1> PICK d : d = [st EXCEPT !.cur = st.cur + 1, !.query = st.cur + 2, !.moved = TRUE]
  OBVIOUS
<1>1. /\ TypeOK /\ Linked /\ st \in ContextType /\ ContextInv(c, st)
      /\ c \in Nat /\ c >= 1
  BY ContextTyped DEF IInv, Linked
<1>2. /\ st.cur > 0 /\ st.cur < options.results
      /\ contexts' = Append([contexts EXCEPT ![c] = d], PostExecContext(st, st.cur + 1))
      /\ requests' = requests \cup
             {PostExecRequest(Len(contexts'), contexts'[Len(contexts')], "execute")}
      /\ UNCHANGED <<options, fetches, cancels, polls, failures, cancelled>>
  BY <1>1 DEF NextResult, hasNextResult, ContextType
<1>3. options.results \in Nat /\ options.results > 0 /\ st.cur \in Nat
  BY <1>1, <1>2, OptionAssumption DEF ContextType, TypeOK
<1>4. st.cur + 1 \in Nat \ {0} /\ st.cur + 2 \in Nat
  BY <1>3
<1>5. d \in ContextType
  BY <1>1, <1>4 DEF ContextType
<1>6. /\ d.kind = st.kind /\ d.async = st.async /\ d.bind = st.bind /\ d.fetching = st.fetching
      /\ d.inline = st.inline /\ d.moved /\ d.cur = st.cur + 1 /\ d.query = st.cur + 2
      /\ d.result = st.result /\ d.urls = st.urls
      /\ d.error = st.error /\ d.transfer = st.transfer /\ SameProgress(st, d)
  BY <1>1 DEF ContextType, SameProgress
<1>7. (IsMulti(st) <=> IsMulti(d)) /\ (Fresh(st) <=> Fresh(d)) /\ Follows(st, d)
  BY <1>2, <1>3, <1>6 DEF IsMulti, Fresh, Follows
<1>8. ContextInv(c, d)
  <2>1. IsMulti(d) \/ Once(d)
    BY <1>1, <1>6, <1>7 DEF ContextInv, Once, SameProgress
  <2>2. Shape(c, d)
    BY <1>1, <1>2, <1>3, <1>6, <1>7 DEF ContextInv, Shape, NoQuery
  <2>3. Chunked(d)
    BY <1>1, <1>6 DEF ContextInv, Own, Chunked, HasRows, OwnChunks, CreateChunks
  <2>4. Own(c, d)
    BY <1>1, <1>3, <1>6, <2>3 DEF Own, NoQuery
  <2> QED
    BY <2>1, <2>2, <2>4 DEF ContextInv
<1>9. c \in DOMAIN contexts' /\ contexts'[c] = d
  <2>1. PostExecContext(st, st.cur + 1) \in ContextType
    BY <1>1, <1>4, PostExecFacts
  <2> QED
    BY <1>1, <1>2, <1>5, <2>1, ContextAdded
<1>10. ASSUME NEW q \in requests, q.ctx = c PROVE RequestInv(q)'
  <2>1. RequestFits(q, st)
    BY <1>1, <1>10 DEF Linked, RequestInv
  <2>2. Asks(c, q.query, d)
    BY <1>6, <1>10, <2>1 DEF RequestFits, Asks
  <2> QED
    BY <1>2, <1>6, <1>7, <1>9, <1>10, <2>1, <2>2
    DEF RequestInv, RequestFits, Asks, Base, SameProgress
<1>11. ASSUME NEW f \in Fetches, fetches[f].ctx = c PROVE FetchInv(f)'
  <2>1. FetchInv(f) /\ fetches[f] \in FetchType
    BY <1>1 DEF Linked, TypeOK
  <2>2. ASSUME fetches[f].phase # "idle" PROVE Reads(fetches[f], d)
    <3>1. Reads(fetches[f], st)
      BY <1>11, <2>1, <2>2 DEF FetchInv
    <3> QED
      BY <1>1, <1>5, <1>7, <2>1, <3>1, ReadsOn
  <2> QED
    BY <1>2, <1>9, <1>11, <2>1, <2>2 DEF FetchInv
<1>12. contexts' \in Seq(ContextType) /\ requests' \subseteq RequestType /\ Linked'
  <2>1. /\ requests \in SUBSET requests /\ options' = options
        /\ IsMulti(contexts[c]) => IsMulti(d)
        /\ fetches' \in [Fetches -> FetchType]
        /\ \A f \in Fetches : /\ fetches'[f].ctx = fetches[f].ctx
                              /\ fetches'[f] = fetches[f] \/ fetches[f].ctx = c
        /\ \A q \in requests : q.ctx = c => RequestInv(q)'
        /\ \A f \in Fetches : fetches[f].ctx = c => FetchInv(f)'
    BY <1>1, <1>2, <1>7, <1>10, <1>11 DEF TypeOK
  <2> QED
    BY <1>2, <1>3, <1>4, <1>5, <1>8, <2>1, ResultAdded
<1> QED
  BY <1>1, <1>2, <1>12 DEF IInv, TypeOK

-----------------------------------------------------------------------------
(* The specification                                                       *)

\* A step that leaves contexts, requests and fetchRows() calls as they are.
LEMMA LinkedUnchanged ==
    ASSUME Linked, UNCHANGED <<options, contexts, requests, fetches>>
    PROVE  Linked'
<1> USE DEF Linked
<1>1. \A c \in DOMAIN contexts' : ContextInv(c, contexts[c])'
  BY DEF ContextInv, Shape, Own, Base
<1>2. \A r \in requests' : RequestInv(r)'
  BY DEF RequestInv, RequestFits, Asks, Base
<1>3. Unique' /\ \A f \in Fetches : FetchInv(f)'
  BY DEF Unique, FetchInv
<1> QED
  BY <1>1, <1>2, <1>3

LEMMA CancelKeeps ==
    ASSUME IInv,
           \/ \E c \in DOMAIN contexts : cancel(c)
           \/ \E k \in cancels : cancelAnswered(k)
    PROVE  IInv'
<1>1. TypeOK /\ Linked
  BY DEF IInv
<1>2. CASE \E c \in DOMAIN contexts : cancel(c)
  <2>1. PICK c \in DOMAIN contexts : cancel(c)
    BY <1>2
  <2>2. [ctx |-> c, query |-> contexts[c].query] \in [ctx : Nat, query : Nat]
    BY <1>1, ContextTyped DEF ContextType
  <2>3. cancels' \subseteq [ctx : Nat, query : Nat] /\ cancelled' \in 0..MaxCancels
    BY <1>1, <2>1, <2>2, BoundAssumption DEF cancel, TypeOK
  <2>4. UNCHANGED <<options, contexts, requests, fetches, polls, failures>>
    BY <2>1 DEF cancel
  <2> QED
    BY <1>1, <2>3, <2>4, LinkedUnchanged DEF IInv, TypeOK
<1>3. CASE \E k \in cancels : cancelAnswered(k)
  BY <1>1, <1>3, LinkedUnchanged DEF cancelAnswered, IInv, TypeOK
<1> QED
  BY <1>2, <1>3

LEMMA InitIInv == Init => IInv
<1> SUFFICES ASSUME Init PROVE IInv
  OBVIOUS
<1> DEFINE q == IF options.kind = "post" THEN 1 ELSE NoQuery
           st == contexts[1]
           K == {"row", "stage", "file", "post"}
<1>1. /\ options \in Options /\ options.kind \in K /\ options.stream \in BOOLEAN
      /\ options.async \in BOOLEAN /\ options.inline \in BOOLEAN /\ options.results \in Nat
      /\ options.results > 0 => options.kind \in {"row", "stage"}
  BY OptionAssumption DEF Init
<1>2. contexts = <<NewContext(options.kind, options.stream, options.async, options.inline, q, 0)>>
  BY DEF Init
<1>3. q \in Nat
  BY DEF NoQuery
<1>4. NewContext(options.kind, options.stream, options.async, options.inline, q, 0) \in ContextType
  BY <1>1, <1>3, NewContextTypes
<1>5. contexts \in Seq(ContextType) /\ contexts # <<>> /\ DOMAIN contexts = {1}
      /\ st = NewContext(options.kind, options.stream, options.async, options.inline, q, 0)
  BY <1>2, <1>4
<1>6. /\ st.kind = options.kind
      /\ st.bind = (IF options.kind = "stage" THEN "uploading" ELSE "none")
      /\ st.query = q /\ st.result = NoResult /\ st.urls = <<>> /\ st.error = "none"
      /\ st.fetching /\ ~st.moved /\ st.cur = 0 /\ ~st.transfer
      /\ st.aggregate = "no" /\ st.completes = <<>>
  BY <1>5 DEF NewContext
<1>7. ContextInv(1, st)
  <2>1. Once(st)
    <3>1. st.completes # <<"ok">>
      BY <1>6
    <3> QED
      BY <1>6, <3>1 DEF Once
  <2>2. Shape(1, st)
    BY <1>6 DEF Shape, Fresh
  <2>3. Own(1, st)
    BY <1>6 DEF Own, Chunked, HasRows, Base, NoQuery
  <2> QED
    BY <2>1, <2>2, <2>3 DEF ContextInv
<1>8. fetches \in [Fetches -> FetchType] /\ \A f \in Fetches :
          fetches[f].phase = "idle" /\ fetches[f].out = <<>> /\ fetches[f].next = 1
  <2>1. /\ "none" \in Errors \cup {"fetching"} /\ 0 \in 0..Interrupts /\ 0 \in Nat
        /\ 1 \in Nat /\ <<>> \in Seq(Nat \X Nat)
    BY BoundAssumption DEF Errors
  <2>2. [phase |-> "idle", ctx |-> 0, last |-> 0, next |-> 1,
         interrupts |-> 0, err |-> "none", out |-> <<>>] \in FetchType
    BY <2>1, Zenon DEF FetchType
  <2> QED
    BY <2>2 DEF Init
<1>9. \A f \in Fetches : FetchInv(f)
  BY <1>8 DEF FetchInv
<1>10. ASSUME NEW r \in requests
       PROVE  /\ r \in RequestType /\ r.ctx = 1 /\ r.purpose = "execute" /\ r.query = 1
              /\ st.bind # "uploading"
              /\ requests = {r}
  <2>1. options.kind # "stage"
    BY <1>10 DEF Init
  <2>2. st.bind # "uploading" /\ 1 \in Nat /\ "execute" \in {"execute", "stream"} \cup Fetches
    BY <1>6, <2>1
  <2>3. CASE options.kind = "post"
    <3>1. requests = {PostExecRequest(1, st, "execute")}
      BY <2>3 DEF Init
    <3>2. PostExecRequest(1, st, "execute") \in RequestType
      BY <1>4, <1>5, <2>2, RefreshTypes
    <3>3. r = PostExecRequest(1, st, "execute") /\ requests = {r}
      BY <1>10, <3>1
    <3>4. r.ctx = 1 /\ r.purpose = "execute" /\ r.query = 1
      BY <1>6, <2>3, <3>3 DEF PostExecRequest
    <3> QED
      BY <2>2, <3>2, <3>3, <3>4, Zenon
  <2>4. CASE options.kind # "post"
    <3>1. requests = {PreExecRequest(1, st, "execute")}
      BY <2>1, <2>4 DEF Init
    <3>2. PreExecRequest(1, st, "execute") \in RequestType
      BY <1>4, <1>5, <2>2, RefreshTypes
    <3>3. r = PreExecRequest(1, st, "execute") /\ requests = {r}
      BY <1>10, <3>1
    <3>4. r.ctx = 1 /\ r.purpose = "execute" /\ r.query = 1
      BY <3>3 DEF PreExecRequest
    <3> QED
      BY <2>2, <3>2, <3>3, <3>4, Zenon
  <2> QED
    BY <2>3, <2>4
<1>11. ASSUME NEW r \in requests PROVE RequestInv(r)
  <2>1. "execute" \notin Fetches /\ Base \in {1, 2}
    BY BoundAssumption DEF Base
  <2> QED
    BY <1>5, <1>6, <1>10, <2>1 DEF RequestInv, RequestFits, Asks, Fresh
<1>12. Unique
  BY <1>10 DEF Unique
<1>13. requests \subseteq RequestType
  BY <1>10
<1>14. /\ cancels \subseteq [ctx : Nat, query : Nat] /\ polls \in 0..MaxPolls
       /\ failures \in 0..MaxFailures /\ cancelled \in 0..MaxCancels
  BY BoundAssumption DEF Init
<1>15. Linked
  BY <1>5, <1>7, <1>9, <1>11, <1>12 DEF Linked
<1> QED
  BY <1>1, <1>5, <1>8, <1>13, <1>14, <1>15 DEF IInv, TypeOK

LEMMA NextIInv ==
    ASSUME IInv, [Next]_vars
    PROVE  IInv'
<1>1. CASE bindsUploaded
  BY <1>1, BindsKeep DEF bindsUploaded, IInv, TypeOK
<1>2. CASE bindUploadFailed
  <2>1. failures' \in 0..MaxFailures
    BY <1>2, BoundAssumption DEF bindUploadFailed, IInv, TypeOK
  <2>2. contexts' \in Seq(ContextType) /\ requests' \subseteq RequestType /\ Linked'
    BY <1>2, BindsKeep DEF bindUploadFailed
  <2> QED
    BY <1>2, <2>1, <2>2 DEF bindUploadFailed, IInv, TypeOK
<1>3. ASSUME NEW r \in requests, Respond(r) PROVE IInv'
  BY <1>3, InProgressKeeps, RequestAnsweredKeeps, MultiAnsweredKeeps, TransferStartedKeeps,
     RequestFailedKeeps DEF Respond
<1>4. ASSUME NEW ok \in BOOLEAN, transferEnds(ok) PROVE IInv'
  BY <1>4, TransferEndsKeeps
<1>5. ASSUME NEW c \in DOMAIN contexts, Aggregation(c) PROVE IInv'
  BY <1>5, AggregateKeeps, AllRowsReadKeeps, AggregationFailsKeeps DEF Aggregation
<1>6. ASSUME NEW f \in Fetches, Fetching(f) PROVE IInv'
  BY <1>6, ProcessChunkKeeps, DownloadFailsKeeps, EndFetchRowsKeeps DEF Fetching
<1>7. ASSUME NEW f \in Fetches, NEW c \in DOMAIN contexts, NEW last \in Ends,
             fetchRows(f, c, last)
      PROVE  IInv'
  BY <1>7, FetchRowsKeeps
<1>8. ASSUME NEW c \in DOMAIN contexts, cancel(c) \/ NextResult(c) PROVE IInv'
  BY <1>8, CancelKeeps, NextResultKeeps
<1>9. ASSUME NEW k \in cancels, cancelAnswered(k) PROVE IInv'
  BY <1>9, CancelKeeps
<1>10. CASE UNCHANGED vars
  BY <1>10, LinkedUnchanged DEF vars, IInv, TypeOK
<1> QED
  BY <1>1, <1>2, <1>3, <1>4, <1>5, <1>6, <1>7, <1>8, <1>9, <1>10 DEF Next, System

\* The values that statement.js and fetchRows of result.js keep for a statement are of
\* their types in every state.
THEOREM StatementTypes == Spec => []TypeOK
<1>1. IInv => TypeOK
  BY DEF IInv
<1> QED
  BY <1>1, InitIInv, NextIInv, PTL DEF Spec

\* invokeStatementComplete, the aggregation and the refreshes of any number of fetchRows()
\* calls tell complete once at most, and of success only with a result.
THEOREM StatementCompletesOnce == Spec => []CompletesOnce
<1>1. ASSUME IInv PROVE CompletesOnce
  <2>1. ASSUME NEW c \in DOMAIN contexts, ~IsMulti(contexts[c])
        PROVE  /\ Len(contexts[c].completes) <= 1
               /\ contexts[c].completes = <<"ok">> =>
                     contexts[c].result # NoResult \/ contexts[c].async
    <3>1. Once(contexts[c])
      BY <1>1, <2>1 DEF IInv, Linked, ContextInv
    <3>2. contexts[c].completes \in {<<>>, <<"ok">>, <<"error">>}
      BY <3>1 DEF Once
    <3>3. Len(contexts[c].completes) <= 1
      <4>1. Len(<<>>) <= 1 /\ Len(<<"ok">>) <= 1 /\ Len(<<"error">>) <= 1
        OBVIOUS
      <4> QED
        BY <3>2, <4>1, Zenon
    <3> QED
      BY <3>1, <3>3 DEF Once
  <2> QED
    BY <2>1 DEF CompletesOnce
<1> QED
  BY <1>1, InitIInv, NextIInv, PTL DEF Spec

\* The refreshes of a result, by createOnStatementRequestSuccRow and Result.refresh and
\* whichever requests of the context and of other results are in flight, leave the urls
\* of its query where they are: as long as NextResult() has not moved the context on and
\* if no rows came in the response itself, which are the cases with a theorem to state.
THEOREM ResultsKeepTheirUrls == Spec => []RefreshesOwnResult
<1>1. IInv => RefreshesOwnResult
  BY DEF IInv, Linked, ContextInv, Own, Chunked, HasRows, RefreshesOwnResult
<1> QED
  BY <1>1, InitIInv, NextIInv, PTL DEF Spec

\* each() of fetchRows() is given the rows of the result in order and none twice, however
\* often the operation is interrupted and resumed and whoever refreshes the result in
\* between, as long as the chunks have the urls of that result.
THEOREM FetchesRowsOnce == Spec => []RowsOnce
<1>1. ASSUME IInv PROVE RowsOnce
  <2>1. ASSUME NEW f \in Fetches, ~contexts[fetches[f].ctx].moved,
               contexts[fetches[f].ctx].urls = OwnChunks(contexts[fetches[f].ctx]),
               NEW i \in DOMAIN fetches[f].out
        PROVE  fetches[f].out[i] = OwnChunks(contexts[fetches[f].ctx])[i]
    <3>1. FetchInv(f)
      BY <1>1, FetchFacts
    <3>2. fetches[f].phase # "idle"
      <4>1. fetches[f].out # <<>>
        BY <2>1
      <4> QED
        BY <3>1, <4>1 DEF FetchInv
    <3> QED
      BY <2>1, <3>1, <3>2 DEF FetchInv, Reads
  <2> QED
    BY <2>1 DEF RowsOnce
<1> QED
  BY <1>1, InitIInv, NextIInv, PTL DEF Spec
=============================================================================
