------------------------------ MODULE Statement ------------------------------
(***************************************************************************)
(* The life of a statement: lib/connection/statement.js and fetchRows of   *)
(* lib/connection/result/result.js.                                        *)
(*                                                                         *)
(* A call of execute() or fetchResult() makes a statement with a context.  *)
(* The context sends a request, polls while the query is in progress,      *)
(* keeps a result or an error, and invokes the complete callback.  What    *)
(* reads the rows (the aggregation of all rows for complete, and the       *)
(* fetchRows() calls of the application) may find the urls of the result   *)
(* expired or the result missing, and then asks for the result again: any  *)
(* number of requests of one context may be in flight.  A request of       *)
(* several statements makes a context per result, the first when the       *)
(* response comes and the others with NextResult(), which also moves on    *)
(* the query id of the context it is called on.                            *)
(*                                                                         *)
(* Row streams are the subject of RowStreams; here the aggregation of the  *)
(* rows is one that reads them all, fails, or is interrupted.              *)
(***************************************************************************)
EXTENDS Naturals, Sequences, FiniteSets

CONSTANTS
    Options,      \* how the statement may be made: see OptionAssumption
    Chunks,       \* per query: the chunks of its result on S3/Blob, of a row each
    Fetches,      \* the fetchRows() calls
    Ends,         \* how many rows a fetchRows() call asks for
    Handle,       \* the result of an asynchronous execution: a query id only
    Interrupts,   \* parameter resultStreamInterrupts
    MaxPolls,     \* bound: answers that the query is in progress
    MaxFailures,  \* bound: requests, downloads, uploads and transfers that fail
    MaxCancels,   \* bound: cancel() calls
    MaxContexts   \* bound: contexts after which NextResult() is not called

\* The kind of the statement (execute() of a query, with more binds than the
\* threshold, of a PUT or GET; fetchResult()), its streamResult and asyncExec
\* options, the number of results when the text holds several statements, and whether
\* the first rows of a result come in the response itself.
ASSUME OptionAssumption ==
    Options \subseteq {o \in [kind : {"row", "stage", "file", "post"}, stream : BOOLEAN,
                              async : BOOLEAN, results : Nat, inline : BOOLEAN] :
                          /\ o.results > 0 => o.kind \in {"row", "stage"} /\ ~o.async
                          /\ o.kind = "post" => ~o.async}

ASSUME BoundAssumption ==
    /\ Chunks \in Seq(Nat)
    /\ Ends \subseteq Nat
    /\ Handle \notin Nat
    /\ Fetches \cap {"execute", "stream"} = {}
    /\ Interrupts \in Nat
    /\ MaxPolls \in Nat
    /\ MaxFailures \in Nat
    /\ MaxCancels \in Nat
    /\ MaxContexts \in Nat

\* Query 1 is the one that was executed, 1 + k the k-th of its several results.
NoQuery == 0

\* A result is named after its query.
NoResult == 0

Errors == {"none", "fatal", "transient", "other"}

VARIABLES
    options,    \* of the execute() or fetchResult() call
    contexts,   \* the statement contexts, in the order they were made
    requests,   \* requests in flight, of [ctx, purpose, post, query, bind]
    fetches,    \* per fetchRows() call: its FetchRowsOperation
    cancels,    \* cancel requests in flight
    polls,
    failures,
    cancelled   \* cancel() calls so far

vars == <<options, contexts, requests, fetches, cancels, polls, failures, cancelled>>

-----------------------------------------------------------------------------
(* Contexts                                                                *)

\* BaseStatement and the context it is given.  bind says how the binds are sent,
\* transfer whether files are on their way, inline whether the first rows come in the
\* response, urls where each chunk of the result is, cur which of the several results
\* this is, moved whether NextResult() was called on it (only the properties ask that),
\* aggregate where the aggregation of the rows is, and completes collects what complete
\* was told.
NewContext(kind, stream, async, inline, query, cur) ==
    [kind |-> kind, stream |-> stream, async |-> async, inline |-> inline,
     bind |-> IF kind = "stage" THEN "uploading" ELSE "none",
     query |-> query, result |-> NoResult, urls |-> <<>>, error |-> "none",
     fetching |-> TRUE, cur |-> cur, moved |-> FALSE, transfer |-> FALSE,
     aggregate |-> "no", interrupts |-> 0, completes |-> <<>>]

\* createStatementPostExec: complete and streamResult are passed on, asyncExec is not.
PostExecContext(st, k) == NewContext("post", st.stream, FALSE, st.inline, 1 + k, k)

\* sendRequestPreExec: the binds are on a stage, or in the request.
PreExecRequest(c, st, purpose) ==
    [ctx |-> c, purpose |-> purpose, post |-> FALSE, query |-> 1, bind |-> st.bind]

\* sendRequestPostExec
PostExecRequest(c, st, purpose) ==
    [ctx |-> c, purpose |-> purpose, post |-> TRUE, query |-> st.query, bind |-> "none"]

\* Mutant: the result is asked for again with the first of the result ids.
RefreshFirst(c, st, purpose) ==
    [ctx |-> c, purpose |-> purpose, post |-> TRUE,
     query |-> IF st.cur > 0 THEN 2 ELSE 1, bind |-> "none"]

\* The request of context.refresh: by query id if there is one.
RefreshRequest(c, st, purpose) ==
    IF st.query # NoQuery THEN PostExecRequest(c, st, purpose) ELSE PreExecRequest(c, st, purpose)

\* createStatementPreExec and createStatementPostExec
Init ==
    /\ options \in Options
    /\ contexts = <<NewContext(options.kind, options.stream, options.async, options.inline,
                               IF options.kind = "post" THEN 1 ELSE NoQuery, 0)>>
    /\ requests = CASE options.kind = "stage" -> {}
                    [] options.kind = "post"  -> {PostExecRequest(1, contexts[1], "execute")}
                    [] OTHER                  -> {PreExecRequest(1, contexts[1], "execute")}
    /\ fetches = [f \in Fetches |->
                     [phase |-> "idle", ctx |-> 0, last |-> 0, next |-> 1,
                      interrupts |-> 0, err |-> "none", out |-> <<>>]]
    /\ cancels = {}
    /\ polls = 0
    /\ failures = 0
    /\ cancelled = 0

-----------------------------------------------------------------------------
(* Array binds                                                             *)

\* StageBindingRequest, when the binds are on the stage: a row statement on the same
\* context.
bindsUploaded ==
    /\ contexts[1].bind = "uploading"
    /\ contexts' = [contexts EXCEPT ![1].bind = "stage"]
    /\ requests' = requests \cup {PreExecRequest(1, contexts'[1], "execute")}
    /\ UNCHANGED <<options, fetches, cancels, polls, failures, cancelled>>

\* When the upload fails the binds go with the request.
bindUploadFailed ==
    /\ contexts[1].bind = "uploading"
    /\ failures < MaxFailures
    /\ failures' = failures + 1
    /\ contexts' = [contexts EXCEPT ![1].bind = "inline"]
    /\ requests' = requests \cup {PreExecRequest(1, contexts'[1], "execute")}
    /\ UNCHANGED <<options, fetches, cancels, polls, cancelled>>

-----------------------------------------------------------------------------
(* Responses                                                               *)

\* Mutant: complete is not told of an error.
CompleteIfOk(st) ==
    IF st.stream
    THEN [st EXCEPT !.completes = IF st.error = "none" THEN Append(@, "ok") ELSE @]
    ELSE IF st.async
         THEN [st EXCEPT !.completes = Append(@, "ok")]
         ELSE [st EXCEPT !.aggregate = "due"]

\* invokeStatementComplete: an asynchronous execution gives its result whatever the
\* error; without streaming all rows are read first, from the next tick on.
invokeStatementComplete(st) ==
    IF st.stream
    THEN [st EXCEPT !.completes = Append(@, IF st.error = "none" THEN "ok" ELSE "error")]
    ELSE IF st.async
         THEN [st EXCEPT !.completes = Append(@, "ok")]
         ELSE [st EXCEPT !.aggregate = "due"]

\* Mutant: only a result tells that complete was invoked.
CompleteUnlessResult(before, after) ==
    LET done == [after EXCEPT !.fetching = FALSE]
    IN  IF before.result # NoResult THEN done ELSE invokeStatementComplete(done)

\* The end of onStatementRequestComp: complete is invoked unless there was a result
\* or an error before.
onStatementRequestComp(before, after) ==
    LET done == [after EXCEPT !.fetching = FALSE]
    IN  IF before.result # NoResult \/ before.error # "none"
        THEN done
        ELSE invokeStatementComplete(done)

\* The urls in the response with the result of query q.  A url is named after its query
\* and its place among those.
UrlsOf(q) == IF q \in DOMAIN Chunks THEN [k \in 1 .. Chunks[q] |-> <<q, k>>] ELSE <<>>

\* createChunks: rows in the response itself are a chunk before the others, with no
\* url.  What a transfer has to say is not in chunks.
CreateChunks(st, q) ==
    CASE st.kind = "file"               -> <<>>
      [] st.kind # "file" /\ st.inline  -> <<<<q, 0>>>> \o UrlsOf(q)
      [] OTHER                          -> UrlsOf(q)

HasUrl(u) == u[2] # 0

\* Result.refresh: the chunks are given the urls of the response one by one.  When
\* there are not enough of them, or the result is a handle, that is a TypeError in
\* mid-way, which onStatementRequestComp makes the error of the context.
Refresh(st, q, urls) ==
    LET enough == st.result # Handle /\ Len(st.urls) <= Len(urls)
    IN  [st EXCEPT !.query = q,
                   !.error = IF enough THEN "none" ELSE "other",
                   !.urls  = [k \in DOMAIN @ |-> IF k \in DOMAIN urls THEN urls[k] ELSE @[k]]]

\* createOnStatementRequestSuccRow for a response with rows: a new result, or new
\* urls for the one there is.
ResultFor(st, q, urls) ==
    IF st.result = NoResult
    THEN [st EXCEPT !.query = q, !.error = "none", !.result = q, !.urls = CreateChunks(st, q)]
    ELSE Refresh(st, q, urls)

\* RowStream's close with an error.
FailAggregation(st) ==
    [st EXCEPT !.aggregate = "done", !.completes = Append(@, "error")]

\* What the aggregation does after its request: RowStream's init, or its
\* continueCallback unless there is an error.
ResumeAggregation(st) ==
    CASE st.result # NoResult /\ (st.aggregate = "refreshing" \/ st.error = "none") ->
            [st EXCEPT !.aggregate = "reading"]
      [] st.result = NoResult /\ st.error = "none" ->
            [st EXCEPT !.aggregate = "done", !.completes = Append(@, "ok")]
      [] OTHER -> FailAggregation(st)

\* The chunk with the last row that is asked for and that there is.
LastChunk(op, st) == IF op.last <= Len(st.urls) THEN op.last ELSE Len(st.urls)

\* fetchRowsFromResult: a TypeError without a result.
FetchFromResult(op, st) ==
    [op EXCEPT !.phase = CASE st.result \in {NoResult, Handle} -> "threw"
                           [] st.result \notin {NoResult, Handle} /\ LastChunk(op, st) = 0 -> "ending"
                           [] OTHER -> "reading"]

\* The callback of a fetchRows() request.  A refresh gives up if there is an error.
\* An interrupted operation goes on where it was unless the request has failed, and
\* then does nothing.
ResumeFetch(op, st, failed) ==
    IF op.phase = "interrupted"
    THEN [op EXCEPT !.phase = IF failed THEN "stuck" ELSE "reading"]
    ELSE IF st.error # "none" THEN [op EXCEPT !.phase = "ending"] ELSE FetchFromResult(op, st)

\* The callback of request r after the context was brought to st.
Continue(r, st, failed) ==
    /\ contexts' = [contexts EXCEPT ![r.ctx] =
                        IF r.purpose = "stream" THEN ResumeAggregation(st) ELSE st]
    /\ fetches' = IF r.purpose \notin Fetches THEN fetches
                  ELSE [fetches EXCEPT ![r.purpose] = ResumeFetch(@, st, failed)]
    /\ requests' = requests \ {r}

\* buildResultRequestCallback: the query is in progress, and its result is asked for
\* again at the url of the response; an asynchronous execution is given a handle, or
\* what it has is refreshed from a response that names no chunks.
inProgress(r) ==
    LET st == contexts[r.ctx]
    IN  /\ polls < MaxPolls
        /\ polls' = polls + 1
        /\ \/ /\ ~st.async
              /\ contexts' = [contexts EXCEPT ![r.ctx].query = r.query]
              /\ requests' = (requests \ {r}) \cup {[r EXCEPT !.post = TRUE]}
              /\ UNCHANGED fetches
           \/ /\ st.async
              /\ Continue(r, onStatementRequestComp(st,
                     IF st.result # NoResult THEN Refresh(st, r.query, <<>>)
                     ELSE [st EXCEPT !.query = r.query, !.error = "none", !.result = Handle]),
                 FALSE)
        /\ UNCHANGED <<options, cancels, failures, cancelled>>

\* A response with the rows, or where they are; when there is a result, also one that
\* names several results and no urls.
requestAnswered(r) ==
    LET st   == contexts[r.ctx]
        urls == IF r.query = 1 /\ options.results > 0 THEN <<>> ELSE UrlsOf(r.query)
    IN  /\ st.kind # "file"
        /\ r.query > 1 \/ options.results = 0 \/ st.result # NoResult
        /\ Continue(r, onStatementRequestComp(st, ResultFor(st, r.query, urls)), FALSE)
        /\ UNCHANGED <<options, cancels, polls, failures, cancelled>>

\* A response that names the results of several statements: the context goes on
\* without a result, and a context is made for the first of them.
multiAnswered(r) ==
    LET st  == contexts[r.ctx]
        new == onStatementRequestComp(st, [st EXCEPT !.query = 2, !.error = "none", !.cur = 1])
    IN  /\ r.query = 1
        /\ options.results > 0
        /\ st.result = NoResult
        /\ contexts' = Append([contexts EXCEPT ![r.ctx] =
                                  IF r.purpose = "stream" THEN ResumeAggregation(new) ELSE new],
                              PostExecContext(st, 1))
        /\ requests' = (requests \ {r}) \cup
               {PostExecRequest(Len(contexts'), contexts'[Len(contexts')], "execute")}
        /\ fetches' = IF r.purpose \notin Fetches THEN fetches
                      ELSE [fetches EXCEPT ![r.purpose] = ResumeFetch(@, new, FALSE)]
        /\ UNCHANGED <<options, cancels, polls, failures, cancelled>>

\* The files of a PUT or GET are transferred before the statement is complete.
transferStarted(r) ==
    /\ contexts[r.ctx].kind = "file"
    /\ contexts' = [contexts EXCEPT ![r.ctx].query = r.query, ![r.ctx].transfer = TRUE]
    /\ requests' = requests \ {r}
    /\ UNCHANGED <<options, fetches, cancels, polls, failures, cancelled>>

\* executeFileTransferRequest: the outcome of the transfer becomes the result, or an
\* exception the error.
transferEnds(ok) ==
    LET st == contexts[1]
    IN  /\ st.transfer
        /\ failures' = IF ok THEN failures ELSE failures + 1
        /\ failures' <= MaxFailures
        /\ contexts' = [contexts EXCEPT ![1] =
               onStatementRequestComp(st, [(IF ok THEN ResultFor(st, st.query, <<>>)
                                            ELSE [st EXCEPT !.error = "other"])
                                          EXCEPT !.transfer = FALSE])]
        /\ UNCHANGED <<options, requests, fetches, cancels, polls, cancelled>>

\* A request fails, with an error of the query that has a SQL state or another one.
\* The former brings the query id along.
requestFailed(r, e) ==
    LET st == contexts[r.ctx]
    IN  /\ failures < MaxFailures
        /\ failures' = failures + 1
        /\ Continue(r, onStatementRequestComp(st,
                          [st EXCEPT !.error = e,
                                     !.query = IF @ = NoQuery /\ e = "fatal" THEN r.query ELSE @]),
                    TRUE)
        /\ UNCHANGED <<options, cancels, polls, cancelled>>

-----------------------------------------------------------------------------
(* Aggregation of the rows for complete                                    *)

\* RowStream's first _read(): with a fatal error the stream fails, with another one
\* it asks for the result again; a statement with several results is left alone.
aggregate(c) ==
    LET st    == contexts[c]
        fatal == st.error = "fatal" \/ (st.kind = "file" /\ st.error # "none")
    IN  /\ st.aggregate = "due"
        /\ \/ /\ st.result # NoResult
              /\ contexts' = [contexts EXCEPT ![c].aggregate = "reading"]
              /\ UNCHANGED requests
           \/ /\ st.result = NoResult /\ fatal
              /\ contexts' = [contexts EXCEPT ![c] = FailAggregation(st)]
              /\ UNCHANGED requests
           \/ /\ st.result = NoResult /\ ~fatal
              /\ contexts' = [contexts EXCEPT ![c].aggregate =
                                 IF st.cur > 0 THEN "idle" ELSE "refreshing"]
              /\ requests' = IF st.cur > 0 THEN requests
                             ELSE requests \cup {RefreshRequest(c, st, "stream")}
        /\ UNCHANGED <<options, fetches, cancels, polls, failures, cancelled>>

\* All rows were read.
allRowsRead(c) ==
    /\ contexts[c].aggregate = "reading"
    /\ contexts' = [contexts EXCEPT ![c].aggregate = "done",
                                    ![c].completes = Append(@, "ok")]
    /\ UNCHANGED <<options, requests, fetches, cancels, polls, failures, cancelled>>

\* A download failed; an expired url is renewed a number of times.
aggregationFails(c, expired) ==
    LET st == contexts[c]
    IN  /\ st.aggregate = "reading"
        /\ \E k \in DOMAIN st.urls : HasUrl(st.urls[k])
        /\ failures < MaxFailures
        /\ failures' = failures + 1
        /\ IF expired /\ st.interrupts < Interrupts
           THEN /\ contexts' = [contexts EXCEPT ![c].aggregate = "interrupted",
                                                ![c].interrupts = @ + 1]
                /\ requests' = requests \cup {RefreshRequest(c, st, "stream")}
           ELSE /\ contexts' = [contexts EXCEPT ![c] = FailAggregation(st)]
                /\ UNCHANGED requests
        /\ UNCHANGED <<options, fetches, cancels, polls, cancelled>>

-----------------------------------------------------------------------------
(* fetchRows()                                                             *)

\* The application reads the rows of a statement.
fetchRows(f, c, last) ==
    LET st    == contexts[c]
        op    == [fetches[f] EXCEPT !.ctx = c, !.last = last]
        \* the result is asked for again unless the query itself has failed
        again == st.error \in {"transient", "other"}
        phase == CASE st.fetching \/ st.error = "fatal"   -> "ending"
                   [] ~st.fetching /\ again               -> "refreshing"
                   [] OTHER                               -> FetchFromResult(op, st).phase
    IN  /\ fetches[f].phase = "idle"
        /\ st.kind # "file"
        /\ fetches' = [fetches EXCEPT ![f] =
               [op EXCEPT !.phase = phase, !.err = IF st.fetching THEN "fetching" ELSE "none"]]
        /\ requests' = IF phase = "refreshing" THEN requests \cup {RefreshRequest(c, st, f)}
                       ELSE requests
        /\ UNCHANGED <<options, contexts, cancels, polls, failures, cancelled>>

\* processChunk: each() is given the row of the next chunk, which was downloaded from
\* the url that the chunk has now or had at first, and may stop the operation.
processChunk(f, stop) ==
    LET op == fetches[f]
        st == contexts[op.ctx]
    IN  /\ op.phase = "reading"
        /\ \E row \in {st.urls[op.next], CreateChunks(st, st.result)[op.next]} :
              fetches' = [fetches EXCEPT ![f] =
                 [op EXCEPT !.out = Append(@, row), !.next = @ + 1,
                            !.phase = IF stop \/ op.next = LastChunk(op, st) THEN "ending" ELSE @]]
        /\ UNCHANGED <<options, contexts, requests, cancels, polls, failures, cancelled>>

\* Mutant: the ResultStream has moved on when a load fails.
InterruptAfter(op) == [op EXCEPT !.phase = "interrupted", !.interrupts = @ + 1, !.next = @ + 1]

\* The operation waits for new urls.  Its ResultStream stays where it is.
Interrupt(op) == [op EXCEPT !.phase = "interrupted", !.interrupts = @ + 1]

\* The ResultStream closes with an error: fetchRowsFromResult asks for new urls, or
\* ends the operation as if there had been no error.
downloadFails(f, expired) ==
    LET op == fetches[f]
        st == contexts[op.ctx]
    IN  /\ op.phase = "reading"
        /\ HasUrl(st.urls[op.next])
        /\ failures < MaxFailures
        /\ failures' = failures + 1
        /\ IF expired /\ op.interrupts < Interrupts
           THEN /\ fetches' = [fetches EXCEPT ![f] = Interrupt(@)]
                /\ requests' = requests \cup {PostExecRequest(op.ctx, st, f)}
           ELSE /\ fetches' = [fetches EXCEPT ![f].phase = "ending"]
                /\ UNCHANGED requests
        /\ UNCHANGED <<options, contexts, cancels, polls, cancelled>>

\* end() on the next tick: with an error of its own, or that of the context.
endFetchRows(f) ==
    /\ fetches[f].phase = "ending"
    /\ fetches' = [fetches EXCEPT ![f].phase = "ended",
                       ![f].err = IF @ = "fetching" THEN @ ELSE contexts[fetches[f].ctx].error]
    /\ UNCHANGED <<options, contexts, requests, cancels, polls, failures, cancelled>>

-----------------------------------------------------------------------------
(* cancel() and NextResult()                                               *)

\* sendCancelStatement: by query id if it is known, else by request id.
cancel(c) ==
    /\ cancelled < MaxCancels
    /\ cancelled' = cancelled + 1
    /\ cancels' = cancels \cup {[ctx |-> c, query |-> contexts[c].query]}
    /\ UNCHANGED <<options, contexts, requests, fetches, polls, failures>>

\* The answer, whatever it is, is passed to the callback.
cancelAnswered(k) ==
    /\ cancels' = cancels \ {k}
    /\ UNCHANGED <<options, contexts, requests, fetches, polls, failures, cancelled>>

hasNextResult(st) == st.cur > 0 /\ st.cur < options.results

\* createNextReuslt, called after hasNext() as in the tests: it moves the context on to
\* the next query, whatever its rows and its requests are at.
NextResult(c) ==
    LET st == contexts[c]
    IN  /\ hasNextResult(st)
        /\ Len(contexts) < MaxContexts
        /\ contexts' = Append([contexts EXCEPT ![c].cur = @ + 1, ![c].query = st.cur + 2,
                                               ![c].moved = TRUE],
                              PostExecContext(st, st.cur + 1))
        /\ requests' = requests \cup
               {PostExecRequest(Len(contexts'), contexts'[Len(contexts')], "execute")}
        /\ UNCHANGED <<options, fetches, cancels, polls, failures, cancelled>>

Respond(r) ==
    \/ inProgress(r)
    \/ requestAnswered(r)
    \/ multiAnswered(r)
    \/ transferStarted(r)
    \/ \E e \in {"fatal", "transient"} : requestFailed(r, e)

Aggregation(c) ==
    \/ aggregate(c)
    \/ allRowsRead(c)
    \/ \E expired \in BOOLEAN : aggregationFails(c, expired)

Fetching(f) ==
    \/ \E stop \in BOOLEAN : processChunk(f, stop)
    \/ \E expired \in BOOLEAN : downloadFails(f, expired)
    \/ endFetchRows(f)

System ==
    \/ bindsUploaded \/ bindUploadFailed
    \/ \E r \in requests : Respond(r)
    \/ \E ok \in BOOLEAN : transferEnds(ok)
    \/ \E c \in DOMAIN contexts : Aggregation(c)
    \/ \E f \in Fetches : Fetching(f)
    \/ \E k \in cancels : cancelAnswered(k)

Next ==
    \/ System
    \/ \E f \in Fetches, c \in DOMAIN contexts, last \in Ends : fetchRows(f, c, last)
    \/ \E c \in DOMAIN contexts : cancel(c) \/ NextResult(c)

Spec == Init /\ [][Next]_vars

\* The service answers or fails every request (its own retries are bounded), and the
\* event loop runs what is due; the application need not do anything.
FairSpec == Spec /\ WF_vars(System)

-----------------------------------------------------------------------------
ContextType ==
    [kind : {"row", "stage", "file", "post"}, stream : BOOLEAN, async : BOOLEAN, inline : BOOLEAN,
     bind : {"none", "uploading", "stage", "inline"},
     query : Nat, result : Nat \cup {Handle},
     urls : Seq(Nat \X Nat), error : Errors, fetching : BOOLEAN, cur : Nat, moved : BOOLEAN,
     transfer : BOOLEAN,
     aggregate : {"no", "due", "idle", "refreshing", "reading", "interrupted", "done"},
     interrupts : 0..Interrupts, completes : Seq({"ok", "error"})]

RequestType ==
    [ctx : Nat, purpose : {"execute", "stream"} \cup Fetches, post : BOOLEAN, query : Nat,
     bind : {"none", "stage", "inline"}]

FetchType ==
    [phase : {"idle", "refreshing", "reading", "interrupted", "ending", "ended", "stuck", "threw"},
     ctx : Nat, last : Nat, next : Nat, interrupts : 0..Interrupts,
     err : Errors \cup {"fetching"}, out : Seq(Nat \X Nat)]

TypeOK ==
    /\ options \in Options
    /\ contexts \in Seq(ContextType)
    /\ requests \subseteq RequestType
    /\ fetches \in [Fetches -> FetchType]
    /\ cancels \subseteq [ctx : Nat, query : Nat]
    /\ polls \in 0..MaxPolls
    /\ failures \in 0..MaxFailures
    /\ cancelled \in 0..MaxCancels

\* The context that was answered with several results: it never has one itself.
IsMulti(st) == st.kind # "post" /\ st.cur > 0

\* However often its result is asked for again, and by whom, a statement with a result
\* of its own invokes the complete callback at most once; and without an error only if
\* it has that result, but for an asynchronous execution, whose errors are not passed
\* on.
CompletesOnce ==
    \A c \in DOMAIN contexts :
        LET st == contexts[c]
        IN  \/ IsMulti(st)
            \/ /\ Len(st.completes) <= 1
               /\ st.completes = <<"ok">> => st.result # NoResult \/ st.async

\* The result a context has, if it has one to read.
OwnChunks(st) == CreateChunks(st, st.result)

\* However often a result is refreshed, by whom and after which failures, each of its
\* chunks keeps the url of its own rows.  Left out are a context that NextResult() was
\* called on, whose query is another one since, and results with rows in the response
\* itself, whose urls are shifted by the first refresh: see RowsOfItsResult and
\* UrlsStayInPlace.
RefreshesOwnResult ==
    \A c \in DOMAIN contexts :
        LET st == contexts[c]
        IN  st.result \in {NoResult, Handle} \/ st.moved \/ st.inline \/ st.urls = OwnChunks(st)

\* As long as the urls are those of the result, each() is given its rows in order, from
\* the first, none twice and none left out: also when the operation was interrupted,
\* the result refreshed (for it or for another reader) and the operation continued.
RowsOnce ==
    \A f \in Fetches :
        LET st == contexts[fetches[f].ctx]
        IN  fetches[f].ctx # 0 /\ ~st.moved /\ st.urls = OwnChunks(st) =>
                \A i \in DOMAIN fetches[f].out : fetches[f].out[i] = OwnChunks(st)[i]

\* What the comment on fetchRows says: "Fetches the rows in this statement's result and
\* invokes the each() callback on each row."
RowsOfItsResult ==
    \A f \in Fetches : \A i \in DOMAIN fetches[f].out :
        fetches[f].out[i][1] = contexts[fetches[f].ctx].result

\* What the comment on refresh says: "Refreshes the result by updating the chunk urls."
\* A chunk with a url of its own keeps that of its rows.
UrlsStayInPlace ==
    \A c \in DOMAIN contexts :
        LET st == contexts[c]
        IN  \A k \in DOMAIN st.urls : HasUrl(OwnChunks(st)[k]) => st.urls[k] = OwnChunks(st)[k]

\* Every statement completes: again and again, none is left that has not.  Left out is
\* the aggregation for a request of several statements while there is no result, for
\* the request itself or for one of its results when asking for it has failed: the
\* stream does nothing then.
EveryStatementCompletes ==
    []<>(\A c \in DOMAIN contexts :
            contexts[c].completes # <<>> \/ contexts[c].aggregate = "idle")

\* What the comment on fetchRows says: "The end() callback will be invoked when either
\* all the requested rows have been successfully processed, or if an error was
\* encountered while trying to fetch the requested rows."
EveryFetchEnds ==
    \A f \in Fetches : (fetches[f].phase = "reading") ~> (fetches[f].phase = "ended")
=============================================================================
