----------------------------- MODULE RowStreams -----------------------------
(***************************************************************************)
(* Streaming the rows of one statement: RowStream, ResultStream, Chunk and *)
(* Result of lib/connection/result, and the parts of statement.js and      *)
(* large_result_set.js they use.                                           *)
(*                                                                         *)
(* The rows of a result are 0..Returned-1.  Some may come inline with the  *)
(* response, the others in chunks that are downloaded from urls, with the  *)
(* next few prefetched.  Every streamRows() call makes a stream of its     *)
(* own; all streams of a statement share its chunks, and a chunk's rows    *)
(* are dropped by the stream that has moved on to the next one.            *)
(*                                                                         *)
(* pending holds the callbacks that run before anything else happens: the  *)
(* listeners of an event just emitted, then those of process.nextTick, in  *)
(* order.  Responses are only handled when it is empty; the application,   *)
(* which also runs between callbacks, may read at any time.                *)
(***************************************************************************)
EXTENDS Integers, FiniteSets, FiniteSetsExt, SequencesExt

CONSTANTS
    Streams,           \* the streamRows() calls
    Scenarios,         \* what is streamed how: see ScenarioAssumption
    RemoteRows,        \* rows of each chunk on S3/Blob, as a sequence
    PrefetchSize,      \* parameter resultPrefetch
    StreamInterrupts,  \* parameter resultStreamInterrupts
    Outcomes,          \* how the statement may complete
    MaxFailures        \* bound: downloads and refreshes that fail

ASSUME ResultAssumption ==
    /\ RemoteRows \in Seq(Nat \ {0})
    /\ PrefetchSize \in Nat
    /\ StreamInterrupts \in Nat
    /\ Outcomes \subseteq {"ok", "transient", "fatal"}
    /\ MaxFailures \in Nat

\* The streams that are read, the [start, end] options of streamRows(), the number of
\* rows in the response itself, and what may fail: a download that is answered 403 or
\* fails otherwise, and a refresh.  A window is asked for with its start first; what
\* the search for its chunks makes of any other is the subject of ChunkSearch.
ASSUME ScenarioAssumption ==
    \A sc \in Scenarios : /\ sc.streams \subseteq Streams
                          /\ \A w \in sc.windows : w \in [start : Int, end : Int] /\ w.start <= w.end
                          /\ sc.inline \in Nat
                          /\ sc.faults \subseteq {"forbidden", "other", "refresh"}

\* A url or the rows of a chunk are named after the chunk they belong to; there is
\* no chunk 0.
None == 0

VARIABLES
    scenario,    \* one of Scenarios
    statement,   \* fetching, or how it has completed
    url,         \* per chunk: its url
    rows,        \* per chunk: the rows it holds
    fetch,       \* per chunk: the url that is being downloaded
    completing,  \* chunks that were loaded already and complete on the next tick
    listeners,   \* per chunk: the streams that wait for its loadcomplete event
    onComplete,  \* the streams that wait for the statement-complete event
    pending,     \* callbacks due to run
    stream,      \* per stream: the variables of its RowStream and ResultStream
    failures,    \* downloads and refreshes that have failed
    crashed      \* a callback of the event loop has thrown

\* The inline rows are the first chunk, if there are any.
Shift  == IF scenario.inline > 0 THEN 1 ELSE 0
Chunks == 1..(Len(RemoteRows) + Shift)

RowCount(k) == IF k <= Shift THEN scenario.inline ELSE RemoteRows[k - Shift]

\* The rows in the chunks before the i-th remote one.
RowsBefore[i \in 1..(Len(RemoteRows) + 1)] == IF i <= 1 THEN 0 ELSE RowsBefore[i - 1] + RemoteRows[i - 1]

StartIndex(k) == IF k <= Shift THEN 0 ELSE scenario.inline + RowsBefore[k - Shift]
EndIndex(k)   == StartIndex(k) + RowCount(k) - 1

Returned == StartIndex(Len(RemoteRows) + Shift + 1)

\* The rows from a to b, in order.
RowsFrom(a, b) == [i \in 1..(b - a + 1) |-> a + i - 1]

chunkVars == <<url, rows, fetch, completing, listeners>>
vars == <<scenario, statement, chunkVars, onComplete, pending, stream, failures, crashed>>

\* A new stream: phase tells whether a _read() is to be answered, buffer and index
\* are rowBuffer (empty for null) and rowIndex, current is currChunk, previous is
\* previousChunk, refreshing says what a refresh request is for, and out collects
\* the rows that were pushed.
NewStream(w) ==
    [phase |-> "idle", window |-> w, initialized |-> FALSE, current |-> None,
     buffer |-> <<>>, index |-> 0, previous |-> None, interrupts |-> 0,
     refreshing |-> "no", out |-> <<>>]

\* Callbacks
CompleteLoad(k)  == [fn |-> "completeLoad", chunk |-> k]
OnData(s, k)     == [fn |-> "onResultStreamData", stream |-> s, chunk |-> k]
OnClose(s, err)  == [fn |-> "onResultStreamClose", stream |-> s, err |-> err]
PushRows(s, row) == [fn |-> "pushRows", stream |-> s, row |-> row]
InitStream(s)    == [fn |-> "init", stream |-> s]

\* After an exception nothing more is said of the program.
Due(fn) == ~crashed /\ pending # <<>> /\ Head(pending).fn = fn
Quiet   == ~crashed /\ pending = <<>>

Init ==
    /\ scenario \in Scenarios
    /\ statement = "fetching"
    /\ url = [k \in Chunks |-> IF k <= Shift THEN None ELSE k]
    /\ rows = [k \in Chunks |-> IF k <= Shift THEN k ELSE None]
    /\ fetch = [k \in Chunks |-> None]
    /\ completing = {}
    /\ listeners = [k \in Chunks |-> <<>>]
    /\ onComplete = <<>>
    /\ pending = <<>>
    /\ stream \in [scenario.streams -> {NewStream(w) : w \in scenario.windows}]
    /\ failures = 0
    /\ crashed = FALSE

-----------------------------------------------------------------------------
(* Chunk and ResultStream                                                  *)

\* Chunk.overlapsWithWindow
overlapsWithWindow(k, w) ==
    \/ w.end \in StartIndex(k)..EndIndex(k)
    \/ w.start \in StartIndex(k)..EndIndex(k)
    \/ w.start <= StartIndex(k) /\ w.end >= EndIndex(k)

Overlapping(w) == {k \in Chunks : overlapsWithWindow(k, w)}

\* Mutant: a chunk that is being prefetched is not waited for.
SubscribeUnlessLoading(s, k) ==
    IF fetch[k] # None THEN listeners ELSE [listeners EXCEPT ![k] = Append(@, s)]

\* The stream will hear of the end of the chunk's load, whoever has started it.
Subscribe(s, k) == [listeners EXCEPT ![k] = Append(@, s)]

\* ResultStream's doLoad for the stream state st, after the callbacks q: unless they
\* are loading, it loads the current chunk and the next ones, in order.  A chunk that
\* has its rows completes its load on the next tick.
doLoad(s, st, q) ==
    LET overlapping == Overlapping(st.window)
        load == {k \in overlapping \cap (st.current .. st.current + PrefetchSize) :
                      fetch[k] = None /\ k \notin completing}
        loaded == {k \in load : rows[k] # None}
    IN  \/ /\ st.current \notin overlapping
           /\ pending' = Append(q, OnClose(s, "none"))
           /\ UNCHANGED <<fetch, completing, listeners>>
        \/ /\ st.current \in overlapping
           /\ listeners' = Subscribe(s, st.current)
           /\ fetch' = [k \in Chunks |-> IF k \in load \ loaded THEN url[k] ELSE fetch[k]]
           /\ completing' = completing \cup loaded
           /\ \E ks \in [1..Cardinality(loaded) -> loaded] :
                 /\ \A i, j \in DOMAIN ks : i < j => ks[i] < ks[j]
                 /\ pending' = q \o [i \in DOMAIN ks |-> CompleteLoad(ks[i])]

\* A listener of a chunk's loadcomplete event unsubscribes when it is run.
Unsubscribe(k) == [listeners EXCEPT ![k] = <<>>]

\* The listeners of a chunk's loadcomplete event run at once, in order.
Emit(k, err) ==
    [i \in DOMAIN listeners[k] |->
        IF err = "none" THEN OnData(listeners[k][i], k) ELSE OnClose(listeners[k][i], err)]

\* The tick of a chunk that was loaded already.
completeLoad ==
    /\ Due("completeLoad")
    /\ LET k == Head(pending).chunk
       IN  /\ completing' = completing \ {k}
           /\ listeners' = Unsubscribe(k)
           /\ pending' = Emit(k, "none") \o Tail(pending)
    /\ UNCHANGED <<statement, url, rows, fetch, onComplete, stream, failures, crashed>>

\* S3/Blob's response, after the retries of getObject.
chunkArrives(k) ==
    /\ Quiet
    /\ fetch[k] # None
    /\ rows' = [rows EXCEPT ![k] = fetch[k]]
    /\ fetch' = [fetch EXCEPT ![k] = None]
    /\ listeners' = Unsubscribe(k)
    /\ pending' = Emit(k, "none")
    /\ UNCHANGED <<statement, url, completing, onComplete, stream, failures, crashed>>

chunkFails(k, err) ==
    /\ Quiet
    /\ fetch[k] # None
    /\ failures < MaxFailures
    /\ failures' = failures + 1
    /\ fetch' = [fetch EXCEPT ![k] = None]
    /\ listeners' = Unsubscribe(k)
    /\ pending' = Emit(k, err)
    /\ UNCHANGED <<statement, url, rows, completing, onComplete, stream, crashed>>

-----------------------------------------------------------------------------
(* RowStream                                                               *)

\* Chunk.clearRows: rows without a url stay.
ClearRows(k, u) == [c \in Chunks |-> IF c = k /\ u[c] # None THEN None ELSE rows[c]]

\* processRowBuffer takes a row, and a tick later pushes it and what follows it.
processRowBuffer(s, st, q) ==
    LET last == st.index + 1 >= Len(st.buffer)
        row  == IF st.buffer = <<>> THEN <<>> ELSE <<st.buffer[st.index + 1]>>
    IN  /\ stream' = [stream EXCEPT ![s] =
                         [st EXCEPT !.buffer = IF last THEN <<>> ELSE @,
                                    !.index  = IF last THEN 0 ELSE @ + 1]]
        /\ pending' = Append(q, PushRows(s, row))

\* The tick: push() may return false after any row.  The index was moved past the
\* row already, so it goes back by one.
pushRows ==
    /\ Due("pushRows")
    /\ LET s  == Head(pending).stream
           st == stream[s]
       IN  \/ /\ st.buffer # <<>> /\ st.index > 0
              /\ \E n \in st.index..Len(st.buffer) :
                    stream' = [stream EXCEPT ![s] =
                        [st EXCEPT !.phase  = "idle",
                                   !.buffer = IF n = Len(@) THEN <<>> ELSE @,
                                   !.index  = IF n = Len(st.buffer) THEN 0 ELSE n,
                                   !.out    = @ \o SubSeq(st.buffer, st.index, n)]]
           \/ /\ ~ (st.buffer # <<>> /\ st.index > 0)
              /\ stream' = [stream EXCEPT
                               ![s].phase = IF Head(pending).row = <<>> THEN @ ELSE "idle",
                               ![s].out = @ \o Head(pending).row]
    /\ pending' = Tail(pending)
    /\ UNCHANGED <<statement, chunkVars, onComplete, failures, crashed>>

\* readNextRow: the rest of the row buffer, or the next chunk.
readNextRow(s, st, q) ==
    \/ /\ st.buffer # <<>>
       /\ processRowBuffer(s, st, q)
       /\ UNCHANGED <<fetch, completing, listeners>>
    \/ /\ st.buffer = <<>>
       /\ stream' = [stream EXCEPT ![s] = st]
       /\ doLoad(s, st, q)

\* The application wants a row: _read().
read(s) ==
    LET st == [stream[s] EXCEPT !.phase = "waiting"]
    IN  /\ ~crashed
        /\ stream[s].phase = "idle"
        /\ \/ /\ st.initialized
              /\ readNextRow(s, st, pending)
              /\ UNCHANGED onComplete
           \/ /\ ~st.initialized /\ statement = "fetching"
              /\ onComplete' = Append(onComplete, s)
              /\ stream' = [stream EXCEPT ![s] = st]
              /\ UNCHANGED <<fetch, completing, listeners, pending>>
           \/ /\ ~st.initialized /\ statement \in {"ok", "fatal"}
              /\ pending' = Append(pending, InitStream(s))
              /\ stream' = [stream EXCEPT ![s] = st]
              /\ UNCHANGED <<fetch, completing, listeners, onComplete>>
           \/ /\ ~st.initialized /\ statement = "transient"
              /\ stream' = [stream EXCEPT ![s] = [st EXCEPT !.refreshing = "init"]]
              /\ UNCHANGED <<fetch, completing, listeners, onComplete, pending>>
        /\ UNCHANGED <<statement, url, rows, failures, crashed>>

\* Mutant: close does not drop the last chunk.
CloseKeepingRows(s, st, to, u) ==
    /\ UNCHANGED rows
    /\ stream' = [stream EXCEPT ![s] =
                     [st EXCEPT !.phase = to, !.buffer = <<>>, !.index = 0,
                                !.interrupts = 0, !.previous = None, !.refreshing = "no"]]

\* close(), when the urls are u: the stream ends, or emits an error.
Close(s, st, to, u) ==
    /\ rows' = ClearRows(st.previous, u)
    /\ stream' = [stream EXCEPT ![s] =
                     [st EXCEPT !.phase = to, !.buffer = <<>>, !.index = 0,
                                !.interrupts = 0, !.previous = None, !.refreshing = "no"]]

\* The rows the options ask for.
Clip(w) ==
    [start |-> IF w.start < 0 THEN 0 ELSE w.start,
     end   |-> IF w.end >= Returned THEN Returned - 1 ELSE w.end]

init ==
    /\ Due("init")
    /\ LET s  == Head(pending).stream
           w  == Clip(stream[s].window)
           st == [stream[s] EXCEPT !.initialized = TRUE, !.refreshing = "no"]
           sw == [st EXCEPT !.window = w]
           first == [sw EXCEPT !.current = Min(Overlapping(w))]
       IN  \/ /\ statement # "ok"
              /\ Close(s, st, "failed", url)
              /\ pending' = Tail(pending)
              /\ UNCHANGED <<fetch, completing, listeners>>
           \/ /\ statement = "ok"
              /\ Overlapping(w) = {} \/ w.start > w.end
              /\ stream' = [stream EXCEPT ![s] = sw]
              /\ pending' = Append(Tail(pending), OnClose(s, "none"))
              /\ UNCHANGED <<rows, fetch, completing, listeners>>
           \/ /\ statement = "ok"
              /\ Overlapping(w) # {} /\ w.start <= w.end
              /\ stream' = [stream EXCEPT ![s] = first]
              /\ doLoad(s, first, Tail(pending))
              /\ UNCHANGED rows
    /\ UNCHANGED <<statement, url, onComplete, failures, crashed>>

\* Mutant: the end of the window is ignored.
SliceToEnd(k, r, w) ==
    LET from == Max({StartIndex(k), w.start}) - StartIndex(k)
    IN  SubSeq(RowsFrom(StartIndex(r), EndIndex(r)), from + 1, RowCount(r))

\* The rows that chunk k holds, r's, between the bounds of the window.
Slice(k, r, w) ==
    LET from == Max({StartIndex(k), w.start}) - StartIndex(k)
        to   == Min({EndIndex(k), w.end}) + 1 - StartIndex(k)
    IN  SubSeq(RowsFrom(StartIndex(r), EndIndex(r)), from + 1, Min({to, RowCount(r)}))

\* The chunk that the stream has moved on from.
Passed(s, k) == IF stream[s].previous = k THEN None ELSE stream[s].previous

\* A chunk has been loaded: the one before it is dropped.  The chunk itself may have
\* been dropped meanwhile by another stream, and has no rows to slice then.
onResultStreamData ==
    /\ Due("onResultStreamData")
    /\ LET s  == Head(pending).stream
           k  == Head(pending).chunk
           st == [stream[s] EXCEPT !.current = @ + 1, !.previous = k]
       IN  /\ rows' = ClearRows(Passed(s, k), url)
           /\ \/ /\ rows'[k] = None
                 /\ crashed' = TRUE
                 /\ pending' = Tail(pending)
                 /\ stream' = [stream EXCEPT ![s] = st]
              \/ /\ rows'[k] # None
                 /\ processRowBuffer(s, [st EXCEPT !.buffer = Slice(k, rows[k], st.window),
                                                   !.index = 0],
                                     Tail(pending))
                 /\ UNCHANGED crashed
    /\ UNCHANGED <<statement, url, fetch, completing, listeners, onComplete, failures>>

\* Mutant: the last interrupt allowed is not retried.
RetriedOnceLess(s, err) == err = "forbidden" /\ stream[s].interrupts + 1 < StreamInterrupts

\* A 403 refreshes the result, a number of times.
Retried(s, err) == err = "forbidden" /\ stream[s].interrupts < StreamInterrupts

\* The chunks are at their end, or one could not be loaded.
onResultStreamClose ==
    /\ Due("onResultStreamClose")
    /\ LET s   == Head(pending).stream
           err == Head(pending).err
       IN  \/ /\ Retried(s, err)
              /\ stream' = [stream EXCEPT ![s].interrupts = @ + 1, ![s].refreshing = "stream"]
              /\ UNCHANGED rows
           \/ /\ ~Retried(s, err)
              /\ Close(s, stream[s], IF err = "none" THEN "ended" ELSE "failed", url)
    /\ pending' = Tail(pending)
    /\ UNCHANGED <<statement, url, fetch, completing, listeners, onComplete, failures, crashed>>

-----------------------------------------------------------------------------
(* The statement                                                           *)

statementCompletes(outcome) ==
    /\ Quiet
    /\ statement = "fetching"
    /\ statement' = outcome
    /\ onComplete' = <<>>
    /\ pending' = [i \in DOMAIN onComplete |-> InitStream(onComplete[i])]
    /\ UNCHANGED <<chunkVars, stream, failures, crashed>>

\* Result.refresh gives each chunk the url at its position in the response, where
\* the inline rows have none: then every url is the next chunk's, and the last
\* position throws.
RefreshedUrls == [k \in Chunks |-> IF k + Shift \in Chunks THEN k + Shift ELSE url[k]]
RefreshThrows == Shift > 0

refreshed(s) ==
    /\ Quiet
    /\ stream[s].refreshing # "no"
    /\ statement' = "ok"
    /\ url' = IF statement = "ok" THEN RefreshedUrls ELSE url
    /\ \/ /\ stream[s].refreshing = "init"
          /\ pending' = <<InitStream(s)>>
          /\ UNCHANGED <<rows, fetch, completing, listeners, stream>>
       \/ /\ stream[s].refreshing = "stream" /\ RefreshThrows
          /\ Close(s, stream[s], "failed", url')
          /\ UNCHANGED <<fetch, completing, listeners, pending>>
       \/ /\ stream[s].refreshing = "stream" /\ ~RefreshThrows
          /\ stream' = [stream EXCEPT ![s].refreshing = "no"]
          /\ doLoad(s, stream[s], <<>>)
          /\ UNCHANGED rows
    /\ UNCHANGED <<onComplete, failures, crashed>>

refreshFails(s, outcome) ==
    /\ Quiet
    /\ stream[s].refreshing # "no"
    /\ "refresh" \in scenario.faults /\ failures < MaxFailures
    /\ failures' = failures + 1
    /\ statement' = IF statement = "ok" THEN "ok" ELSE outcome
    /\ \/ /\ stream[s].refreshing = "init"
          /\ pending' = <<InitStream(s)>>
          /\ UNCHANGED <<rows, stream>>
       \/ /\ stream[s].refreshing = "stream"
          /\ Close(s, stream[s], "failed", url)
          /\ UNCHANGED pending
    /\ UNCHANGED <<url, fetch, completing, listeners, onComplete, crashed>>

Next ==
    /\ \/ completeLoad
       \/ pushRows
       \/ init
       \/ onResultStreamData
       \/ onResultStreamClose
       \/ \E s \in scenario.streams : read(s)
       \/ \E k \in Chunks : chunkArrives(k)
       \/ \E k \in Chunks, err \in scenario.faults \cap {"forbidden", "other"} : chunkFails(k, err)
       \/ \E outcome \in Outcomes : statementCompletes(outcome)
       \/ \E s \in scenario.streams : refreshed(s)
       \/ \E s \in scenario.streams, outcome \in {"transient", "fatal"} : refreshFails(s, outcome)
    /\ UNCHANGED scenario

Spec == Init /\ [][Next]_vars

\* Callbacks run and responses come; a consumer goes on reading.
Answer ==
    /\ \/ completeLoad
       \/ pushRows
       \/ init
       \/ onResultStreamData
       \/ onResultStreamClose
       \/ \E k \in Chunks : chunkArrives(k)
       \/ \E outcome \in Outcomes : statementCompletes(outcome)
       \/ \E s \in scenario.streams : refreshed(s)
    /\ UNCHANGED scenario

Read(s) == s \in scenario.streams /\ read(s) /\ UNCHANGED scenario

FairSpec == Spec /\ WF_vars(Answer) /\ \A s \in Streams : WF_vars(Read(s))

-----------------------------------------------------------------------------
(* Properties                                                              *)

StreamState ==
    [phase : {"idle", "waiting", "ended", "failed"},
     window : [start : Int, end : Int],
     initialized : BOOLEAN,
     current : Nat,
     buffer : Seq(0..(Returned - 1)),
     index : Nat,
     previous : Chunks \cup {None},
     interrupts : 0..StreamInterrupts,
     refreshing : {"no", "init", "stream"},
     out : Seq(0..(Returned - 1))]

Callback ==
    [fn : {"completeLoad"}, chunk : Chunks]
    \cup [fn : {"onResultStreamData"}, stream : scenario.streams, chunk : Chunks]
    \cup [fn : {"onResultStreamClose"}, stream : scenario.streams,
          err : {"none", "forbidden", "other"}]
    \cup [fn : {"pushRows"}, stream : scenario.streams, row : Seq(0..(Returned - 1))]
    \cup [fn : {"init"}, stream : scenario.streams]

\* The variables hold values of their kind; a row index stays inside its buffer, and
\* a stream is never interrupted more often than resultStreamInterrupts allows.
TypeOK ==
    /\ scenario \in Scenarios
    /\ statement \in {"fetching", "ok", "transient", "fatal"}
    /\ url \in [Chunks -> Chunks \cup {None}]
    /\ rows \in [Chunks -> Chunks \cup {None}]
    /\ fetch \in [Chunks -> Chunks \cup {None}]
    /\ completing \subseteq Chunks
    /\ listeners \in [Chunks -> Seq(scenario.streams)]
    /\ onComplete \in Seq(scenario.streams)
    /\ pending \in Seq(Callback)
    /\ stream \in [scenario.streams -> StreamState]
    /\ \A s \in scenario.streams : stream[s].index # 0 => stream[s].index < Len(stream[s].buffer)
    /\ failures \in 0..MaxFailures
    /\ crashed \in BOOLEAN

\* What a stream has been asked for.
Asked(s) == LET w == Clip(stream[s].window) IN RowsFrom(w.start, w.end)

\* The chunks of a statement are not made to be shared: a stream drops the rows
\* another has not read yet, and a refresh moves the urls by one if there are rows
\* in the response itself.
Alone == \A s, t \in scenario.streams : s = t

\* A stream pushes the rows of its window in order, none twice, none left out, and
\* ends after the last: across chunk boundaries, prefetched chunks that arrive in any
\* order, back pressure in the middle of a chunk, and loads resumed after a refresh.
\* So do two streams of one statement, unless a chunk vanishes under them.
RowsInOrder ==
    Alone \/ Shift = 0 =>
        \A s \in scenario.streams :
            /\ IsPrefix(stream[s].out, Asked(s))
            /\ stream[s].phase = "ended" => stream[s].out = Asked(s)

\* Once all streams have ended, no downloaded chunk stays in memory, unless a refresh
\* has moved the urls.
RowsReleased ==
    (Alone \/ Shift = 0) /\ (\A s \in scenario.streams : stream[s].phase = "ended")
        => \A k \in Chunks : url[k] # None => rows[k] = None

\* Downloads answered 403 do not fail a stream that has begun to read chunks, as long
\* as there are no more of them than resultStreamInterrupts allows.
InterruptsAbsorbed ==
    scenario.faults \subseteq {"forbidden"} /\ Shift = 0 =>
        \A s \in scenario.streams :
            stream[s].phase = "failed" /\ stream[s].current # None
                => failures > StreamInterrupts

\* A stream that is read to its end ends, or fails, if it is the only one: no _read()
\* is left unanswered, and no callback throws.
EveryStreamFinishes ==
    Alone => <>(\A s \in scenario.streams : stream[s].phase \in {"ended", "failed"})

=============================================================================
