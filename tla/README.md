# TLA+ models of the Snowflake Node.js driver

This directory specifies the parts of `snowflake-connector-nodejs` whose
correctness depends on the order in which things happen: callbacks of one event
loop, responses that come late, processes that share a file, rows that arrive out
of order. TLC checks the specifications on small instances; TLAPS proves the main
safety results for every instance. `PROJECT.json` ties each definition to the
lines it models, and lists the runs, the properties, the hazards they are aimed at
and the theorems.

All paths below are relative to `src/lib/`.

## 1. The system

The driver runs on one Node.js event loop. Code between two callbacks is atomic;
what interleaves are callbacks (HTTP responses, timers, `process.nextTick`,
settled promises, stream events) and the calls of the application. Several
processes meet only in files (the credential cache, the OCSP and CRL caches).

| component | state | operations | interacts with | what is hard |
|---|---|---|---|---|
| session service (`services/sf.js`) | current state of five, session and master token, operation queue | connect, request, destroy; login loop; renewal | connection and statements call it; HTTP client below; authenticators for (re)authentication | late responses, two renewals, retries beside a growing queue, exactly one callback |
| HTTP client (`http/*`) | agent cache | request with a callback; retry middleware; abort | session service, large result set | callback called again on a rejection; retries of several layers; a refused token, after which the request is made anew; abort while waiting for a retry |
| authenticators (`authentication/*`) | credential or token; shared running authentication | authenticate, updateBody, reauthenticate | login loop; credential manager; coordinator | token rejected, re-authentication that throws, concurrent interactive logins, refresh tokens that are good once |
| file credential manager (`authentication/secure_storage/json_credential_manager.js`) | JSON file, lock directory beside it | read, write, remove | authenticators; other processes | stale locks, crashes, two-step check and removal |
| query context cache (`queryContextCache.js`) | tree set, id map, priority map | deserialize a response, serialize into a request | statements, once per response and per request | responses out of order, three views of the same elements, malformed responses |
| statement (`connection/statement.js`) | context with state, result, error | execute, cancel, fetchRows, streamRows, refresh | session service, result | completion, cancellation, the next result and consumers in any order |
| result, chunks, streams (`connection/result/*`) | chunks with url, rows and load state; stream positions and buffers | load, clear, refresh, search for a window, read | statement, large result set, the application's reads | out-of-order downloads, back pressure, expired urls, streams sharing chunks |
| large result set (`services/large_result_set.js`) | none | download of one chunk with retries | chunks, HTTP client | bounded retries, one callback |
| connection (`connection/connection.js`) | keep-alive timer, service | connect, destroy, execute, heartbeat, polling for a query | session service, statement | timer left over, endless polling |
| bind uploader (`connection/bind_uploader.js`) | batch of files | split binds, put | file transfer | one of several puts failing |
| file transfer agent (`file_transfer_agent/*`) | per-file metadata and status | put, get, retries, token renewal | statement, cloud storage | partial failure, expired tokens, retry loops |
| OCSP and CRL (`agent/*`) | response caches in memory and on disk, pending fetches | check, validate | TLS sockets | cache limits, shared fetches, soft failure |
| configuration, conversion, logging, telemetry | options | pure functions, side output | everything | nothing that depends on order |

What makes each modelled component correct:

* session: every operation the application starts is, at every moment, in exactly
  one place (queue, wire, login, next tick, answered); it is answered at most once
  and, when the network answers, at least once; a non-empty queue has something
  pending that will drain it; tokens are gone once the service is disconnected.
* query context cache: three structures describe one set of elements; sorted;
  within capacity when idle; no id goes back in time.
* credential file: the lock excludes; without faults the file is a map that changes
  one key at a time; a crash blocks nobody for ever.
* row streams: each stream gives exactly the rows asked for, in order, or fails;
  memory is bounded by the prefetch size; every read is answered.
* chunk search: exactly the chunks of the window, in order, in finitely many calls.
* statement: one completion however often the result is asked for again; a refresh
  brings the urls of the statement's own query; rows are processed once, in order,
  through interrupts and refreshes; the statement completes.
* connection: one heartbeat timer, none after a destroy that the service did not
  refuse as premature; one callback per connect; polling ends.
* HTTP requests: one result per request, that of the last answer; retries of the
  layers do not multiply each time it is made; an aborted request is not sent again.
* authentication: one browser and one local server per type of flow; a refused token
  does not come back; every login ends.
* file transfer: a row says what is on the stage or on the disk; every file has its
  row; multipart uploads and temporary directories are cleaned up; a former object is
  not lost; the command ends.
* revocation: with fail-closed OCSP only good certificates open a socket; a
  revocation published in a CRL is overlooked for a bounded time only; a check ends.

## 2. Modules

| module | models | abstraction |
|---|---|---|
| `SnowflakeService` | `services/sf.js`, callback contract of `http/base.js`, what the login loop calls in the authenticators | an operation is a model value; a token is there or not; HTTP responses are chosen freely among the answers the code tells apart |
| `ApiContract` | what a callback API promises: a call accepted once, its callback at most once and only while the call is pending, and a pending call dropped only if it was declared forgettable | abstract specification, implemented by `SnowflakeService` |
| `QueryContextCache` | `queryContextCache.js` | ids, priorities and timestamps are small sets; a context is the timestamp it was sent with |
| `JsonCredentialManager` | `json_credential_manager.js`, opening rules of `file_util.js` | contents are a function from keys to tokens; each awaited file operation is a step |
| `CredentialStore` | a map changed one key at a time | abstract specification, implemented by `JsonCredentialManager` without faults |
| `RowStreams` | `result/row_stream.js`, `result_stream.js`, `chunk.js`, parts of `result.js` and of `statement.js` | a row is its index; a url is the number of the chunk it downloads |
| `ChunkSearch` | `findOverlappingChunks`, `findFirstOverlappingChunk`, `overlapsWithWindow` | a chunk is its first and last row |
| `Statement` | `connection/statement.js`, `fetchRows` of `result/result.js`, the bind upload as a step | a result is named after its query, a chunk is one row; the aggregation of rows reads all, fails or is interrupted (`RowStreams` has its detail) |
| `Connection` | `connection/connection.js`, `parameters.js`, what the service shows its callers | several connections of one process; the session is its state |
| `HttpRequests` | `http/base.js`, `http/axios_instance.ts`, `services/large_result_set.js`, `sendHttpRequest` of `sf.js` | an answer is one of the ten the code tells apart, a refused token among them; durations are left out |
| `Authentication` | `authentication/*` up to the answer of the login request | a token is a number with a type; servers know which are good |
| `FileTransfer` | `file_transfer_agent/*` | an object of the stage is a version and a set of parts; requests fail, get lost, expire |
| `TlsSockets` | corking, uncorking and destroying in the agents | a socket is one of four states |
| `OcspCheck` | `agent/socket_util.js`, `check.js`, `ocsp_response_cache.js`, verdicts of `cert_util.js` | a certificate is the verdict its responder gives |
| `CrlValidator` | `agent/crl_validator/*` | a CRL is its validity, its `nextUpdate` and the certificates it lists; time is a small number |
| `Revocation` | `agent/https_*_agent`: which of the two checks a socket gets | composes `OcspCheck` and `CrlValidator` over `TlsSockets` |
| `*Proofs` | theorems about the module of the same name; `LoginProofs` about `Connection` and `Authentication`, `ResultProofs` about `ChunkSearch` and `RowStreams`, `TransportProofs` about `HttpRequests` and `Revocation` | |
| `MC*` | instances for TLC | |

### Session: `SnowflakeService`

`state`, `tokens` and `queue` are the service's current state, its `TokenInfo` and
`operationQueue`. `login` follows the one login loop (sent, token rejected,
credential being stored, re-authenticating, sleeping before a retry, answered and
about to drain, lost), with `connector` its callback's owner and `numRetries` its
counter. `sent[op]` says whether a request is on the wire and with which token
kind, `renewals` counts the renewals in flight by the master token they carry,
`ticks` holds the callbacks deferred with `process.nextTick`, and `calls[op]`
counts invocations of each callback.

Actions are whole handlers. `connect`, `request` and `destroy` are the entry points
in all five states. `loginSucceeded`, `loginFailed`, `loginTokenRejected`,
`reauthenticated`, `credentialStored` and their failures are the continuations of
the login callback. `requestAnswered`, `sessionTokenExpired`, `sessionGone`,
`destroySucceeded`, `destroyFailed` and the `renewal*` actions are the responses,
accepted in every state, since `sf.js` does not look at the state when one comes.
Draining runs the dequeued operations in the state that each of them meets: the
operators `Sends`, `Answers` and `Fails` say which of the queue goes on the wire,
is answered at once, or fails on the next tick, and a `destroy` in the middle of
the queue is answered and changes the state for the rest of the drain.

`ImplementsContract` maps the contract's pending calls to `Working`, what the queue,
the requests in flight, the ticks and the login hold, not to what has been issued and
not answered. A second callback, a callback for an operation that is in none of these
places, and an operation that leaves them without its callback are therefore steps the
contract lacks. `forgettable` is the connect of an Okta login, which the code can lose.

Assumption: an application callback does not throw. If it did, the client in
`http/base.js` would invoke it a second time from its catch handler.

### Query context cache: `QueryContextCache`

`cache` is the record of the three structures; `entries` are the entries of the
response being merged and `busy` whether one is. A response is taken by
`deserializeQueryContext`; `mergeNext` merges one entry (the four cases of
`merge`), `rejectEntry` and `entryThrows` are the entries that clear the whole
cache (a context that is not a string, an entry that is no object), `evictLast`
removes the last element while there are too many, and `deserialized` ends the
response. The handler is synchronous: the intermediate states are there for the
invariants that hold between entries, and `busy` lets the capacity be asked of
finished responses only.

### Credentials: `JsonCredentialManager`

`pc[c]` is the await at which a call stands: `stat`, `rmdir` (of a stale lock), the
attempts at the lock, `open`, `read`, `truncate`, `store`, `unlock`, or an end. `lock` and `stale` are the
lock directory and its age, `file` and `stored` the credential file. `faults`, chosen
from `FaultSets` at the start, says which of four kinds of trouble the environment
makes: a process dies at any await
(`crash`), a disk operation fails (`disk`), the checked open refuses the file
(`permissions`), a holder needs longer than the stale limit (`slow`).

### Rows: `RowStreams`

The heart is `pending`, the queue of callbacks of the event loop that are due:
`nextTick` callbacks and event listeners run first in, first out; a response of the
network is only handled when it is empty. `url`, `rows`, `fetch`, `completing` and
`listeners` are the chunks' shared state; `stream[s]` is one stream with its
ResultStream and RowStream: position, prefetched chunks, row buffer and row index,
interrupts used, rows pushed so far. `read` is the application's read; `init`,
`doLoad`, `completeLoad`, `chunkArrives`, `chunkFails`, `onResultStreamData`,
`onResultStreamClose`, `pushRows`, `refreshed` and `refreshFails` are the callbacks.

Limits, on purpose: reads come between callbacks, never from inside a `data`
handler; statements are not multi-statements; no chunk has zero rows; a window has
its start not after its end (`ChunkSearch` treats the others). Of the errors of a
download only an HTTP 403 is retryable, as in `large_result_set.js`. A TypeError in
a tick ends the process: after `crashed` nothing more happens.

### Search: `ChunkSearch`

The recursion is tail recursive, so `left` and `right` are its arguments and each
action is one call. `collect` is the loop of `findOverlappingChunks`, which throws
when the search returned -1 though the array is not empty. Arrays are assumed to
consist of non-empty chunks that follow each other without a gap, as
`Result.createChunks` builds them.

### Statement: `Statement`

`contexts` is the sequence of statement contexts: one for a plain statement, and one
more per result of a text with several statements, made when the response comes and
by `NextResult`. `requests` holds the requests in flight. A context may have several:
the execution, the polling of a query in progress, and every request for the result
again that a stream or a `fetchRows` has caused, each with its purpose, so that the
handler knows whom to resume. `urls` says for each chunk of a result which query and
which place of its response the url came from: `Refresh` replaces them by position, as
the code does, and is an error when the response has fewer urls than there are chunks.
`NextResult` comes at any time, also while rows are read; `moved` remembers for the
properties that it moved a context on. `fetches` are the `FetchRowsOperation`s: the
chunk to be read next, which an interrupt leaves where it is and from which the
operation goes on after the refresh, the last one asked for, and the rows given to
`each()` (a chunk is a row, named after the url it came from). A chunk may have been
downloaded from the url it has now or, by a prefetch, from its first. `Options` are the ways to make a statement: a query, an array bind
that is uploaded first (and sent inline when that fails), PUT and GET, `fetchResult`,
asynchronous execution, several statements; streamed or aggregated; with rows in the
response itself, which are a chunk without a url, or all of them in chunks.

### Connection: `Connection`

`connects[k].phase` is the await of `connectAsync` a call rests at; its callback and
its promise are counted separately, since errors reach the callback on four paths.
`timers[c]` counts the intervals that exist, not the references to them: a second
`setInterval` would leave the first one running with nobody to clear it. `keepAlive`
is one variable for the process, as `parameters.js` keeps it, which the login of any
connection overwrites. Callbacks that throw are a choice of the run. `came` remembers
of a destroy whether it came when the service had left its pristine state (`after`),
while a connect was still preparing or authenticating (`during`), or before any.

### Requests: `HttpRequests`

A request goes through the axios middleware (`backoff` between two attempts), the
client (`request` with a callback, called a second time when it throws, or
`requestAsync`), and one of the layers above: the chunk download with retries of its
own (`pause`), the session service, or a plain promise. `sent` counts HTTP requests,
`calls` results; `abort` may come at any time. When the server refuses the token,
`sendHttpRequest` awaits a re-authentication (`reauth`) and makes the request anew, with
all its retries; `renewals` counts that, which the code does not. The abort of the
first request has no effect on the second.

### Authentication: `Authentication`

`pc[c]` is the await at which the login of a connection rests; `pending` is
PENDING_AUTHS with the connection that runs the flow, `cache` the credential manager
(used here as the map `CredentialStore` says it is), `issued` and `good` what the
servers have given out and still accept. A refresh grant may rotate the refresh
token. `rejected` and `used` remember what was refused and what was sent.

### Files: `FileTransfer`

`pc` is the agent's place in `execute`: preparing a file, reading its header,
sending it whole or in parts, polling for it, recording it, renewing clients or
presigned URLs. `meta` is the metadata of each file with its `resultStatus`, `call`
the local variables of the retry loop, `upload` the multipart or resumable upload
under way. The storage service is the environment: `stage` is what is there,
`expired` whether the token is. An answer may be lost after the object was written.

### Revocation: `TlsSockets`, `OcspCheck`, `CrlValidator`, `Revocation`

In `OcspCheck`, `val[s][c]` is what the check of one certificate waits for (cache
server, another's download, responder, retry), `store` the response cache object,
shared by all sockets, with its `downloadStatus`. `ticks` holds what was deferred with
`process.nextTick`. An error status of the cache server leaves its response unread and
the callback armed: the request is then in `unread`, and `responseUnread` is the timeout
or error that runs the check of the certificate a second time, beside the first;
`rerun[s][c]` is where that second check rests. In `CrlValidator`, `walk[s]` is where a socket's walk over its
distribution points rests, `fetch[s]` the fetch it started and `pending` the map of
fetches others may join; `memory` and `disk` are the caches with the time of each
entry. `publishCrl` puts a new CRL at its url, with or without a further revocation,
and `clock` lets time pass.

## 3. Runs

Each run asks of one component everything that is checked of it. The MC modules only
define the instances; no definition of a module is replaced.

| run | instance | checks |
|---|---|---|
| `session` | 1 connect, 2 requests, 2 destroys; Okta, key pair, ID token; one login retry; two rejected tokens; a retry sleep of positive or non-positive length | `Accounted`, `QuietDisconnectIsFinal`, refinement `ImplementsContract`, `EveryOperationAnswered` |
| `cache` | 3 ids (symmetric), 3 priorities, 2 timestamps, capacity 2, up to 2 entries a response, both kinds of bad entry | `MapsAgree`, `WithinCapacity`, `NeverOlder` |
| `credentials` | 2 calls, 2 keys; no fault, each of the four alone, all together | `MutualExclusion`, refinement `ImplementsStore`, `EveryCallEnds`, `StaleLockRemoved` |
| `rows` | one stream over an inline row and chunks of 1, 2, 1, 1 rows, five windows, every failure; or two streams over the chunks, urls that expire; prefetch 1, one interrupt | `RowsInOrder`, `RowsReleased`, `InterruptsAbsorbed`, `EveryStreamFinishes` |
| `search` | every array of up to 5 chunks of 1 or 2 rows, every window between -1 and 10 with its start not after its end | `FindsOverlapping`, `BoundsShrink` |
| `statement` | every kind of statement with one result and two queries in a text, one or two chunks each, with or without rows in the response; `NextResult` at any time, one `fetchRows` at any time that asks for none or all rows; one poll, two failures, one cancel | `CompletesOnce`, `RefreshesOwnResult`, `RowsOnce`, `EveryStatementCompletes` |
| `connection` | one connection, 2 connects, 2 destroys, one poll; keep-alive on or off, callbacks that throw or do not | `TimerStops`, `CallbackOnce`, `EveryCallAnswered`, `EveryPollEnds` |
| `transfer` | PUT and GET of two files of either size on four stores with every option the code looks at; three parts, two attempts, two failures, a token that may expire, an object that may be replaced | `ReportedIsThere`, `EveryFileHasItsRow`, `NothingLeftBehind`, `FormerObjectKept`, `TransferEnds` |
| `requests` | two requests through every layer; two retries of either layer, two refused tokens | `OneResult`, `SentBounded`, `NotSentAfterAbort`, `EveryRequestEnds` |
| `authentication` | two connections, of the same interactive kind with or without a token store, or of two other kinds; one login retry; five tokens | `OneBrowser`, `NoStaleToken`, `EveryLoginEnds` |
| `revocation` | two sockets with a common intermediate certificate; OCSP in both modes, with and without cache server and file; CRLs in both modes and every choice of caches; one failure; three time steps | `ClosedOpensOnlyGood`, `RevocationNoticed`, `EveryCheckEnds` |
| `statement_end` | a streamed query, one `fetchRows`, two failures | `EveryFetchEnds`, violated |

The last run checks what a comment of the code says and the code does not do. Five
more configurations do the same; they are not among the runs of `PROJECT.json`, and TLC
finds the property of each violated (`tlc -config <configuration> <its module>`).

| configuration | module | instance | finds violated |
|---|---|---|---|
| `MCStatement_next.cfg` | `MCStatement` | two queries in a text, one `fetchRows`, one failure | `RowsOfItsResult` |
| `MCStatement_inline.cfg` | `MCStatement` | a streamed query with rows in the response, one failure | `UrlsStayInPlace` |
| `MCConnection_early.cfg` | `MCConnection` | as `connection` | `DestroyTerminates` |
| `MCRevocation_twice.cfg` | `MCRevocation` | good certificates and one failure, OCSP only | `DecidedByTheLast` |
| `MCRevocation_selfsigned.cfg` | `MCRevocation` | one chain of one certificate and an empty one, no failures | `ValidationIsCompleted` |

All six are described below.

Why the bounds are enough. Session: two requests and two destroys put two operations
of a kind on both sides of every drain, and a queue of four drains past a destroy in
its middle; one retry shows both sides of the retry bound. Cache: with capacity 2,
three ids overflow it, and a known id can move to a free, an equal and a taken
priority. Credentials: two calls are a holder and a waiter that may remove its lock;
the code's ten attempts at the lock are two here, since an attempt changes nothing
but the counter; the proof covers more calls. Rows: prefetch 1 has chunks before,
inside and beyond the prefetch window; the windows start and end inside, at the ends
of, and outside chunks. Search: five chunks give recursions two deep to either side.
Statement: with two failures two readers can be interrupted, or one interrupted and
its refresh fail; a `fetchRows` and the aggregation then ask for the same result at
once. Two queries have a result that is asked for while the context is moved
on, and one it was moved on to. Connection: two connects race in every
await, a destroy comes before, between and after them. Transfer: two files are enough
for one to fail while the other is done, in one group or in two; three parts have a
first, a middle and a last one. Requests are independent of each other but for what
the process shares, and the proof covers any number; two refused tokens are one request
made anew out of one that was itself made anew. Authentication: two connections
are one that runs the flow and one that waits for it, or comes just after its end; five
tokens allow a grant, a rotation and a new flow. Revocation: two sockets share the
cache object, the intermediate certificate and one pending fetch.

All runs but `cache` are of systems that may stop, hence `CHECK_DEADLOCK FALSE`. The
cache is never stuck and is checked for deadlock.

`TypeOK` of each module documents its state. It is proved for `SnowflakeService`,
`QueryContextCache`, `JsonCredentialManager`, `ChunkSearch` (`SearchOK`), `RowStreams`,
`HttpRequests`, `Statement`, `Authentication`, `FileTransfer` and `Revocation`
(`RevocationOK`), and the part the proofs depend on for `Connection`; to check one with
TLC, add it to the `INVARIANTS` of the configuration.

### Disagreements between the code and its comments

The run `statement_end` and the five further configurations each find a behaviour that
contradicts a comment.

* `statement_end`: the comment on `fetchRows` (`connection/statement.js:1033-1036`)
  promises that `end()` is invoked when the rows have been processed or when an error
  was met. When a chunk's url has expired, the fetch asks for new urls; if that request
  fails, `if (!err) { continueCallback(); }` (line 1245) drops the operation, and
  neither `each()` nor `end()` is called any more.
* `MCStatement_next.cfg`: "Fetches the rows in this statement's result"
  (`connection/statement.js:1031`). `NextResult` moves the query id of the context it is
  called on (lines 1643-1645) whatever its own rows are at, and the integration tests
  call it out of a `data` handler. If a url of its result expires after that, the result
  of the next query is asked for, and its rows are given to `each()`.
* `MCStatement_inline.cfg`: "Refreshes the result by updating the chunk urls"
  (`result/result.js:181`). Rows that come in the response are a chunk before the others
  (lines 292-301), which the refresh does not count: every chunk gets the url of the one
  behind it, and for the last there is a TypeError.
* `MCConnection_early.cfg`: `destroy()` "immediately terminates the connection"
  (`connection/connection.js:515`). While `connect` reads credentials or authenticates,
  the service is still pristine and answers that there is nothing to destroy
  (`services/sf.js:1020-1027`); the login goes on, and its heartbeat timer (line 265) is
  started after `destroy` was answered. The caller does get an error.
* `MCRevocation_twice.cfg`: `completed === certs.length` is "the last request to complete"
  (`agent/socket_util.js:228`). After an error status of the cache server the callback
  stays armed and the response unread (`agent/ocsp_response_cache.js:256-262`), and the
  timeout (296-304) calls it again: one certificate counts twice and the chain is decided
  while another has not reported, also with FAIL_CLOSED.
* `MCRevocation_selfsigned.cfg`: `cb` is "the callback to invoke once the validation is
  complete" (`agent/socket_util.js:180`). The chain of a trusted self-signed leaf is
  empty (lines 184-192), nobody calls `cb`, and the socket stays corked.

What the other properties say of these cases: `RowsOnce` and `RefreshesOwnResult` speak
of results whose urls are their own still, `TimerStops` of calls of `destroy` that were
answered without an error or that came when the login had been sent,
`ClosedOpensOnlyGood` of chains without a certificate that was checked twice, and
`EveryCheckEnds` of chains that are not empty.

### What the code does that a reader might not expect

These behaviours are in the models, and the properties above say what holds besides
them.

Session and authentication:

* A response SESSION_TOKEN_EXPIRED that comes after a disconnect moves the service
  to Renewing (`services/sf.js:1442`), although the comment at line 1611 calls
  Disconnected fatal. `QuietDisconnectIsFinal` is what the code does keep.
* A destroy's response takes the service out of Renewing; the next expired response
  starts a second renewal beside the first, which is why `renewals` is a counter.
* The table at the head of `sf.js` sends a request in the preconnected state to
  Connecting, but `request` in Pristine is an error.
* Okta's `reauthenticate` throws inside a callback nobody awaits
  (`authentication/auth_okta.js:118`): the connect callback is then never called,
  which `EveryOperationAnswered` and `EveryLoginEnds` leave out as `lost`.
* A refresh token that is good once is not coordinated: of two connections that
  re-authenticate with it, the second fails and evicts the newer one.
* After a failed re-authentication the login is retried with the refused token, and
  a connection that joins another's flow can be given the token it was refused with
  (compare the comment at `auth_oauth_authorization_code.js:102-104`);
  `NoStaleToken` holds for a connection's own flow.
* The port check of the local server settles only for EADDRINUSE among the errors: a
  flow that meets another error stays `stuck`, and so does who waits for it.

Requests and connection:

* A callback of the client that throws is called a second time with the error, and if
  it throws again the rejection is not handled.
* An abort during the middleware's sleep takes effect when the sleep is over.
* A request whose token is refused is made anew after the re-authentication without a
  count (`services/sf.js:678-685`): as long as every new token is refused, it goes on.
  The bound on it in the model, `MaxRenewals`, is not in the code, and `SentBounded`
  therefore speaks of the requests per token.
* A connect callback that throws leaves the operations queued behind the login where
  they are; on an authentication error it is called twice.
* CLIENT_SESSION_KEEP_ALIVE is one parameter of the process: the login of one
  connection decides for the next.

Statements, rows and search:

* When a statement of several results has a result whose request fails transiently,
  its aggregation never completes; the parent may invoke complete several times.
* An asynchronous execution without `streamResult` passes no error on.
* A `fetchRows` whose download fails ends with the context's error, of which there is
  none: the application sees fewer rows and no error.
* A refresh of a result with inline rows gives every chunk the url of the next. The stream that asked for it does not come to harm, but a
  second stream of the statement may, and may leave a chunk in memory that its own window
  does not have; `RowsInOrder` and `RowsReleased` leave that case out (`Alone`).
* Of two streams that share chunks, one may free a chunk between the other's load of
  it and the tick that hands its rows over (`result/row_stream.js:198`): `getRows()` is
  undefined, and the TypeError ends the process. The model's `crashed` is this end.
* A stream that waits for a statement whose completion fails transiently fails,
  whereas one created a moment later refreshes the statement.
* A window whose start is after its end can make the chunk search return -1, and the
  collection then throws (`result/result.js:522`); hence the assumption `Ordered` of
  `SearchCorrect`.

Caches and credentials:

* A known id that moves to a priority held by another id leaves both cached with that
  priority (`queryContextCache.js:122`). The three structures still agree on the
  elements; the priority map points at the newer.
* Two calls that find the lock of a dead process stale may both remove it, the second
  time when the first has just taken it (`json_credential_manager.js:147`): after a
  crash two calls may hold the lock, which is why `MutualExclusion` asks for `Mild`
  faults.

File transfer:

* The client of an expired S3 or Azure token is "renewed" with the credentials it
  had: such a command never ends, and `TransferEnds` leaves it out.
* An upload of a stream whose token or URL has expired is reported as a success.
* An exception before a status is set leaves the file without ERROR
  (`file_transfer_agent.js:377-383`).
* Azure's clean-up after a failed multipart upload deletes the object that was to be
  overwritten, hence the exception in `FormerObjectKept`.
* The header of a file is read before its body: an object replaced in between is
  decrypted with the former envelope, the exception in `ReportedIsThere`.
* A download that fails leaves its temporary directory behind.

Revocation:

* Two downloads from the OCSP cache server can overlap; the second response is dropped
  together with its callback, and a response cut off in its body leaves
  `downloadStatus` at STARTED. Both are exceptions of `EveryCheckEnds`.
* In FAIL_OPEN an error about one certificate overrides REVOKED of another of the
  chain; a certificate that cannot be decoded calls back several times.
* Saving the OCSP cache gives all its entries the current time.
* A CRL read from disk starts a new validity in memory: hence twice the time in
  `RevocationNoticed`. Between the look at the pending fetches and the entry there is
  an await, so two fetches of one url can run.

### Fairness

`SnowflakeService.Fairness`: every HTTP exchange ends (with a response or the
client's timeout), timers fire, promises settle and ticks run. No fairness is given
to the application's calls, and which answer comes is not constrained.
`JsonCredentialManager.FairSpec`: a call that has not crashed takes its next step
when its file operation completes. A crashed call takes none, and no fault is ever
forced. `RowStreams.FairSpec`: due callbacks run and requests in flight end; and
the consumer of a stream keeps reading, which is what a flowing stream does.
`ChunkSearch.SearchFairSpec`: synchronous code runs on. `Statement.FairSpec`: the service
answers or fails every request, and the event loop runs what is due; the application
need not fetch, cancel or ask for a next result. `Connection.ConnectionFairSpec`:
each of connect, destroy, poll and login goes on by itself, since each waits for a
promise, an answer or a timer of its own. `HttpRequests.FairSpec` and `Authentication.FairSpec`:
each request, each login goes on; a request without an answer times out, a
re-authentication ends, and the browser flow has a timeout in the code. `FileTransfer.FairSpec`: the agent, which is
sequential, goes on; the environment need not fail, expire or replace anything.
`Revocation.RevocationFairSpec`: ticks run, servers answer or the request fails, files can be
read and written; time need not pass and no CRL need be published.

All of it is weak fairness: no action is assumed to win a race again and again. Where
a liveness property has an exception, it names a state out of which the code has no
way (`lost`, `stuck`, `dropped`, `cut`, an expired token).

## 4. Theorems

Each is proved by TLAPS for all values of the constants under the `ASSUME`s of its
module, which say what kind of thing each constant is (sets of operations are
disjoint, bounds are natural numbers, priorities and timestamps are natural
numbers, arrays are ordered). Four of them are about values: the names of the
`fetchRows` calls are not those of the other purposes of a request
(`Statement.BoundAssumption`); a file given as a stream is uploaded
(`FileTransferAssumption`: only the array binds come as streams); a certificate chain,
which is finite and may be empty, does not come back to a certificate (`ChainAssumption`:
the code walks from issuer to issuer of a chain that TLS has authorized); and `crlCacheValidityTime` is
positive (`CrlAssumption`; a day by default).

* `SessionCorrect`: types, `Accounted`, `AtMostOneCall`, `QueueHasDrainer` and
  `NoTokensWhenDisconnected` always hold. The inductive invariant `IInv` adds to
  them `Shape`, which ties the login to its connector, the state and the deferred
  drain. `Accounted` alone is not inductive: a drain moves many
  operations at once, and it has to be known that the moved ones were nowhere else.
  Lemma `DrainSplits` carries this: what a drain sends, answers, fails and keeps is
  a partition of the queue. From it one lemma per action.
* `SessionImplementsContract`: every step maps to a step of `ApiContract` or
  stutters, where what is pending is what the service's structures hold (`Working`). It
  rests on `Accounted`: an operation is in one place only, so that a step that takes it
  out of one either puts it into another or calls back. `LostByOkta` is the one step
  that forgets. `QuietDisconnect`: a disconnected service with nothing in flight stays
  so; it is what remains of "fatally disconnected".
* `CacheCorrect`: `MapsAgree`, `SortedByPriority`, `ContextOfTimestamp`,
  `WithinCapacity` (`CapacityKept` states the last one alone). The lemmas `TreeAdd`
  and `TreeRemove` say what insertion into and
  removal from the sorted sequence do; `AddConsistent`, `RemoveConsistent`,
  `OverwriteConsistent` and `ReplaceConsistent` lift them to the record of the three
  structures. `TimestampsNeverGoBack`: `NeverOlder` from the same invariant.
* `LockExcludes`: in behaviours without crashes, slow holders and refused files (disk
  errors are allowed) `MutualExclusion` holds for any number of calls. The invariant
  says that then the lock is never stale and that a call is inside exactly when it
  made the lock. `FileImplementsStore`: the file implements `CredentialStore`, whose
  map changes one key at a time as long as it is `reliable`, and which promises
  nothing in a behaviour with faults; `ContentInv` adds that what a holder is about to
  write is what is stored with its own key changed.
* `SearchCorrect`: for ordered windows, `FindsOverlapping` and `NeverThrows`. The
  invariant `SearchInv` says that no chunk left of `left` overlaps the window and that
  some chunk between the bounds does (a window made
  from ordered options overlaps some chunk, by `SomeOverlap`); `NothingLeft`,
  `NothingRight` and `NoGap` justify the three ways to go. `RecursionEnds`:
  `BoundsShrink`, for every window, inverted ones included.
* `EachRequestHasOneResult`, `RetriesDoNotMultiply` and `AbortIsFinal`: `OneResult`,
  `SentBounded` and `NotSentAfterAbort` for any number of requests and any limits;
  `SentBounded` multiplies the budget of one request by the number of times that it was
  made, once and once more per refused token. The
  inductive invariant has three parts for each request. `Paid`: each time it is sent
  beyond the first, a retry counter was raised, and only the counter of the one layer
  that repeats it, or it was made anew; `SentBounded` is not inductive without it, as it says nothing of a
  request that waits for its next attempt. `Reported`: a result and the last answer
  belong together. `Abortable`: only a request that was issued is aborted. Lemma
  `DeliverSteps` says what a layer does with any answer.
* `HeartbeatsStop` and `ConnectCallsBackOnce`: `TimerStops` and `CallbackOnce` for any
  number of connections, connects and destroys. `TimerStops` alone is not inductive:
  a login could still start a timer behind a destroy that was answered. `TimerInv` says
  that there is no timer before the login is over, and `DestroyInv` that a destroy that
  came when the service was no longer pristine is only handled once the login is over,
  and that one that came earlier is refused, not done; a session never goes back to where
  it can log in. `ConnectInv` says that a connect under way has called nobody.
* `BrowsersOpenOneByOne` and `StaleTokensStayAway`: `OneBrowser` and `NoStaleToken` for any
  number of connections, retries and tokens, with `AuthenticationTypes`. `OneBrowser` is
  about the browser, but who may open it is decided in PENDING_AUTHS, before an await and
  long before the window: `Flows` says that a connection inside a flow is the one its
  entry names, `Owned` that an entry names a connection that is inside its flow or has
  settled it and is about to remove it. `NoStaleToken` looks back (a token once refused),
  while the code forgets: `Unseen` says that an access token on its way to the cache has
  been used by nobody, so that none that was refused gets back there, `Clean`
  that those a connection was refused with are gone from the cache once it has cleared
  it, and `OneTime` that a token good for one login is fresh when it is sent.
  `AuthenticationInv` is the conjunction, for every connection and every type of token.
  `OwnStep`, `SettleStep` and `ResumeStep` say what a step of one connection leaves to
  the others; then there is one lemma per action. The assumption on the constants is that
  `"none"` is no connection.
* `RowsComeInOrder`, `ChunksAreReleased` and `InterruptsAreAbsorbed`: `RowsInOrder`,
  `RowsReleased` and `InterruptsAbsorbed` for results of any number and size of chunks, any
  windows, any number of streams, any prefetch and any number of failures; and
  `RowStreamsTypes`. The inductive invariant `RowsInv` has a part for each stream and one
  for each chunk. `StreamInv`: a stream waits for one thing at a time, a callback, the
  statement, a chunk or a refresh (`WaitInv`), and the callback that comes finds the
  stream in the state it expects (`CallInv`). `PushedInv` says that the rows pushed are a
  beginning of the window; it is not inductive without `Position`, which says for every
  place a stream can rest at where the next row is: at the first row of the window in the
  current chunk (`From`), in the row buffer at the index, or one behind, with the row
  already taken from the buffer in a tick that is due. `InterruptInv` counts the 403s that
  reached a stream against those that happened. `ChunkInv`: a chunk completes once for a
  load (`LoadInv`) and holds its own rows (`Own`); `Held` says that a chunk in memory or on
  its way is one that some stream is going to read, or has read last and is going to drop,
  of which `RowsReleased` is the end. A crash keeps the rows pushed so far and ends the
  rest, hence the condition `~crashed`. `LoadStream`, `TakeStream`, `StreamStep` and
  `CloseStep` are what the actions have in common. Where a chunk starts is a sum over the
  chunks before it, a recursive function: `RowsBeforeFacts` unfolds it, and `StartsGrow`,
  `EveryRowInAChunk` and `SliceFacts` (what `onResultStreamData` copies is what lies
  between two chunk boundaries of the window) follow by induction over the chunks.
* `ClosedIsClosed` and `RevocationIsNoticed`: `ClosedOpensOnlyGood` and
  `RevocationNoticed` for any number of sockets, chains of any length, any number of
  failures, any URLs, ages and configurations; and `RevocationTypes`. `RevocationInv` has
  a half for each check, of which one is at work. In `OcspInv` the difficulty is that a
  chain is decided when as many callbacks have come as it has certificates, while one that
  cannot be decoded calls back several times. `ChainInv` therefore counts: as long as no
  certificate of the chain has an error, there were at most as many callbacks as
  certificates that wait for nothing any more (`HaveReported`), and a full count then means
  all of them, hence `IsFiniteSet(Certs)` among the assumptions and that a chain has no
  certificate twice. A chain with a certificate that was checked a second time
  (`CheckedTwice`) is left out: there the count proves nothing, as `MCRevocation_twice.cfg`
  shows. `OnceInv` is what the count rests on: a certificate that can be
  decoded waits for one thing at a time, a tick, a request or a timer, and one that cannot
  has reported an error, or has a tick due that will, before any second callback. `CertInv`
  says that one that has reported without an error is good, `TickInv` the same of the
  callbacks still due, `CacheInv` of the responses in the cache, whichever of four
  operations put them there. In `CrlInv`, `Knows(list, u, t)` says that a CRL lists all
  that was revoked at its URL before the time `t`: for the published one that is now, for
  a file the time it was written, for an entry in memory its expiry less two validity
  times (`MemoryInv`: it may have been read from a file that was one such time old). A walk
  that awaits a fetch awaits one of its own URL (`PendingInv`, `WalkInv`), so that what it
  gets is a CRL of that URL. `StillWaiting` and `ReportStep` are what the actions of the
  OCSP check have in common; `ChainTicks` says which ticks a chain leaves when it is looked
  up at once, by `FlattenSeqElements`, an induction over the parts of a flattened sequence.
* `StatementCompletesOnce`, `ResultsKeepTheirUrls` and `FetchesRowsOnce`: the
  invariants `CompletesOnce`, `RefreshesOwnResult` and `RowsOnce` for any number of
  contexts, fetches, chunks, polls and failures, with `NextResult` at any time. None is
  inductive: nothing in `CompletesOnce` keeps a second execution, or an execution beside
  an aggregation, from being answered. `Once` ties what complete
  was told to where the context is, `Shape` and `Own` say which queries a context can
  have until it is moved on, and `RequestInv` that a request in flight belongs to the query of its context
  and to somebody who waits for it; `Unique`, that a context has no two requests for
  the same purpose, is what makes an answer leave nothing due behind it. `Chunked` says
  that a refresh never changes how many chunks there are. `RowsOnce` relates what `each()`
  was given to urls that others replace: `Reads` says that a fetch rests at the chunk
  after those it has given, at one of the result's chunks, and in particular while it is
  interrupted; `Follows`, that a context on its way to its next state keeps its result
  and, if its urls are its own now, that they were before. Several
  results are the exception of `CompletesOnce`. `StatementTypes`
  is the type invariant. The lemmas `InvokeComplete` and those that follow it say what
  each handler of a response does to one context; then there is one lemma per action.
* `RowsTellTheTruth`, `RowsComplete`, `TransferCleansUp` and `ObjectsAreKept`:
  `ReportedIsThere`, `EveryFileHasItsRow`, `NothingLeftBehind` and `FormerObjectKept` for
  any number of files, parts, retries, polls and failures; and `TransferTypes`, by which
  the stage only ever holds whole objects. The invariant has two halves. `Listing` is
  about the lists: rows and queue together are the lists begun so far, unless an upload
  has failed (`Ordered`); no file is in both (`Apart`); the rows are true (`Reported`);
  a file without a row that is not worked on is untouched (`Untouched`). `Work` is about
  the file at the head of the queue: what the service holds of a multipart upload is
  what was sent, without gaps (`Session`), the header that was read is not newer than
  the body nor that than the object (`FileInv`), and the temporary directories (`Disk`).
  `ReportedIsThere` needs both: a step on one file must leave the rows of the others
  true, and the status it leaves must be true before it is recorded. `ListFacts` says of
  `FileMetas` that it lists the files of a group, each once and in increasing order, so
  that `RowsComplete` also says that every file has exactly one row;
  `UploadStep`, `DownloadStep`, `AgainStep` and `RecordStep` carry the parts that many
  actions have in common. TLC checks the same invariant on the instance of `transfer`.

Some definitions were changed by these proofs: `MetasWithUrl` and `TokenHeader` had CASE
guards that overlap, of which TLC takes the first but the logic any one; they are
disjoint now. `FileMetas` is written as "the i-th smallest", so that it can be reasoned
about without induction, and so are the ticks that `RowStreams.doLoad` adds. The proof of
`ChunksAreReleased` failed for two streams and rows in the response, a case the instance
of `rows` does not have; TLC then showed a chunk that stays in memory, and `RowsReleased`
has had the exception of `RowsInOrder` since.

Only model-checked: the liveness properties. They need reasoning about ENABLED that the
prover does not offer. The induction theorems of the library take
an operator as a parameter, which the installed backends cannot instantiate; `LeastNatural`
and `Induction` of `ResultProofs` and `TransportProofs` are the same principle with a set in
its place, which is enough where what is to be shown can be written as membership in a set,
as for `RowsBefore` and `FlattenSeq`. The other recursions of the models are state machines.

## 5. Not modelled

Cryptography, ASN.1 and signatures, the contents of browser redirects and cloud SDKs
are I/O or pure functions; what the code makes of their outcome is modelled.
Configuration (one independent check per option), conversion and formatting of column
values, errors, secrets masking, logging, telemetry and minicore have no order to get
wrong. The stateless authenticators copy a credential into the login body and are the
kinds `password` and `client` of `Authentication`. Proxies and agent options are
computed from strings; the cache of agents is keyed by them. `result/chunk_cache.js`
is used by no module of the driver. Of the bind uploader the CSV splitting is left
out. A crash between `truncate` and `store` empties the credential file; this is
modelled and no property excludes it, since a lost cache means one more login.

## 6. What is left

Every safety invariant and every action property of the passing runs has a theorem; the
liveness properties stay with TLC. Of the code, the configuration and the column conversions are the largest parts
without a model; see section 5.
