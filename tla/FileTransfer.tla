----------------------------- MODULE FileTransfer -----------------------------
(***************************************************************************)
(* PUT and GET: the file transfer agent and the storage utilities below it *)
(* (lib/file_transfer_agent).                                              *)
(*                                                                         *)
(* The agent is sequential: the small files first, then the large ones.    *)
(* What can go wrong is in the storage service, whose answers are chosen   *)
(* here: requests fail, answers get lost, the stage token expires, another *)
(* session replaces an object while it is downloaded.  An answer becomes a *)
(* resultStatus in the utility of the store, and the retry loop above it   *)
(* only sees that status.                                                  *)
(*                                                                         *)
(* Contents are abstract: an object of the stage has a version (0 is what  *)
(* was there before, 1 what this command or another session wrote) and the *)
(* set of its parts.  The encryption envelope is stored with an object, so *)
(* its version is the object's.                                            *)
(***************************************************************************)
EXTENDS Integers, Sequences, FiniteSets, SequencesExt

CONSTANTS
    NumFiles,   \* files of the command
    Jobs,       \* the commands that are tried, a subset of AnyJob
    MaxRetry,   \* DEFAULT_MAX_RETRY
    MaxPolls,   \* times the header is read after an upload
    Parts,      \* parts of a file above the multipart threshold
    MaxFaults,  \* bound: requests and local file operations that fail
    MayExpire,  \* whether the stage token may expire
    MayReplace  \* whether another session may replace an object

\* stream: the data comes with the statement (array binds) and not from files
\* token: GCS gave an access token and not presigned URLs
\* multi: enableExperimentalMultipartUploads
\* numeric: a failed request has its HTTP status in err.code; axios 1 has a
\*   string there, the mocks of the repository's tests a number
AnyJob == [cmd : {"UPLOAD", "DOWNLOAD"}, store : {"S3", "AZURE", "GCS", "LOCAL_FS"},
           stream : BOOLEAN, overwrite : BOOLEAN, encrypted : BOOLEAN,
           token : BOOLEAN, multi : BOOLEAN, numeric : BOOLEAN]

ASSUME FileTransferAssumption ==
    /\ NumFiles \in Nat \ {0}
    /\ Jobs \subseteq AnyJob
    \* only the array binds come as a stream, and they are uploaded
    /\ \A j \in Jobs : j.stream => j.cmd = "UPLOAD"
    /\ MaxRetry \in Nat \ {0}
    /\ MaxPolls \in Nat \ {0}
    /\ Parts \in Nat \ {0}
    /\ MaxFaults \in Nat
    /\ {MayExpire, MayReplace} \subseteq BOOLEAN

VARIABLES
    job,      \* the command
    large,    \* the files above DATA_SIZE_THRESHOLD
    pc,       \* what the agent does next
    queue,    \* files of the current list that are not done
    group,    \* the current list: small or large files
    meta,     \* per file: resultStatus, client, presigned URL, ...
    call,     \* local variables of the retry loop
    upload,   \* the multipart upload under way
    results,  \* results: the files with a row, in order
    outcome,  \* how the command ended
    tmpDirs,  \* files whose temporary directory is on the disk
    local,    \* per file: what a download left on the disk
    stage,    \* per file: the object on the stage
    expired,  \* the stage token has expired
    faults    \* failures so far

agentVars == <<pc, queue, group, meta, call, upload, results, outcome, tmpDirs, local>>
vars == <<job, large, agentVars, stage, expired, faults>>

Files == 1 .. NumFiles
AllParts == 1 .. Parts
NoObject == [version |-> -1, parts |-> {}]
Whole(v) == [version |-> v, parts |-> AllParts]

\* File headers: none (null), one without metadata, or that of a version.
NullHeader == -2
EmptyHeader == -1

resultStatus == {"undefined", "ERROR", "UPLOADED", "DOWNLOADED", "SKIPPED",
                 "RENEW_TOKEN", "RENEW_PRESIGNED_URL", "NOT_FOUND_FILE", "NEED_RETRY",
                 "NEED_RETRY_WITH_LOWER_CONCURRENCY"}
Renewals == {"RENEW_TOKEN", "RENEW_PRESIGNED_URL"}

file == Head(queue)
IsGCS == job.store = "GCS"
IsUpload == job.cmd = "UPLOAD"

\* The files of a list, in the order of fileMetadata: its i-th file has i files of
\* the list up to itself.
InList(g) == {f \in Files : f \in large <=> g = "large"}
UpTo(g, f) == {h \in InList(g) : h <= f}
FileMetas(g) ==
    [i \in 1 .. Cardinality(InList(g)) |-> CHOOSE f \in InList(g) : Cardinality(UpTo(g, f)) = i]

NewMeta == [status |-> "undefined", client |-> TRUE, url |-> FALSE,
            lastCode |-> "none"]
NewCall == [retry |-> 0, header |-> NullHeader, polls |-> 0, big |-> FALSE,
            body |-> NullHeader]
NoUpload == [open |-> FALSE, pos |-> 0, held |-> {}, err |-> "none"]

Init ==
    /\ job \in Jobs
    /\ large \in SUBSET Files
    /\ pc = "execute"
    /\ queue = << >>
    /\ group = "small"
    /\ meta = [f \in Files |-> NewMeta]
    /\ call = NewCall
    /\ upload = NoUpload
    /\ results = << >>
    /\ outcome = "running"
    /\ tmpDirs = {}
    /\ local = [f \in Files |-> "none"]
    /\ stage \in [Files -> IF IsUpload THEN {NoObject, Whole(0)} ELSE {Whole(0)}]
    /\ expired = FALSE
    /\ faults = 0

-----------------------------------------------------------------------------
(* The storage service and the disk. *)

Failures == {"bad", "throttled", "aborted", "network", "lost"}

\* A request carries the token, unless its URL is presigned.  A failure is an
\* HTTP 400, one of the statuses to retry, an aborted connection, no answer at
\* all, or an answer that got lost when the request had been carried out.
Answers ==
    IF expired /\ ~meta[file].url THEN {"expired"}
    ELSE {"ok"} \cup (IF faults < MaxFaults THEN Failures ELSE {})

\* A HEAD may still miss the object of a moment ago.  A URL presigned for the PUT
\* authorises no GET: it is refused.  GCS asks for nothing when the file was just
\* transferred.
JustTransferred == IsGCS /\ meta[file].status \in {"UPLOADED", "DOWNLOADED"}
Refused == stage[file] = NoObject \/ (IsUpload /\ meta[file].url)
HeaderAnswers ==
    IF JustTransferred THEN {"ok"} ELSE
    {IF a = "ok" /\ Refused THEN "notFound" ELSE a : a \in Answers \ {"lost"}}
        \cup (IF faults < MaxFaults THEN {"notFound"} ELSE {})

\* An answer other than the expected one uses up a failure.
Count(a) ==
    faults' = IF \/ a \in Failures \cup {"308"}
                 \/ a = "notFound" /\ ~Refused
              THEN faults + 1 ELSE faults

LocalFault == faults < MaxFaults /\ faults' = faults + 1

-----------------------------------------------------------------------------
(* What the utilities make of an answer. *)

\* getFileHeader() of S3; Azure's answers are read in the same way.
S3Header(a) ==
    CASE a = "ok" -> [status |-> "UPLOADED", header |-> stage[file].version, throws |-> FALSE]
      [] a = "notFound" ->
            [status |-> "NOT_FOUND_FILE", header |-> EmptyHeader, throws |-> FALSE]
      [] a \in {"expired", "bad"} ->
            [status |-> "RENEW_TOKEN", header |-> NullHeader, throws |-> FALSE]
      [] OTHER -> [status |-> "ERROR", header |-> NullHeader, throws |-> FALSE]

AzureHeader(a) == S3Header(a)

\* getFileHeader() of GCS with a presigned URL: the body is asked for, and what
\* comes leaves the status alone.  Without an answer there is no err.response.
PresignedHeader(a) ==
    [status |-> IF a = "notFound" THEN "NOT_FOUND_FILE" ELSE meta[file].status,
     header |-> EmptyHeader, throws |-> a = "network"]

\* getFileHeader() of GCS with a token; a client that was "renewed" is undefined.
TokenHeader(a) ==
    IF ~meta[file].client \/ a \in {"network", "aborted"}
    THEN [status |-> meta[file].status, header |-> NullHeader, throws |-> TRUE]
    ELSE CASE a = "ok" ->
            [status |-> "UPLOADED", header |-> stage[file].version, throws |-> FALSE]
      [] a = "notFound" ->
            [status |-> "NOT_FOUND_FILE", header |-> EmptyHeader, throws |-> FALSE]
      [] a = "expired" -> [status |-> "RENEW_TOKEN", header |-> EmptyHeader, throws |-> FALSE]
      [] a = "throttled" -> [status |-> "NEED_RETRY", header |-> NullHeader, throws |-> FALSE]
      [] OTHER -> [status |-> "ERROR", header |-> NullHeader, throws |-> TRUE]

GcsHeader(a) ==
    IF JustTransferred
    THEN [status |-> meta[file].status, header |-> stage[file].version, throws |-> FALSE]
    ELSE IF meta[file].url THEN PresignedHeader(a) ELSE TokenHeader(a)

getFileHeader(a) ==
    CASE job.store = "S3" -> S3Header(a)
      [] job.store = "AZURE" -> AzureHeader(a)
      [] OTHER -> GcsHeader(a)

\* applyS3UploadError, applyAzureUploadError
S3Error(a) ==
    CASE a = "expired" -> "RENEW_TOKEN"
      [] a = "aborted" -> "NEED_RETRY_WITH_LOWER_CONCURRENCY"
      [] OTHER -> "NEED_RETRY"

AzureError(a) == IF a = "expired" THEN "RENEW_TOKEN" ELSE "NEED_RETRY"

\* applyGcsUploadError: only a number in err.code is told from other failures,
\* and a second 400 in a row does not renew the URL again.
GcsError(a) ==
    IF ~job.numeric THEN "NEED_RETRY"
    ELSE CASE a = "expired" /\ ~meta[file].url -> "RENEW_TOKEN"
           [] a = "bad" /\ meta[file].url /\ meta[file].lastCode # "bad" ->
                "RENEW_PRESIGNED_URL"
           [] OTHER -> "NEED_RETRY"

SetStatus(st) == [meta EXCEPT ![file].status = st]

\* uploadFileStream of each store, and the end of its multipart upload.  err.code
\* of the last failure matters to GCS only.
S3Upload(a) == SetStatus(IF a = "ok" THEN "UPLOADED" ELSE S3Error(a))

AzureUpload(a) == SetStatus(IF a = "ok" THEN "UPLOADED" ELSE AzureError(a))

GcsUpload(a) ==
    IF a = "ok" THEN SetStatus("UPLOADED")
    ELSE [meta EXCEPT ![file].status = GcsError(a),
                      ![file].lastCode = IF job.numeric THEN a ELSE "string"]

Upload(a) ==
    CASE job.store = "S3" -> S3Upload(a)
      [] job.store = "AZURE" -> AzureUpload(a)
      [] OTHER -> GcsUpload(a)

\* nativeDownloadFile of each store: the status, and what is in the place of the
\* file.  The body is written as it comes, encrypted if the object is; Azure and GCS
\* write while they read, so a failure may leave a part of it.  GCS compares err.code
\* with the error name of S3, which no HTTP client gives.
Body == IF job.encrypted THEN "cipher" ELSE "clear"

S3Download(a) ==
    IF a = "ok" THEN [status |-> "DOWNLOADED", local |-> Body]
    ELSE [status |-> S3Error(a), local |-> local[file]]

AzureDownload(a) ==
    IF a = "ok" THEN [status |-> "DOWNLOADED", local |-> Body]
    ELSE [status |-> AzureError(a), local |-> "partial"]

GcsDownload(a) ==
    IF a = "ok" THEN [status |-> "DOWNLOADED", local |-> Body]
    ELSE [status |-> "NEED_RETRY", local |-> "partial"]

Download(a) ==
    CASE job.store = "S3" -> S3Download(a)
      [] job.store = "AZURE" -> AzureDownload(a)
      [] OTHER -> GcsDownload(a)

-----------------------------------------------------------------------------
(* execute() *)

Reject ==
    /\ pc' = "done"
    /\ outcome' = "thrown"

\* updateFileMetasWithPresignedUrl: the PUT is run again for each file, unless
\* there is a token, whose folder a new resolution would leave.
MetasWithUrl ==
    CASE IsGCS /\ IsUpload /\ ~job.token ->
            [f \in Files |-> [meta[f] EXCEPT !.url = TRUE]]
      [] IsGCS /\ ~IsUpload -> [f \in Files |-> [meta[f] EXCEPT !.url = ~job.token]]
      [] OTHER -> meta

\* Its queries fail, and with them the command.
urlsFail ==
    /\ \/ pc = "execute"
       \/ pc = "renewUrls"
    /\ IsGCS /\ IsUpload /\ ~job.token
    /\ LocalFault
    /\ Reject
    /\ UNCHANGED <<job, large, queue, group, meta, call, upload, results, tmpDirs, local,
                   stage, expired>>

\* The command is parsed; the files are split by size, the small ones go first.
execute ==
    /\ pc = "execute"
    /\ ~job.stream
    /\ meta' = MetasWithUrl
    /\ queue' = FileMetas("small")
    /\ pc' = "next"
    /\ UNCHANGED <<job, large, group, call, upload, results, outcome, tmpDirs, local,
                   stage, expired, faults>>

\* No file matches, a compression is not supported, the number of encryption
\* materials is wrong, the local path is no directory.
parseCommandFails ==
    /\ pc = "execute"
    /\ LocalFault
    /\ Reject
    /\ UNCHANGED <<job, large, queue, group, meta, call, upload, results, tmpDirs, local,
                   stage, expired>>

\* The data of the statement is uploaded as one file, without a row in results.
\* The local store has no uploadOneFileStream.
executeFileStream ==
    /\ pc = "execute"
    /\ job.stream
    /\ meta' = MetasWithUrl
    /\ queue' = <<1>>
    /\ call' = NewCall
    /\ IF job.store = "LOCAL_FS" THEN Reject ELSE pc' = "attempt" /\ UNCHANGED outcome
    /\ UNCHANGED <<job, large, group, upload, results, tmpDirs, local, stage, expired,
                   faults>>

\* After the small files come the large ones, whatever became of the small.
nextList ==
    /\ pc = "next"
    /\ queue = << >>
    /\ IF group = "small"
       THEN /\ group' = "large"
            /\ queue' = FileMetas("large")
            /\ UNCHANGED pc
       ELSE /\ pc' = "result"
            /\ UNCHANGED <<group, queue>>
    /\ UNCHANGED <<job, large, meta, call, upload, results, outcome, tmpDirs, local, stage,
                   expired, faults>>

\* The statement asks for the result: an ERROR row of an upload is thrown, the
\* other rows are returned as they are.
result ==
    /\ pc = "result"
    /\ pc' = "done"
    /\ outcome' = IF IsUpload /\ \E i \in DOMAIN results : meta[results[i]].status = "ERROR"
                  THEN "thrown" ELSE "returned"
    /\ UNCHANGED <<job, large, queue, group, meta, call, upload, results, tmpDirs, local,
                   stage, expired, faults>>

-----------------------------------------------------------------------------
(* One file: the retry loop of remote_storage_util.js *)

\* The catch clauses of uploadOneFile and downloadOneFile replace a status only
\* when there is one.  With a stream, the exception leaves execute().
Throw(m) ==
    IF job.stream
    THEN Reject /\ meta' = m
    ELSE /\ meta' = [m EXCEPT ![file].status = IF @ = "undefined" THEN @ ELSE "ERROR"]
         /\ pc' = "ended"
         /\ UNCHANGED outcome

\* The end of an attempt: return, try again, or throw the last error.
Judge(m) ==
    IF m[file].status \in {"UPLOADED"} \cup Renewals
    THEN /\ meta' = m
         /\ pc' = IF m[file].status = "UPLOADED" /\ ~job.stream THEN "poll" ELSE "ended"
         /\ UNCHANGED <<call, outcome>>
    ELSE IF call.retry + 1 < MaxRetry
         THEN /\ meta' = m
              /\ call' = [call EXCEPT !.retry = @ + 1]
              /\ pc' = "attempt"
              /\ UNCHANGED outcome
         ELSE Throw(m) /\ UNCHANGED call

\* A temporary directory is made, the file compressed there, its digest taken.
\* What is sent may be above the multipart threshold.
uploadOneFile ==
    /\ pc = "next"
    /\ queue # << >>
    /\ IsUpload
    /\ tmpDirs' = tmpDirs \cup {file}
    /\ \/ \E big \in BOOLEAN :
            /\ big => job.multi /\ job.store # "LOCAL_FS" /\ ~meta[file].url
            /\ call' = [NewCall EXCEPT !.big = big]
            /\ pc' = "attempt"
            /\ UNCHANGED <<meta, outcome, faults>>
       \/ LocalFault /\ Throw(meta) /\ UNCHANGED call
    /\ UNCHANGED <<job, large, queue, group, upload, results, local, stage, expired>>

\* LocalUtil copies the file.
copyToLocalStage ==
    /\ pc = "attempt"
    /\ IsUpload
    /\ job.store = "LOCAL_FS"
    /\ stage' = [stage EXCEPT ![file] = Whole(1)]
    /\ meta' = SetStatus("UPLOADED")
    /\ pc' = "ended"
    /\ UNCHANGED <<job, large, queue, group, call, upload, results, outcome, tmpDirs, local,
                   expired, faults>>

\* Without overwrite: a file that is there is skipped, one that is not is sent,
\* any other status ends the attempt.
checkExisting ==
    /\ pc = "attempt"
    /\ IsUpload /\ ~job.overwrite /\ job.store # "LOCAL_FS"
    /\ \E a \in HeaderAnswers :
        LET h == getFileHeader(a)
            m == SetStatus(h.status)
        IN  /\ Count(a)
            /\ IF h.throws THEN Throw(m) /\ UNCHANGED call
               ELSE IF h.header # NullHeader /\ h.status = "UPLOADED"
               THEN /\ meta' = SetStatus("SKIPPED")
                    /\ pc' = "ended"
                    /\ UNCHANGED <<call, outcome>>
               ELSE IF h.status = "NOT_FOUND_FILE"
               THEN /\ meta' = m
                    /\ pc' = "send"
                    /\ UNCHANGED <<call, outcome>>
               ELSE Judge(m)
    /\ UNCHANGED <<job, large, queue, group, upload, results, tmpDirs, local, stage, expired>>

Sending ==
    /\ IsUpload /\ job.store # "LOCAL_FS"
    /\ \/ pc = "send"
       \/ pc = "attempt" /\ job.overwrite

\* GCS takes the token from the client.
ClientMissing == IsGCS /\ ~meta[file].url /\ ~meta[file].client

\* uploadFileStream: one PUT.
uploadFileStream ==
    /\ Sending
    /\ ~call.big
    /\ \E a \in Answers :
        /\ IF ClientMissing THEN Throw(meta) /\ UNCHANGED <<call, faults>>
           ELSE Count(a) /\ Judge(Upload(a))
        /\ stage' = IF ~ClientMissing /\ a \in {"ok", "lost"}
                    THEN [stage EXCEPT ![file] = Whole(1)] ELSE stage
    /\ UNCHANGED <<job, large, queue, group, upload, results, tmpDirs, local, expired>>

\* uploadFileMultipart and uploadFileResumable.  S3 and GCS open a session first;
\* without one there is nothing to abort.
OpenSession ==
    /\ Sending
    /\ call.big
    /\ ~ClientMissing
    /\ \E a \in Answers \ {"lost"} :
        /\ Count(a)
        /\ IF a = "ok"
           THEN /\ upload' = [NoUpload EXCEPT !.open = TRUE]
                /\ pc' = "part"
                /\ UNCHANGED <<meta, call, outcome>>
           ELSE UNCHANGED upload /\ Judge(Upload(a))
    /\ UNCHANGED <<job, large, queue, group, results, tmpDirs, local, stage, expired>>

createMultipartUpload == job.store = "S3" /\ OpenSession
startResumable == IsGCS /\ OpenSession

\* Azure stages blocks without a session.
startBlocks ==
    /\ job.store = "AZURE"
    /\ Sending
    /\ call.big
    /\ upload' = NoUpload
    /\ pc' = "part"
    /\ UNCHANGED <<job, large, queue, group, meta, call, results, outcome, tmpDirs, local,
                   stage, expired, faults>>

\* The client of a token upload was renewed away: gcs_util cannot resume, and
\* the single PUT it falls back to has no token either.
startResumableFails ==
    /\ Sending
    /\ call.big
    /\ ClientMissing
    /\ Throw(meta)
    /\ UNCHANGED <<job, large, queue, group, call, upload, results, tmpDirs, local, stage,
                   expired, faults>>

\* Mutant: a part that fails ends the attempt without an abort.
uploadPartNoAbort ==
    /\ pc = "part"
    /\ job.store = "S3"
    /\ upload.pos < Parts
    /\ \E a \in Answers :
        /\ Count(a)
        /\ IF a = "ok"
           THEN /\ upload' = [upload EXCEPT !.open = TRUE, !.pos = @ + 1,
                                            !.held = @ \cup {upload.pos + 1}]
                /\ UNCHANGED <<pc, meta, call, outcome>>
           ELSE UNCHANGED upload /\ Judge(Upload(a))
    /\ UNCHANGED <<job, large, queue, group, results, tmpDirs, local, stage, expired>>

\* readChunk and the request for one part; a short read is a failure too.
SendPart ==
    /\ pc = "part"
    /\ upload.pos < Parts
    /\ \E a \in Answers :
        /\ Count(a)
        /\ IF a = "ok"
           THEN /\ upload' = [upload EXCEPT !.open = TRUE, !.pos = @ + 1,
                                            !.held = @ \cup {upload.pos + 1}]
                /\ UNCHANGED pc
           ELSE /\ upload' = [upload EXCEPT !.err = a]
                /\ pc' = "abort"
    /\ UNCHANGED <<job, large, queue, group, meta, call, results, outcome, tmpDirs, local,
                   stage, expired>>

uploadPart == job.store = "S3" /\ SendPart
stageBlock == job.store = "AZURE" /\ SendPart

\* The parts become the object; the answer may get lost.
Complete ==
    /\ pc = "part"
    /\ upload.pos = Parts
    /\ \E a \in Answers :
        /\ Count(a)
        /\ stage' = IF a \in {"ok", "lost"}
                    THEN [stage EXCEPT ![file] = [version |-> 1, parts |-> upload.held]]
                    ELSE stage
        /\ IF a = "ok"
           THEN upload' = NoUpload /\ Judge(Upload("ok"))
           ELSE /\ upload' = [upload EXCEPT !.err = a]
                /\ pc' = "abort"
                /\ UNCHANGED <<meta, call, outcome>>
    /\ UNCHANGED <<job, large, queue, group, results, tmpDirs, local, expired>>

completeMultipartUpload == job.store = "S3" /\ Complete
commitBlockList == job.store = "AZURE" /\ Complete

\* Mutant: every chunk that was sent counts.
SentSoFar(held) == upload.pos + 1

\* Where a chunk goes after a 308: the offset the service says it has.
Committed(held) == Cardinality(held)

\* One chunk of a resumable upload.  With the last one the service completes the
\* object and answers 200; else it answers 308 and the offset it has, which may
\* not include this chunk, or no usable offset at all.
sendChunk ==
    /\ pc = "part"
    /\ IsGCS
    /\ \E a \in Answers \cup (IF faults < MaxFaults THEN {"308"} ELSE {}) :
        LET all == upload.held \cup {upload.pos + 1}
            kept == IF a = "308" THEN upload.held ELSE all
        IN  /\ Count(a)
            /\ stage' = IF a \in {"ok", "lost"} /\ upload.pos + 1 = Parts
                        THEN [stage EXCEPT ![file] = [version |-> 1, parts |-> all]]
                        ELSE stage
            /\ IF a = "ok" /\ upload.pos + 1 = Parts
               THEN upload' = NoUpload /\ Judge(Upload("ok"))
               ELSE /\ IF a = "ok" \/ (a = "308" /\ upload.held # {})
                       THEN /\ upload' = [upload EXCEPT !.held = kept, !.pos = Committed(kept)]
                            /\ UNCHANGED pc
                       ELSE /\ upload' = [upload EXCEPT !.err = a]
                            /\ pc' = "abort"
                    /\ UNCHANGED <<meta, call, outcome>>
    /\ UNCHANGED <<job, large, queue, group, results, tmpDirs, local, expired>>

\* The clean-up after a failure, whose own failure is suppressed.
Abort(after) ==
    /\ pc = "abort"
    /\ \E a \in (IF upload.open THEN Answers ELSE {"ok"}) :
        /\ Count(a)
        /\ stage' = IF upload.open /\ a \in {"ok", "lost"}
                    THEN [stage EXCEPT ![file] = after] ELSE stage
    /\ upload' = NoUpload
    /\ Judge(Upload(upload.err))
    /\ UNCHANGED <<job, large, queue, group, results, tmpDirs, local, expired>>

\* AbortMultipartUpload and the DELETE of a session leave the object alone.  Azure
\* deletes the object itself.
\* Mutant: S3 deletes it too.
abortAndDelete == job.store = "S3" /\ Abort(NoObject)
abortMultipartUpload == job.store = "S3" /\ Abort(stage[file])
deleteSession == IsGCS /\ Abort(stage[file])
deleteIfExists == job.store = "AZURE" /\ Abort(NoObject)

\* uploadOneFileWithRetry reads the header until the file is there, and with it
\* overwrites the status of the upload.
pollHeader ==
    /\ pc = "poll"
    /\ \E a \in HeaderAnswers :
        LET h == getFileHeader(a)
            m == SetStatus(h.status)
        IN  /\ Count(a)
            /\ IF h.throws THEN Throw(m) /\ UNCHANGED call
               ELSE /\ meta' = m
                    /\ IF h.status = "NOT_FOUND_FILE" /\ call.polls + 1 < MaxPolls
                       THEN call' = [call EXCEPT !.polls = @ + 1] /\ UNCHANGED pc
                       ELSE pc' = "ended" /\ UNCHANGED call
                    /\ UNCHANGED outcome
    /\ UNCHANGED <<job, large, queue, group, upload, results, tmpDirs, local, stage, expired>>

\* execute() of a stream is over, whatever the status.
streamEnds ==
    /\ pc = "ended"
    /\ job.stream
    /\ pc' = "result"
    /\ UNCHANGED <<job, large, queue, group, meta, call, upload, results, outcome, tmpDirs,
                   local, stage, expired, faults>>

-----------------------------------------------------------------------------
(* Downloads *)

\* downloadOneFile: a temporary directory, and the header of the object; what
\* getFileHeader() says of its status is not looked at.
downloadOneFile ==
    /\ pc = "next"
    /\ queue # << >>
    /\ ~IsUpload
    /\ tmpDirs' = tmpDirs \cup {file}
    /\ \/ /\ job.store = "LOCAL_FS"
          /\ call' = NewCall
          /\ pc' = "attempt"
          /\ UNCHANGED <<meta, outcome, faults>>
       \/ LocalFault /\ Throw(meta) /\ UNCHANGED call
       \/ /\ job.store # "LOCAL_FS"
          /\ \E a \in HeaderAnswers :
                LET h == getFileHeader(a)
                    m == SetStatus(h.status)
                IN  /\ Count(a)
                    /\ call' = [NewCall EXCEPT !.header = h.header]
                    /\ IF h.throws THEN Throw(m)
                       ELSE meta' = m /\ pc' = "attempt" /\ UNCHANGED outcome
    /\ UNCHANGED <<job, large, queue, group, upload, results, local, stage, expired>>

\* One attempt of the retry loop of downloadOneFile.
nativeDownloadFile ==
    /\ pc = "attempt"
    /\ ~IsUpload
    /\ job.store # "LOCAL_FS"
    /\ \E a \in Answers :
        LET d == Download(a) IN
        /\ Count(a)
        /\ local' = [local EXCEPT ![file] = d.local]
        /\ IF a = "ok"
           THEN /\ meta' = SetStatus(d.status)
                /\ call' = [call EXCEPT !.body = stage[file].version]
                /\ pc' = IF job.encrypted THEN "decrypt" ELSE "ended"
                /\ UNCHANGED outcome
           ELSE Judge(SetStatus(d.status))
    /\ UNCHANGED <<job, large, queue, group, upload, results, tmpDirs, stage, expired>>

\* LocalUtil copies the file, and does not decrypt.
copyFromLocalStage ==
    /\ pc = "attempt"
    /\ ~IsUpload
    /\ job.store = "LOCAL_FS"
    /\ local' = [local EXCEPT ![file] = "clear"]
    /\ meta' = SetStatus("DOWNLOADED")
    /\ pc' = "ended"
    /\ UNCHANGED <<job, large, queue, group, call, upload, results, outcome, tmpDirs, stage,
                   expired, faults>>

\* The envelope a file is decrypted with: the one that came with the body when
\* the URL is presigned, else the one of the header read before.
Envelope == IF meta[file].url THEN call.body ELSE call.header

\* decryptFile into the temporary directory, copy, and removal of both the file
\* and the directory.
decryptFile ==
    /\ pc = "decrypt"
    /\ Envelope = call.body
    /\ local' = [local EXCEPT ![file] = "clear"]
    /\ tmpDirs' = tmpDirs \ {file}
    /\ pc' = "ended"
    /\ UNCHANGED <<job, large, queue, group, meta, call, upload, results, outcome, stage,
                   expired, faults>>

\* There is no envelope, or a file operation fails.
decryptFails ==
    /\ pc = "decrypt"
    /\ \/ Envelope \in {NullHeader, EmptyHeader} /\ UNCHANGED faults
       \/ LocalFault
    /\ Throw(meta)
    /\ UNCHANGED <<job, large, queue, group, call, upload, results, tmpDirs, local, stage,
                   expired>>

\* The envelope is that of another version: final() of the cipher throws in an
\* event handler, which ends the process, or the padding happens to be right.
decryptGarbles ==
    /\ pc = "decrypt"
    /\ Envelope \notin {NullHeader, EmptyHeader, call.body}
    /\ \/ pc' = "done" /\ outcome' = "crashed" /\ UNCHANGED <<local, tmpDirs>>
       \/ /\ local' = [local EXCEPT ![file] = "garbled"]
          /\ tmpDirs' = tmpDirs \ {file}
          /\ pc' = "ended"
          /\ UNCHANGED outcome
    /\ UNCHANGED <<job, large, queue, group, meta, call, upload, results, stage, expired,
                   faults>>

-----------------------------------------------------------------------------
(* uploadFilesinSequential, downloadFilesinSequential *)

\* The temporary directory of an upload goes in every case.
RemoveTmpDir == tmpDirs' = IF IsUpload THEN tmpDirs \ {file} ELSE tmpDirs

\* Mutant: the file whose token expired is passed over.
renewClientForOthers ==
    /\ pc = "ended"
    /\ ~job.stream
    /\ meta[file].status = "RENEW_TOKEN"
    /\ queue' = Tail(queue)
    /\ RemoveTmpDir
    /\ pc' = "next"
    /\ UNCHANGED <<job, large, meta, group, call, upload, results, outcome, local, stage,
                   expired, faults>>

\* renewExpiredClient() is a stub: the client of this file and the ones behind it
\* is undefined from here on, and the file is tried again.
renewClient ==
    /\ pc = "ended"
    /\ ~job.stream
    /\ meta[file].status = "RENEW_TOKEN"
    /\ meta' = [f \in Files |-> IF f \in ToSet(queue)
                                 THEN [meta[f] EXCEPT !.client = FALSE] ELSE meta[f]]
    /\ RemoveTmpDir
    /\ pc' = "next"
    /\ UNCHANGED <<job, large, queue, group, call, upload, results, outcome, local, stage,
                   expired, faults>>

\* The loop asks for new URLs,
renewUrl ==
    /\ pc = "ended"
    /\ ~job.stream
    /\ meta[file].status = "RENEW_PRESIGNED_URL"
    /\ RemoveTmpDir
    /\ pc' = "renewUrls"
    /\ UNCHANGED <<job, large, queue, group, meta, call, upload, results, outcome, local,
                   stage, expired, faults>>

\* and tries the file again.
urlsRenewed ==
    /\ pc = "renewUrls"
    /\ meta' = MetasWithUrl
    /\ pc' = "next"
    /\ UNCHANGED <<job, large, queue, group, call, upload, results, outcome, tmpDirs, local,
                   stage, expired, faults>>

\* Mutant: the loop stays at a file that was skipped.
recordAndStay ==
    /\ pc = "ended"
    /\ IsUpload /\ ~job.stream
    /\ meta[file].status \notin Renewals
    /\ queue' = IF meta[file].status = "SKIPPED" THEN queue ELSE Tail(queue)
    /\ results' = IF meta[file].status = "SKIPPED" THEN results ELSE Append(results, file)
    /\ RemoveTmpDir
    /\ pc' = "next"
    /\ UNCHANGED <<job, large, group, meta, call, upload, outcome, local, stage, expired,
                   faults>>

\* The file gets its row; an upload that failed is the last of its list,
recordUpload ==
    /\ pc = "ended"
    /\ IsUpload /\ ~job.stream
    /\ meta[file].status \notin Renewals
    /\ results' = Append(results, file)
    /\ queue' = IF meta[file].status = "ERROR" THEN << >> ELSE Tail(queue)
    /\ RemoveTmpDir
    /\ pc' = "next"
    /\ UNCHANGED <<job, large, group, meta, call, upload, outcome, local, stage, expired,
                   faults>>

\* a download that failed is not.
recordDownload ==
    /\ pc = "ended"
    /\ ~IsUpload
    /\ meta[file].status \notin Renewals
    /\ results' = Append(results, file)
    /\ queue' = Tail(queue)
    /\ pc' = "next"
    /\ UNCHANGED <<job, large, group, meta, call, upload, outcome, tmpDirs, local, stage,
                   expired, faults>>

-----------------------------------------------------------------------------
(* What others do *)

\* The stage token expires.
tokenExpires ==
    /\ MayExpire
    /\ outcome = "running"
    /\ ~expired
    /\ expired' = TRUE
    /\ UNCHANGED <<job, large, agentVars, stage, faults>>

\* Another session replaces an object that is downloaded.
objectReplaced ==
    /\ MayReplace
    /\ ~IsUpload
    /\ outcome = "running"
    /\ \E f \in Files :
        /\ stage[f].version = 0
        /\ stage' = [stage EXCEPT ![f] = Whole(1)]
    /\ UNCHANGED <<job, large, agentVars, expired, faults>>

Agent ==
    \/ urlsFail \/ execute \/ parseCommandFails \/ executeFileStream \/ nextList
    \/ result
    \/ uploadOneFile \/ copyToLocalStage \/ checkExisting \/ uploadFileStream
    \/ createMultipartUpload \/ startResumable \/ startResumableFails
    \/ startBlocks \/ uploadPart \/ stageBlock \/ completeMultipartUpload
    \/ commitBlockList \/ sendChunk \/ abortMultipartUpload \/ deleteSession
    \/ deleteIfExists \/ pollHeader \/ streamEnds
    \/ downloadOneFile \/ nativeDownloadFile \/ copyFromLocalStage \/ decryptFile
    \/ decryptFails \/ decryptGarbles
    \/ renewClient \/ renewUrl \/ urlsRenewed \/ recordUpload \/ recordDownload

Next == Agent \/ tokenExpires \/ objectReplaced

Spec == Init /\ [][Next]_vars

\* The agent goes on as long as it has something to do: every request is answered
\* or times out.
FairSpec == Spec /\ WF_vars(Agent)

-----------------------------------------------------------------------------
(* Properties *)

\* The variables have their types.  An object of the stage is whole: a multipart or
\* resumable upload completes only with all its parts.
ErrorCodes == Failures \cup {"none", "string", "expired", "308"}
FileMeta == [status : resultStatus, client : BOOLEAN, url : BOOLEAN, lastCode : ErrorCodes]
RetryLoop == [retry : 0 .. MaxRetry - 1, header : NullHeader .. 1, polls : 0 .. MaxPolls - 1,
              big : BOOLEAN, body : NullHeader .. 1]
Multipart == [open : BOOLEAN, pos : 0 .. Parts, held : SUBSET AllParts, err : ErrorCodes]
TypeOK ==
    /\ job \in Jobs
    /\ large \subseteq Files
    /\ pc \in {"execute", "next", "attempt", "send", "part", "abort", "poll", "decrypt",
               "ended", "renewUrls", "result", "done"}
    /\ queue \in Seq(Files)
    /\ group \in {"small", "large"}
    /\ meta \in [Files -> FileMeta]
    /\ call \in RetryLoop
    /\ upload \in Multipart
    /\ results \in Seq(Files)
    /\ outcome \in {"running", "returned", "thrown", "crashed"}
    /\ tmpDirs \subseteq Files
    /\ local \in [Files -> {"none", "partial", "cipher", "clear", "garbled"}]
    /\ stage \in [Files -> {NoObject, Whole(0), Whole(1)}]
    /\ expired \in BOOLEAN
    /\ faults \in 0 .. MaxFaults

\* A row says UPLOADED or SKIPPED only of a file that is on the stage with all its
\* parts, and UPLOADED only of what this command sent; it says DOWNLOADED only of
\* a file that is on the disk, decrypted, unless another session replaced the
\* object between the header and the body (which a presigned URL rules out).  A PUT of
\* a stream (the binds of a statement) that succeeds has its data on the stage too,
\* except that an expired token or URL ends it as a success.
ReportedIsThere ==
    /\ \A i \in DOMAIN results :
          LET f == results[i] IN
          /\ meta[f].status = "UPLOADED" => stage[f] = Whole(1)
          /\ meta[f].status = "SKIPPED" => stage[f] \in {Whole(0), Whole(1)}
          /\ meta[f].status = "DOWNLOADED" =>
                  \/ local[f] = "clear"
                  \/ local[f] = "garbled" /\ ~meta[f].url /\ stage[f].version = 1
    /\ job.stream /\ outcome = "returned" =>
          stage[1].parts = AllParts \/ meta[1].status \in Renewals

\* When the command returns, every file has one row, small files first and in
\* order, however often clients and URLs were renewed in between.
EveryFileHasItsRow ==
    ~job.stream /\ outcome = "returned" => results = FileMetas("small") \o FileMetas("large")

\* An upload that fails does not take away the object that was there: only Azure's
\* clean-up after a failed multipart upload deletes it.
FormerObjectKept ==
    [][\A f \in Files : stage[f] # NoObject /\ job.store # "AZURE" =>
            stage'[f] # NoObject]_vars

\* A multipart upload or a resumable session is completed or aborted before the file
\* is tried again, given up or reported, so none is left behind on the stage; an upload
\* leaves no temporary directory, whichever way it ends, and a download none for a
\* file that was decrypted.
NothingLeftBehind ==
    /\ upload.open => pc \in {"part", "abort"}
    /\ IsUpload /\ pc \in {"next", "renewUrls", "result", "done"} => tmpDirs = {}
    /\ \A f \in Files : local[f] \in {"clear", "garbled"} /\ job.encrypted
                            /\ job.store # "LOCAL_FS" => f \notin tmpDirs

\* A command ends, unless its token expires: then the files of S3 and Azure are
\* tried for ever with the credentials they had.
TransferEnds == []<>(outcome # "running" \/ expired)
=============================================================================
