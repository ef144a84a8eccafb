-------------------------- MODULE FileTransferProofs --------------------------
(***************************************************************************)
(* What a PUT or GET reports is there, every file gets its row, no upload  *)
(* takes away the object before it and nothing is left behind, for any     *)
(* number of files, parts, retries and failures.                           *)
(***************************************************************************)
EXTENDS FileTransfer, FiniteSetTheorems, SequenceTheorems, TLAPS

\* The file that is worked on.
At(f) == queue # << >> /\ f = Head(queue)

Recorded(f) == \E i \in DOMAIN results : results[i] = f

\* An upload has a row of a failure: its list was cut short and the result throws.
Failed == IsUpload /\ \E i \in DOMAIN results : meta[results[i]].status = "ERROR"

\* The rows and the files still to do are those of the lists so far.
Expected ==
    IF group = "small" THEN FileMetas("small") ELSE FileMetas("small") \o FileMetas("large")

Ordered ==
    /\ outcome = "running" <=> pc # "done"
    /\ pc = "execute" => queue = << >> /\ results = << >> /\ group = "small"
    /\ ~job.stream /\ pc \notin {"execute", "done"} => Failed \/ results \o queue = Expected
    /\ ~job.stream /\ pc = "result" => queue = << >> /\ group = "large"
    /\ job.stream => results = << >> /\ queue \in {<< >>, <<1>>}
    /\ EveryFileHasItsRow

\* No file is twice in the queue, or in the queue when it has a row.
Apart ==
    /\ \A i, j \in DOMAIN queue : i # j => queue[i] # queue[j]
    /\ \A j \in DOMAIN queue : ~Recorded(queue[j])
    /\ ~job.stream => \A j \in DOMAIN queue : queue[j] \in InList(group)
    /\ group = "small" => \A i \in DOMAIN results : results[i] \in InList("small")

\* The status of a file tells what is on the stage or on the disk.
RowTrue(f) ==
    /\ meta[f].status = "UPLOADED" => stage[f] = Whole(1)
    /\ meta[f].status = "SKIPPED" => stage[f] \in {Whole(0), Whole(1)}
    /\ meta[f].status = "DOWNLOADED" =>
          \/ local[f] = "clear"
          \/ local[f] = "garbled" /\ ~meta[f].url /\ stage[f].version = 1

Reported ==
    /\ \A i \in DOMAIN results : RowTrue(results[i])
    /\ job.stream /\ (pc = "result" \/ outcome = "returned") =>
          stage[1].parts = AllParts \/ meta[1].status \in Renewals

\* Nothing happened yet to a file that has no row and is not worked on.
Untouched ==
    \A f \in Files : ~Recorded(f) /\ ~At(f) =>
        meta[f].status = "undefined" /\ local[f] = "none"

\* The URLs are presigned or not for all files alike.
Urls ==
    /\ pc = "execute" => \A f \in Files : ~meta[f].url
    /\ pc \notin {"execute", "done"} => \A f \in Files : meta[f].url <=> IsGCS /\ ~job.token

\* Which commands get where.
Sealed == job.encrypted /\ job.store # "LOCAL_FS"
Open == {"clear", "garbled"}
Places ==
    /\ IsUpload => \A f \in Files : meta[f].status # "DOWNLOADED" /\ local[f] = "none"
    /\ ~IsUpload => \A f \in Files : stage[f] # NoObject
    /\ pc \in {"attempt", "send", "part", "abort", "poll", "decrypt", "ended", "renewUrls"} =>
          queue # << >>
    /\ pc \in {"next", "part", "abort", "poll", "decrypt", "renewUrls"} => ~job.stream
    /\ pc \in {"send", "part", "abort", "poll"} => IsUpload /\ job.store # "LOCAL_FS"
    /\ pc = "decrypt" => ~IsUpload /\ Sealed
    /\ call.big => ~job.stream

\* What the service holds is what was sent so far, without gaps.
Session ==
    /\ pc \notin {"part", "abort"} => upload = NoUpload
    /\ upload.held = 1 .. upload.pos
    /\ pc = "part" /\ IsGCS => upload.pos < Parts

\* The file that is worked on: before an attempt it is not transferred, after it its
\* status is true; the header of a download is not newer than the body, nor that than
\* the object; what is not decrypted is not readable.
FileInv(f) ==
    /\ pc \in {"next", "renewUrls"} => meta[f].status \in {"undefined"} \cup Renewals
    /\ pc \in {"attempt", "send", "part", "abort"} /\ IsUpload =>
          meta[f].status \notin {"UPLOADED", "SKIPPED"}
    /\ pc = "poll" => stage[f] = Whole(1)
    /\ pc = "ended" => RowTrue(f)
    /\ pc = "ended" /\ job.stream => meta[f].status \in {"UPLOADED", "SKIPPED"} \cup Renewals
    /\ pc = "attempt" /\ ~IsUpload => call.header <= stage[f].version
    /\ pc = "decrypt" => /\ call.header <= call.body
                         /\ call.body <= stage[f].version
                         /\ meta[f].status = "DOWNLOADED"
    /\ Sealed /\ pc \in {"next", "renewUrls", "attempt", "decrypt"} => local[f] \notin Open
    /\ Sealed /\ pc = "ended" /\ meta[f].status # "DOWNLOADED" => local[f] \notin Open

Current == \A f \in Files : At(f) => FileInv(f)

\* The temporary directories.
Disk ==
    /\ Sealed => \A f \in tmpDirs : local[f] \notin Open
    /\ IsUpload => \A f \in tmpDirs : At(f)
    /\ job.stream => tmpDirs = {}
    /\ IsUpload /\ pc \in {"execute", "next", "renewUrls", "result", "done"} => tmpDirs = {}

\* The inductive invariant.
Listing == Ordered /\ Apart /\ Reported /\ Untouched /\ Urls
Work == Places /\ Session /\ Current /\ Disk
IInv == TypeOK /\ Listing /\ Work

-----------------------------------------------------------------------------
(* The lists *)

LEMMA RankType ==
    ASSUME NEW g, NEW f \in InList(g)
    PROVE  /\ IsFiniteSet(InList(g))
           /\ Cardinality(InList(g)) \in Nat
           /\ Cardinality(UpTo(g, f)) \in 1 .. Cardinality(InList(g))
PROOF
  <1>1. IsFiniteSet(Files)
    BY FS_Interval, FileTransferAssumption DEF Files
  <1>2. IsFiniteSet(InList(g))
    BY <1>1, FS_Subset DEF InList
  <1>3. UpTo(g, f) \in SUBSET InList(g) /\ f \in UpTo(g, f)
    BY FileTransferAssumption DEF UpTo, InList, Files
  <1>4. /\ Cardinality(InList(g)) \in Nat
        /\ IsFiniteSet(UpTo(g, f))
        /\ Cardinality(UpTo(g, f)) <= Cardinality(InList(g))
    BY <1>2, <1>3, FS_Subset, FS_CardinalityType
  <1>5. Cardinality(UpTo(g, f)) \in Nat /\ Cardinality(UpTo(g, f)) # 0
    BY <1>3, <1>4, FS_EmptySet, FS_CardinalityType
  <1> QED BY <1>2, <1>4, <1>5

LEMMA RankInjective ==
    ASSUME NEW g, NEW f \in InList(g), NEW h \in InList(g),
           Cardinality(UpTo(g, f)) = Cardinality(UpTo(g, h))
    PROVE  f = h
PROOF
  <1>1. f \in Int /\ h \in Int /\ \A x \in InList(g) : x \in Int
    BY FileTransferAssumption DEF InList, Files
  <1>2. ASSUME NEW x \in InList(g), NEW y \in InList(g), x < y,
               Cardinality(UpTo(g, x)) = Cardinality(UpTo(g, y))
        PROVE  FALSE
    <2>1. UpTo(g, x) \in SUBSET UpTo(g, y)
      <3>1. \A z \in UpTo(g, x) : z \in InList(g) /\ z <= x
        BY DEF UpTo
      <3>2. \A z \in UpTo(g, x) : z \in UpTo(g, y)
        BY <1>1, <1>2, <3>1 DEF UpTo
      <3> QED BY <3>2
    <2>2. y \in UpTo(g, y) /\ y \notin UpTo(g, x)
      BY <1>1, <1>2 DEF UpTo
    <2>3. IsFiniteSet(UpTo(g, y))
      BY RankType, FS_Subset DEF UpTo
    <2> QED BY <2>1, <2>2, <2>3, <1>2, FS_Subset
  <1> QED BY <1>1, <1>2

\* The list is the increasing sequence of the files of its group: the ranks are an
\* injection between two finite sets of the same size, so that every rank has its file.
LEMMA ListFacts ==
    ASSUME NEW g
    PROVE  /\ FileMetas(g) \in Seq(Files)
           /\ \A i \in DOMAIN FileMetas(g) : FileMetas(g)[i] \in InList(g)
           /\ \A i, j \in DOMAIN FileMetas(g) : i # j => FileMetas(g)[i] # FileMetas(g)[j]
           /\ \A i, j \in DOMAIN FileMetas(g) : i < j => FileMetas(g)[i] < FileMetas(g)[j]
           /\ \A f \in InList(g) : \E i \in DOMAIN FileMetas(g) : FileMetas(g)[i] = f
PROOF
  <1> DEFINE S == InList(g)
             N == Cardinality(S)
             rank == [f \in S |-> Cardinality(UpTo(g, f))]
  <1>1. IsFiniteSet(S) /\ N \in Nat /\ S \subseteq Files
    <2>1. IsFiniteSet(Files)
      BY FS_Interval, FileTransferAssumption DEF Files
    <2> QED BY <2>1, FS_Subset, FS_CardinalityType DEF InList
  <1>2. rank \in Injection(S, 1 .. N)
    <2>1. rank \in [S -> 1 .. N]
      BY RankType
    <2>2. \A a, b \in S : rank[a] = rank[b] => a = b
      BY RankInjective
    <2> QED BY <2>1, <2>2 DEF Injection, IsInjective
  <1>3. IsFiniteSet(1 .. N) /\ Cardinality(1 .. N) = N
    BY <1>1, FS_Interval
  <1>4. rank \in Surjection(S, 1 .. N)
    BY <1>2, <1>3, FS_Injection
  <1>5. \A i \in 1 .. N : \E f \in S : Cardinality(UpTo(g, f)) = i
    BY <1>4 DEF Surjection
  <1>6. \A i \in 1 .. N : FileMetas(g)[i] \in S /\ Cardinality(UpTo(g, FileMetas(g)[i])) = i
    BY <1>5 DEF FileMetas
  <1>7. DOMAIN FileMetas(g) = 1 .. N /\ FileMetas(g) = [i \in 1 .. N |-> FileMetas(g)[i]]
    BY DEF FileMetas
  <1>8. FileMetas(g) \in Seq(Files)
    <2>1. FileMetas(g) \in [1 .. N -> Files]
      BY <1>1, <1>6, <1>7
    <2> QED BY <2>1, <1>1
  <1>9. ASSUME NEW i \in 1 .. N, NEW j \in 1 .. N, i < j
        PROVE  FileMetas(g)[i] < FileMetas(g)[j]
    <2> PICK a \in S : a = FileMetas(g)[i] /\ Cardinality(UpTo(g, a)) = i
      BY <1>6
    <2> PICK b \in S : b = FileMetas(g)[j] /\ Cardinality(UpTo(g, b)) = j
      BY <1>6
    <2>1. /\ \A z \in S : z \in Int
          /\ a \in Int /\ b \in Int
      BY <1>1, FileTransferAssumption DEF Files
    <2>2. ASSUME b <= a
          PROVE  FALSE
      <3>1. UpTo(g, b) \in SUBSET UpTo(g, a)
        <4>1. \A z \in UpTo(g, b) : z \in InList(g) /\ z \in Int /\ z <= b
          BY <2>1 DEF UpTo
        <4>2. \A z \in UpTo(g, b) : z \in UpTo(g, a)
          BY <2>1, <2>2, <4>1 DEF UpTo
        <4> QED BY <4>2
      <3>2. IsFiniteSet(UpTo(g, a))
        BY <1>1, FS_Subset DEF UpTo
      <3>3. j <= i
        BY <3>1, <3>2, FS_Subset
      <3> QED BY <1>9, <3>3
    <2> QED BY <2>1, <2>2
  <1>10. ASSUME NEW f \in S
         PROVE  \E i \in 1 .. N : FileMetas(g)[i] = f
    <2>1. rank[f] \in 1 .. N /\ rank[f] = Cardinality(UpTo(g, f))
      BY RankType
    <2>2. FileMetas(g)[rank[f]] = f
      BY <1>6, <2>1, RankInjective
    <2> QED BY <2>1, <2>2
  <1> QED BY <1>6, <1>7, <1>8, <1>9, <1>10

LEMMA ListsFixed ==
    ASSUME UNCHANGED large, NEW g
    PROVE  FileMetas(g)' = FileMetas(g) /\ InList(g)' = InList(g)
  BY DEF FileMetas, InList, UpTo, Files

-----------------------------------------------------------------------------
(* What the utilities return *)

\* A new status, and err.code, of the file that is worked on.
Marks(f, m) ==
    /\ m \in [Files -> FileMeta]
    /\ m[f].url = meta[f].url
    /\ \A g \in Files : g # f => m[g] = meta[g]

LEMMA AtFile ==
    ASSUME TypeOK, queue # << >>
    PROVE  file \in Files /\ At(file)
  BY DEF TypeOK, At, file

LEMMA MarkFacts ==
    ASSUME TypeOK, NEW f \in Files, NEW st \in resultStatus, NEW c \in ErrorCodes
    PROVE  LET m == [meta EXCEPT ![f].status = st]
               n == [meta EXCEPT ![f].status = st, ![f].lastCode = c]
           IN  /\ Marks(f, m) /\ m[f].status = st
               /\ Marks(f, n) /\ n[f].status = st
PROOF
  <1>1. meta \in [Files -> FileMeta] /\ meta[f] \in FileMeta
    BY DEF TypeOK
  <1>2. [meta[f] EXCEPT !.status = st] \in FileMeta
    BY <1>1 DEF FileMeta
  <1>3. [meta[f] EXCEPT !.status = st, !.lastCode = c] \in FileMeta
    BY <1>1 DEF FileMeta
  <1>4. /\ [meta[f] EXCEPT !.status = st].status = st
        /\ [meta[f] EXCEPT !.status = st].url = meta[f].url
        /\ [meta[f] EXCEPT !.status = st, !.lastCode = c].status = st
        /\ [meta[f] EXCEPT !.status = st, !.lastCode = c].url = meta[f].url
    BY <1>1 DEF FileMeta
  <1>5. [meta EXCEPT ![f].status = st] = [meta EXCEPT ![f] = [meta[f] EXCEPT !.status = st]]
    BY <1>1
  <1>6. [meta EXCEPT ![f].status = st, ![f].lastCode = c]
          = [meta EXCEPT ![f] = [meta[f] EXCEPT !.status = st, !.lastCode = c]]
    BY <1>1 DEF FileMeta
  <1> DEFINE x == [meta[f] EXCEPT !.status = st]
             y == [meta[f] EXCEPT !.status = st, !.lastCode = c]
  <1> HIDE DEF x, y
  <1>7. Marks(f, [meta EXCEPT ![f] = x]) /\ [meta EXCEPT ![f] = x][f].status = st
    BY <1>1, <1>2, <1>4 DEF Marks, x
  <1>8. Marks(f, [meta EXCEPT ![f] = y]) /\ [meta EXCEPT ![f] = y][f].status = st
    BY <1>1, <1>3, <1>4 DEF Marks, y
  <1> QED BY <1>5, <1>6, <1>7, <1>8 DEF x, y

LEMMA SetStatusFacts ==
    ASSUME TypeOK, NEW f, At(f), NEW st \in resultStatus
    PROVE  Marks(f, SetStatus(st)) /\ SetStatus(st)[f].status = st
PROOF
  <1>1. f \in Files /\ f = file
    BY AtFile DEF At, file
  <1>2. "none" \in ErrorCodes
    BY DEF ErrorCodes
  <1> QED BY <1>1, <1>2, MarkFacts DEF SetStatus

Retries == {"NEED_RETRY", "NEED_RETRY_WITH_LOWER_CONCURRENCY"}

LEMMA ErrorFacts ==
    ASSUME NEW a
    PROVE  /\ S3Error(a) \in Retries \cup Renewals
           /\ AzureError(a) \in Retries \cup Renewals
           /\ GcsError(a) \in Retries \cup Renewals
  BY DEF S3Error, AzureError, GcsError, Retries, Renewals

LEMMA StatusNames ==
    /\ Retries \cup Renewals \subseteq resultStatus
    /\ {"undefined", "ERROR", "UPLOADED", "DOWNLOADED", "SKIPPED", "NOT_FOUND_FILE"}
            \subseteq resultStatus
    /\ (Retries \cup Renewals) \cap {"undefined", "ERROR", "UPLOADED", "DOWNLOADED", "SKIPPED",
                                      "NOT_FOUND_FILE"} = {}
    /\ Retries \cap Renewals = {}
  BY DEF Retries, Renewals, resultStatus

LEMMA UploadFacts ==
    ASSUME TypeOK, NEW f, At(f), NEW a \in ErrorCodes \cup {"ok"}
    PROVE  /\ Marks(f, Upload(a))
           /\ a = "ok" => Upload(a)[f].status = "UPLOADED"
           /\ a # "ok" => Upload(a)[f].status \in Retries \cup Renewals
PROOF
  <1>1. f \in Files /\ f = file
    BY AtFile DEF At, file
  <1>2. \E st \in resultStatus :
            /\ S3Upload(a) = SetStatus(st)
            /\ a = "ok" => st = "UPLOADED"
            /\ a # "ok" => st \in Retries \cup Renewals
    BY ErrorFacts, StatusNames DEF S3Upload
  <1>3. \E st \in resultStatus :
            /\ AzureUpload(a) = SetStatus(st)
            /\ a = "ok" => st = "UPLOADED"
            /\ a # "ok" => st \in Retries \cup Renewals
    BY ErrorFacts, StatusNames DEF AzureUpload
  <1>4. CASE a = "ok"
    <2>1. GcsUpload(a) = SetStatus("UPLOADED")
      BY <1>4 DEF GcsUpload
    <2> QED BY <1>2, <1>3, <1>4, <2>1, SetStatusFacts, StatusNames DEF Upload
  <1>5. CASE a # "ok"
    <2>1. \E st \in Retries \cup Renewals, c \in ErrorCodes :
            GcsUpload(a) = [meta EXCEPT ![f].status = st, ![f].lastCode = c]
      <3>1. (IF job.numeric THEN a ELSE "string") \in ErrorCodes
        BY <1>5 DEF ErrorCodes
      <3>2. GcsUpload(a) = [meta EXCEPT ![f].status = GcsError(a),
                              ![f].lastCode = IF job.numeric THEN a ELSE "string"]
        BY <1>1, <1>5 DEF GcsUpload
      <3> QED BY <3>1, <3>2, ErrorFacts
    <2>2. Marks(f, GcsUpload(a)) /\ GcsUpload(a)[f].status \in Retries \cup Renewals
      <3>1. PICK st \in Retries \cup Renewals, c \in ErrorCodes :
                GcsUpload(a) = [meta EXCEPT ![f].status = st, ![f].lastCode = c]
        BY <2>1
      <3>2. st \in resultStatus
        BY StatusNames
      <3>3. /\ Marks(f, [meta EXCEPT ![f].status = st, ![f].lastCode = c])
            /\ [meta EXCEPT ![f].status = st, ![f].lastCode = c][f].status = st
        BY <1>1, <3>2, MarkFacts
      <3> QED BY <3>1, <3>3
    <2> QED BY <1>2, <1>3, <1>5, <2>2, SetStatusFacts DEF Upload
  <1> QED BY <1>4, <1>5

\* The end of a file or of the whole command after an exception.
Thrown(f) ==
    \/ job.stream /\ pc' = "done" /\ outcome' = "thrown"
    \/ /\ ~job.stream /\ pc' = "ended" /\ outcome' = outcome
       /\ meta'[f].status \in {"undefined", "ERROR"}

LEMMA ThrowFacts ==
    ASSUME TypeOK, NEW f, At(f), NEW m, Marks(f, m), Throw(m)
    PROVE  /\ Thrown(f)
           /\ Marks(f, meta')
           /\ meta'[f].status \in {m[f].status, "ERROR"}
PROOF
  <1>1. f \in Files /\ f = file
    BY AtFile DEF At, file
  <1>2. CASE job.stream
    BY <1>2 DEF Throw, Reject, Thrown
  <1>3. CASE ~job.stream
    <2> DEFINE st == IF m[f].status = "undefined" THEN m[f].status ELSE "ERROR"
               r == [m[f] EXCEPT !.status = st]
    <2>1. meta' = [m EXCEPT ![f] = r] /\ pc' = "ended" /\ outcome' = outcome
      BY <1>1, <1>3 DEF Throw, Marks
    <2>2. m \in [Files -> FileMeta] /\ m[f] \in FileMeta /\ m[f].url = meta[f].url
      BY <1>1 DEF Marks
    <2>3. st \in {"undefined", "ERROR"} /\ st \in {m[f].status, "ERROR"}
      OBVIOUS
    <2>4. r \in FileMeta /\ r.status = st /\ r.url = meta[f].url
      <3> HIDE DEF st
      <3>1. st \in resultStatus
        BY <2>3, StatusNames
      <3> QED BY <2>2, <3>1 DEF FileMeta
    <2> HIDE DEF r, st
    <2>5. meta'[f] = r /\ meta' \in [Files -> FileMeta]
      BY <1>1, <2>1, <2>2, <2>4
    <2>6. \A g \in Files : g # f => meta'[g] = meta[g]
      BY <2>1, <2>2 DEF Marks
    <2> QED BY <1>3, <2>1, <2>3, <2>4, <2>5, <2>6 DEF Thrown, Marks
  <1> QED BY <1>2, <1>3

\* The end of an attempt.
Judged(f, st) ==
    \/ ~job.stream /\ pc' = "poll" /\ outcome' = outcome /\ meta'[f].status = st /\ st = "UPLOADED"
    \/ job.stream /\ pc' = "ended" /\ outcome' = outcome /\ meta'[f].status = st /\ st = "UPLOADED"
    \/ pc' = "ended" /\ outcome' = outcome /\ meta'[f].status = st /\ st \in Renewals
    \/ pc' = "attempt" /\ outcome' = outcome /\ meta'[f].status = st /\ st # "UPLOADED"
    \/ Thrown(f) /\ st # "UPLOADED"

SameCall == call'.big = call.big /\ call'.header = call.header /\ call'.body = call.body

LEMMA JudgeFacts ==
    ASSUME TypeOK, NEW f, At(f), NEW m, Marks(f, m), Judge(m)
    PROVE  /\ Judged(f, m[f].status)
           /\ Marks(f, meta')
           /\ meta'[f].status \in {m[f].status, "ERROR"}
           /\ call' \in RetryLoop /\ SameCall
PROOF
  <1>1. f \in Files /\ f = file
    BY AtFile DEF At, file
  <1>2. call \in RetryLoop
    BY DEF TypeOK
  <1>3. CASE m[f].status \in {"UPLOADED"} \cup Renewals
    <2>1. meta' = m /\ call' = call /\ outcome' = outcome
          /\ pc' = IF m[f].status = "UPLOADED" /\ ~job.stream THEN "poll" ELSE "ended"
      BY <1>1, <1>3 DEF Judge
    <2> QED BY <1>2, <1>3, <2>1 DEF Judged, SameCall
  <1>4. CASE m[f].status \notin {"UPLOADED"} \cup Renewals /\ call.retry + 1 < MaxRetry
    <2>1. meta' = m /\ call' = [call EXCEPT !.retry = @ + 1] /\ outcome' = outcome
          /\ pc' = "attempt"
      BY <1>1, <1>4 DEF Judge
    <2>2. call' \in RetryLoop /\ SameCall
      <3>1. call.retry + 1 \in 0 .. MaxRetry - 1
        BY <1>2, <1>4, FileTransferAssumption DEF RetryLoop
      <3>2. PICK n \in 0 .. MaxRetry - 1 : n = call.retry + 1
        BY <3>1
      <3>3. call' = [call EXCEPT !.retry = n]
        BY <2>1, <3>2, <1>2 DEF RetryLoop
      <3> QED BY <1>2, <3>3 DEF RetryLoop, SameCall
    <2> QED BY <1>4, <2>1, <2>2 DEF Judged
  <1>5. CASE m[f].status \notin {"UPLOADED"} \cup Renewals /\ ~(call.retry + 1 < MaxRetry)
    <2>1. Throw(m) /\ call' = call
      BY <1>1, <1>5 DEF Judge
    <2> QED BY <1>2, <1>5, <2>1, ThrowFacts DEF Judged, SameCall
  <1> QED BY <1>3, <1>4, <1>5

\* An answer that is a failure is one of those the bound allows.
LEMMA AnswerFacts ==
    ASSUME TypeOK, NEW a \in Answers \cup (IF faults < MaxFaults THEN {"308"} ELSE {}), Count(a)
    PROVE  a \in ErrorCodes \cup {"ok"} /\ faults' \in 0 .. MaxFaults
PROOF
  <1>1. faults \in 0 .. MaxFaults /\ MaxFaults \in Nat
    BY FileTransferAssumption DEF TypeOK
  <1>2. a \in Failures \cup {"ok", "expired", "308"}
    BY DEF Answers
  <1>3. a \in Failures \cup {"308"} => faults < MaxFaults
    BY DEF Answers, Failures
  <1>4. a # "notFound"
    BY <1>2 DEF Failures
  <1>5. faults' = faults \/ (faults < MaxFaults /\ faults' = faults + 1)
    BY <1>3, <1>4 DEF Count
  <1> QED BY <1>1, <1>2, <1>5 DEF ErrorCodes

\* What a header tells: UPLOADED only of an object that is there, and no newer version
\* than the object's.
LEMMA HeaderFacts ==
    ASSUME TypeOK, NEW f, At(f), NEW a \in HeaderAnswers, Count(a)
    PROVE  /\ getFileHeader(a).status \in resultStatus
           /\ getFileHeader(a).header \in NullHeader .. 1
           /\ getFileHeader(a).header <= stage[f].version
           /\ getFileHeader(a).throws \in BOOLEAN
           /\ getFileHeader(a).status = "UPLOADED" =>
                 stage[f] # NoObject \/ meta[f].status = "UPLOADED"
           /\ getFileHeader(a).status \in {"SKIPPED", "DOWNLOADED"} =>
                 getFileHeader(a).status = meta[f].status
           /\ faults' \in 0 .. MaxFaults
PROOF
  <1>1. f \in Files /\ f = file
    BY AtFile DEF At, file
  <1>2. faults \in 0 .. MaxFaults /\ MaxFaults \in Nat /\ meta[f].status \in resultStatus
    BY <1>1, FileTransferAssumption DEF TypeOK, FileMeta
  <1>3. stage[f] \in {NoObject, Whole(0), Whole(1)}
    BY <1>1 DEF TypeOK
  <1>4. /\ stage[f].version \in NullHeader .. 1
        /\ NullHeader <= stage[f].version
        /\ EmptyHeader <= stage[f].version
        /\ stage[f].version <= stage[f].version
        /\ {NullHeader, EmptyHeader} \subseteq NullHeader .. 1
    BY <1>3 DEF NoObject, Whole, NullHeader, EmptyHeader
  <1>5. a \in Failures \/ (a = "notFound" /\ ~Refused) => faults < MaxFaults
    BY DEF HeaderAnswers, Answers, Failures
  <1>6. a # "308"
    BY DEF HeaderAnswers, Answers, Failures
  <1>7. faults' \in 0 .. MaxFaults
    <2>1. faults' = faults \/ (faults < MaxFaults /\ faults' = faults + 1)
      BY <1>5, <1>6 DEF Count
    <2> QED BY <1>2, <2>1
  <1>8. a = "ok" => JustTransferred \/ stage[f] # NoObject
    BY <1>1 DEF HeaderAnswers, Refused
  <1> DEFINE Good(r) ==
               /\ r.status \in {meta[f].status, "UPLOADED", "NOT_FOUND_FILE", "RENEW_TOKEN",
                                "ERROR", "NEED_RETRY"}
               /\ r.header \in {NullHeader, EmptyHeader, stage[f].version}
               /\ r.throws \in BOOLEAN
               /\ r.status = "UPLOADED" =>
                     stage[f] # NoObject \/ meta[f].status = "UPLOADED"
  <1>9. Good(getFileHeader(a))
    <2>1. JustTransferred => IsGCS /\ Good([status |-> meta[f].status,
                                            header |-> stage[f].version, throws |-> FALSE])
      BY <1>1, <1>2 DEF JustTransferred
    <2>2. ~JustTransferred => Good(S3Header(a))
      BY <1>1, <1>8 DEF S3Header
    <2>3. Good(PresignedHeader(a))
      BY <1>1 DEF PresignedHeader
    <2>4. ~JustTransferred => Good(TokenHeader(a))
      BY <1>1, <1>8 DEF TokenHeader
    <2>5. Good(GcsHeader(a))
      BY <1>1, <2>1, <2>3, <2>4 DEF GcsHeader
    <2>6. job.store \in {"S3", "AZURE"} => ~JustTransferred
      BY DEF JustTransferred, IsGCS
    <2> HIDE DEF Good
    <2> QED BY <2>2, <2>5, <2>6 DEF getFileHeader, AzureHeader
  <1>10. getFileHeader(a).status \in resultStatus
    BY <1>2, <1>9 DEF resultStatus
  <1> QED BY <1>4, <1>7, <1>9, <1>10

-----------------------------------------------------------------------------
(* One file: what is left alone when only that file is worked on *)

Lists == UNCHANGED <<job, large, queue, group, results>>

\* The rest of the files stay as they are.
Keeps(f) ==
    /\ Lists
    /\ meta'[f].url = meta[f].url
    /\ \A g \in Files : g # f => meta'[g].status = meta[g].status /\ meta'[g].url = meta[g].url
                                   /\ stage'[g] = stage[g] /\ local'[g] = local[g]

LEMMA OthersKept ==
    ASSUME IInv, TypeOK', NEW f, At(f), pc \notin {"execute", "result", "done"}, Keeps(f),
           pc' \notin {"execute", "result"},
           pc' # "done" => outcome' = outcome,
           pc' = "done" => outcome' \in {"thrown", "crashed"}
    PROVE  Listing'
PROOF
  <1>1. f \in Files /\ f = Head(queue) /\ queue # << >>
    BY AtFile DEF IInv, At
  <1>2. queue \in Seq(Files) /\ results \in Seq(Files)
    BY DEF IInv, TypeOK
  <1>3. /\ job' = job /\ large' = large /\ queue' = queue /\ group' = group
        /\ results' = results
    BY DEF Keeps, Lists
  <1>4. 1 \in DOMAIN queue /\ f = queue[1] /\ \A i \in DOMAIN results : results[i] \in Files
    BY <1>1, <1>2
  <1>5. \A i \in DOMAIN results : results[i] # f
    BY <1>4 DEF IInv, Listing, Apart, Recorded
  <1>6. \A g : (IsUpload' <=> IsUpload) /\ (IsGCS' <=> IsGCS) /\ FileMetas(g)' = FileMetas(g)
               /\ InList(g)' = InList(g) /\ (At(g)' <=> At(g)) /\ (Recorded(g)' <=> Recorded(g))
    BY <1>3, ListsFixed DEF IsUpload, IsGCS, At, Recorded
  <1>7. Failed' <=> Failed
    BY <1>3, <1>4, <1>5, <1>6 DEF Failed, Keeps
  <1>8. outcome = "running"
    BY DEF IInv, Listing, Ordered
  <1>9. Ordered'
    <2>1. Expected' = Expected
      BY <1>3, <1>6 DEF Expected
    <2>2. outcome' # "returned"
      BY <1>8
    <2>3. EveryFileHasItsRow'
      BY <2>2 DEF EveryFileHasItsRow
    <2>4. outcome' = "running" <=> pc' # "done"
      BY <1>8
    <2> QED BY <1>3, <1>7, <2>1, <2>3, <2>4 DEF IInv, Listing, Ordered
  <1>10. Apart'
    BY <1>3, <1>6 DEF IInv, Listing, Apart
  <1>11. Reported'
    <2>1. \A i \in DOMAIN results' : RowTrue(results[i])'
      BY <1>3, <1>4, <1>5 DEF IInv, Listing, Reported, RowTrue, Keeps
    <2>2. pc' # "result" /\ outcome' # "returned"
      BY <1>8
    <2> QED BY <1>3, <2>1, <2>2 DEF Reported, RowTrue
  <1>12. Untouched'
    BY <1>1, <1>6 DEF IInv, Listing, Untouched, Keeps, At
  <1>13. Urls'
    BY <1>1, <1>3, <1>6 DEF IInv, Listing, Urls, Keeps
  <1> QED BY <1>9, <1>10, <1>11, <1>12, <1>13 DEF Listing

\* Where an upload can be after a step, and what that asks of the file.
UploadFate(f) ==
    \/ /\ pc' = "poll" /\ outcome' = outcome
       /\ ~job.stream /\ job.store # "LOCAL_FS" /\ stage'[f] = Whole(1)
    \/ /\ pc' = "ended" /\ outcome' = outcome
       /\ RowTrue(f)'
       /\ job.stream => meta'[f].status \in {"UPLOADED", "SKIPPED"} \cup Renewals
    \/ /\ pc' \in {"attempt", "send", "part", "abort"} /\ outcome' = outcome
       /\ meta'[f].status \notin {"UPLOADED", "SKIPPED"}
       /\ pc' \in {"part", "abort"} => ~job.stream
       /\ pc' # "attempt" => job.store # "LOCAL_FS"
    \/ pc' = "done" /\ job.stream /\ outcome' = "thrown"

\* The object of the file stays, is replaced or deleted.
Stores(f) == stage' = stage \/ \E o \in {NoObject, Whole(1)} : stage' = [stage EXCEPT ![f] = o]

LEMMA StoresFacts ==
    ASSUME TypeOK, NEW f \in Files, Stores(f)
    PROVE  /\ stage' \in [Files -> {NoObject, Whole(0), Whole(1)}]
           /\ \A g \in Files : g # f => stage'[g] = stage[g]
  BY DEF TypeOK, Stores

LEMMA JobFacts ==
    ASSUME TypeOK
    PROVE  job \in AnyJob /\ (job.stream => IsUpload)
  BY FileTransferAssumption DEF TypeOK, IsUpload

LEMMA UploadStep ==
    ASSUME IInv, NEW f, At(f), IsUpload, pc \notin {"execute", "result", "done"},
           Lists, UNCHANGED <<local, expired>>, Marks(f, meta'), meta'[f].status # "DOWNLOADED",
           Stores(f), call' \in RetryLoop, call'.big => ~job.stream, upload' \in Multipart,
           Session', faults' \in 0 .. MaxFaults, UploadFate(f),
           tmpDirs' \subseteq tmpDirs \cup {f}, job.stream => tmpDirs' = tmpDirs
    PROVE  IInv'
PROOF
  <1>1. f \in Files /\ f = Head(queue) /\ queue # << >>
    BY AtFile DEF IInv, At
  <1>2. TypeOK
    BY DEF IInv
  <1>3. /\ job' = job /\ large' = large /\ queue' = queue /\ group' = group
        /\ results' = results /\ local' = local
    BY DEF Lists
  <1>4. /\ stage' \in [Files -> {NoObject, Whole(0), Whole(1)}]
        /\ \A g \in Files : g # f => stage'[g] = stage[g]
    BY <1>1, <1>2, StoresFacts
  <1>5. /\ pc' \in {"poll", "ended", "attempt", "send", "part", "abort", "done"}
        /\ pc' # "done" => outcome' = outcome
        /\ pc' = "done" => outcome' = "thrown" /\ job.stream
    BY DEF UploadFate
  <1>6. TypeOK'
    <2>1. tmpDirs' \subseteq Files
      BY <1>1, <1>2 DEF TypeOK
    <2>2. meta' \in [Files -> FileMeta]
      BY DEF Marks
    <2>3. outcome' \in {"running", "returned", "thrown", "crashed"}
      BY <1>2, <1>5 DEF TypeOK
    <2> QED BY <1>2, <1>3, <1>4, <1>5, <2>1, <2>2, <2>3 DEF TypeOK
  <1>7. Keeps(f)
    BY <1>3, <1>4 DEF Keeps, Lists, Marks
  <1>8. Listing'
    BY <1>5, <1>6, <1>7, OthersKept
  <1>9. (IsUpload' <=> IsUpload) /\ (Sealed' <=> Sealed) /\ \A g : At(g)' <=> At(g)
    BY <1>3 DEF IsUpload, Sealed, At
  <1>10. Places'
    <2>1. \A g \in Files : meta'[g].status # "DOWNLOADED" /\ local'[g] = "none"
      BY <1>3 DEF IInv, Work, Places, Marks
    <2>2. pc' \in {"part", "abort", "poll"} => ~job.stream
      BY DEF UploadFate
    <2>3. pc' \in {"send", "part", "abort", "poll"} => job.store # "LOCAL_FS"
      BY DEF UploadFate
    <2> QED BY <1>1, <1>3, <1>5, <1>9, <2>1, <2>2, <2>3 DEF Places
  <1>11. Current'
    <2>1. FileInv(f)'
      <3>1. local'[f] = "none"
        BY <1>1, <1>3 DEF IInv, Work, Places
      <3>2. "none" \notin Open
        BY DEF Open
      <3>3. CASE pc' = "poll"
        BY <1>3, <1>9, <3>3 DEF UploadFate, FileInv
      <3>4. CASE pc' = "ended"
        BY <1>3, <1>9, <3>1, <3>2, <3>4 DEF UploadFate, FileInv
      <3>5. CASE pc' \in {"attempt", "send", "part", "abort"}
        BY <1>3, <1>9, <3>1, <3>2, <3>5 DEF UploadFate, FileInv
      <3>6. CASE pc' = "done"
        BY <3>6 DEF FileInv
      <3> QED BY <1>5, <3>3, <3>4, <3>5, <3>6
    <2> QED BY <1>9, <2>1 DEF Current, At
  <1>12. Disk'
    <2>1. \A g \in tmpDirs' : At(g)
      BY DEF IInv, Work, Disk
    <2>2. job.stream => tmpDirs' = {}
      BY DEF IInv, Work, Disk
    <2>3. \A g \in tmpDirs' : local'[g] = "none" /\ "none" \notin Open
      BY <1>1, <1>3, <2>1 DEF IInv, Work, Places, At, Open
    <2> QED BY <1>3, <1>5, <1>9, <2>1, <2>2, <2>3 DEF Disk
  <1> QED BY <1>6, <1>8, <1>10, <1>11, <1>12 DEF IInv, Work

\* Where a download can be after a step.
DownloadFate(f) ==
    \/ /\ pc' = "attempt" /\ outcome' = outcome
       /\ call'.header <= stage[f].version
       /\ Sealed => local'[f] \notin Open
    \/ /\ pc' = "decrypt" /\ outcome' = outcome
       /\ Sealed /\ meta'[f].status = "DOWNLOADED" /\ local'[f] \notin Open
       /\ call'.header <= call'.body /\ call'.body <= stage[f].version
    \/ /\ pc' = "ended" /\ outcome' = outcome
       /\ RowTrue(f)'
       /\ Sealed /\ meta'[f].status # "DOWNLOADED" => local'[f] \notin Open
    \/ pc' = "done" /\ outcome' = "crashed"

Contents == {"none", "partial", "cipher", "clear", "garbled"}

LEMMA DownloadStep ==
    ASSUME IInv, NEW f, At(f), ~IsUpload, pc \in {"next", "attempt", "decrypt"},
           Lists, UNCHANGED <<upload, stage, expired>>, Marks(f, meta'), call' \in RetryLoop,
           NEW c \in Contents, local' = [local EXCEPT ![f] = c],
           faults' \in 0 .. MaxFaults, DownloadFate(f),
           tmpDirs' \subseteq tmpDirs \cup {f}, Sealed /\ f \in tmpDirs' => local'[f] \notin Open
    PROVE  IInv'
PROOF
  <1>1. f \in Files /\ f = Head(queue) /\ queue # << >>
    BY AtFile DEF IInv, At
  <1>2. TypeOK
    BY DEF IInv
  <1>3. /\ job' = job /\ large' = large /\ queue' = queue /\ group' = group
        /\ results' = results /\ stage' = stage /\ upload' = upload
    BY DEF Lists
  <1>4. /\ local' \in [Files -> Contents]
        /\ \A g \in Files : g # f => local'[g] = local[g]
    BY <1>1, <1>2 DEF TypeOK, Contents
  <1>5. /\ pc' \in {"attempt", "decrypt", "ended", "done"}
        /\ pc' # "done" => outcome' = outcome
        /\ pc' = "done" => outcome' = "crashed"
    BY DEF DownloadFate
  <1>6. TypeOK'
    <2>1. tmpDirs' \subseteq Files
      BY <1>1, <1>2 DEF TypeOK
    <2>2. meta' \in [Files -> FileMeta]
      BY DEF Marks
    <2>3. outcome' \in {"running", "returned", "thrown", "crashed"}
      BY <1>2, <1>5 DEF TypeOK
    <2> QED BY <1>2, <1>3, <1>4, <1>5, <2>1, <2>2, <2>3 DEF TypeOK, Contents
  <1>7. Keeps(f)
    BY <1>3, <1>4 DEF Keeps, Lists, Marks
  <1>8. Listing'
    BY <1>5, <1>6, <1>7, OthersKept
  <1>9. (IsUpload' <=> IsUpload) /\ (Sealed' <=> Sealed) /\ \A g : At(g)' <=> At(g)
    BY <1>3 DEF IsUpload, Sealed, At
  <1>10. ~job.stream
    BY <1>2, JobFacts
  <1>11. Places'
    <2>1. pc' = "decrypt" => Sealed
      BY DEF DownloadFate
    <2>2. \A g \in Files : stage'[g] # NoObject
      BY <1>3 DEF IInv, Work, Places
    <2> QED BY <1>1, <1>3, <1>5, <1>9, <1>10, <2>1, <2>2 DEF Places, IsUpload
  <1>12. Session'
    BY <1>3, <1>5 DEF IInv, Work, Session
  <1>13. Current'
    <2>1. FileInv(f)'
      BY <1>3, <1>5, <1>9, <1>10 DEF DownloadFate, FileInv
    <2> QED BY <1>9, <2>1 DEF Current, At
  <1>14. Disk'
    <2>1. Sealed => \A g \in tmpDirs' : local'[g] \notin Open
      BY <1>2, <1>4 DEF IInv, Work, Disk, TypeOK
    <2> QED BY <1>3, <1>9, <1>10, <2>1 DEF Disk
  <1> QED BY <1>6, <1>8, <1>11, <1>12, <1>13, <1>14 DEF IInv, Work

-----------------------------------------------------------------------------
(* The steps of an upload *)

LEMMA ThrowUpload ==
    ASSUME TypeOK, NEW f, At(f), NEW m, Marks(f, m), Throw(m), m[f].status # "DOWNLOADED"
    PROVE  /\ UploadFate(f) /\ Marks(f, meta') /\ meta'[f].status # "DOWNLOADED"
           /\ pc' \notin {"part", "abort"}
PROOF
  <1>1. Thrown(f) /\ Marks(f, meta') /\ meta'[f].status \in {m[f].status, "ERROR"}
    BY ThrowFacts
  <1> QED BY <1>1 DEF Thrown, UploadFate, RowTrue

LEMMA JudgeUpload ==
    ASSUME TypeOK, NEW f, At(f), NEW m, Marks(f, m), Judge(m), job.store # "LOCAL_FS",
           m[f].status \notin {"SKIPPED", "DOWNLOADED"},
           m[f].status = "UPLOADED" => stage'[f] = Whole(1)
    PROVE  /\ UploadFate(f) /\ Marks(f, meta') /\ meta'[f].status # "DOWNLOADED"
           /\ call' \in RetryLoop /\ SameCall
           /\ pc' \notin {"part", "abort"}
PROOF
  <1>1. /\ Judged(f, m[f].status) /\ Marks(f, meta')
        /\ meta'[f].status \in {m[f].status, "ERROR"}
        /\ call' \in RetryLoop /\ SameCall
    BY JudgeFacts
  <1>2. m[f].status \in Renewals => m[f].status # "UPLOADED"
    BY DEF Renewals
  <1> QED BY <1>1, <1>2 DEF Judged, Thrown, UploadFate, RowTrue

LEMMA NoSession ==
    ASSUME upload' = NoUpload, pc' \notin {"part", "abort"}
    PROVE  Session' /\ upload' \in Multipart
PROOF
  <1>1. NoUpload \in Multipart
    BY FileTransferAssumption DEF NoUpload, Multipart, ErrorCodes
  <1>2. NoUpload.held = 1 .. NoUpload.pos
    BY DEF NoUpload
  <1> QED BY <1>1, <1>2 DEF Session

\* What holds of the file of every upload step that begins outside a session.
LEMMA UploadStart ==
    ASSUME IInv, queue # << >>, IsUpload, pc \in {"next", "attempt", "send", "poll"}
    PROVE  /\ TypeOK /\ At(file) /\ file \in Files /\ upload = NoUpload
           /\ call \in RetryLoop /\ (call.big => ~job.stream)
           /\ meta[file].status \in resultStatus
           /\ meta[file].status # "DOWNLOADED" /\ Marks(file, meta)
           /\ pc \in {"attempt", "send"} => meta[file].status # "UPLOADED"
           /\ pc # "poll" => meta[file].status # "SKIPPED"
PROOF
  <1>1. TypeOK /\ At(file) /\ file \in Files
    BY AtFile DEF IInv
  <1>2. meta \in [Files -> FileMeta] /\ call \in RetryLoop
    BY <1>1 DEF TypeOK
  <1>3. meta[file].status # "DOWNLOADED" /\ (call.big => ~job.stream)
    BY <1>1 DEF IInv, Work, Places
  <1>4. FileInv(file)
    BY <1>1 DEF IInv, Work, Current
  <1>5. /\ pc \in {"attempt", "send"} => meta[file].status # "UPLOADED"
        /\ pc # "poll" => meta[file].status # "SKIPPED"
    BY <1>4 DEF FileInv, Renewals
  <1>6. upload = NoUpload
    BY DEF IInv, Work, Session
  <1>7. meta[file].status \in resultStatus
    BY <1>1, <1>2 DEF FileMeta
  <1> QED BY <1>1, <1>2, <1>3, <1>5, <1>6, <1>7 DEF Marks

LEMMA StepUploadOneFile ==
    ASSUME IInv, uploadOneFile
    PROVE  IInv'
PROOF
  <1> USE DEF IInv
  <1>1. pc = "next" /\ queue # << >> /\ IsUpload /\ tmpDirs' = tmpDirs \cup {file}
    BY DEF uploadOneFile
  <1>2. /\ Lists /\ UNCHANGED <<local, expired>> /\ Stores(file) /\ upload' = upload
    BY DEF uploadOneFile, Lists, Stores
  <1>3. ~job.stream
    BY <1>1 DEF Work, Places
  <1>4. PICK f : f = file
    OBVIOUS
  <1>5. /\ At(f) /\ upload = NoUpload /\ call \in RetryLoop /\ Marks(f, meta)
        /\ meta[f].status \notin {"DOWNLOADED", "SKIPPED"}
    BY <1>1, <1>4, UploadStart
  <1>6. meta[f].status # "UPLOADED"
    BY <1>1, <1>4, AtFile DEF Work, Current, FileInv, Renewals
  <1>7. faults \in 0 .. MaxFaults /\ MaxFaults \in Nat
    BY FileTransferAssumption DEF TypeOK
  <1>8. CASE \E big \in BOOLEAN :
                /\ call' = [NewCall EXCEPT !.big = big]
                /\ pc' = "attempt"
                /\ UNCHANGED <<meta, outcome, faults>>
    <2>1. PICK big \in BOOLEAN : call' = [NewCall EXCEPT !.big = big]
      BY <1>8
    <2>2. NewCall \in RetryLoop
      BY FileTransferAssumption DEF NewCall, RetryLoop, NullHeader
    <2>3. call' \in RetryLoop
      BY <2>1, <2>2 DEF RetryLoop
    <2>4. UploadFate(f)
      BY <1>5, <1>6, <1>8 DEF UploadFate
    <2>5. Session' /\ upload' \in Multipart
      BY <1>2, <1>5, <1>8, NoSession
    <2> QED BY <1>1, <1>2, <1>3, <1>4, <1>5, <1>7, <1>8, <2>3, <2>4, <2>5, UploadStep
  <1>9. CASE LocalFault /\ Throw(meta) /\ UNCHANGED call
    <2>1. faults' \in 0 .. MaxFaults
      BY <1>7, <1>9 DEF LocalFault
    <2>2. /\ UploadFate(f) /\ Marks(f, meta') /\ meta'[f].status # "DOWNLOADED"
          /\ pc' \notin {"part", "abort"}
      BY <1>5, <1>9, ThrowUpload
    <2>3. Session' /\ upload' \in Multipart
      BY <1>2, <1>5, <2>2, NoSession
    <2> QED BY <1>1, <1>2, <1>3, <1>4, <1>5, <1>9, <2>1, <2>2, <2>3, UploadStep
  <1> QED BY <1>8, <1>9 DEF uploadOneFile

LEMMA StepCopyToLocalStage ==
    ASSUME IInv, copyToLocalStage
    PROVE  IInv'
PROOF
  <1> USE DEF IInv
  <1>1. /\ pc = "attempt" /\ IsUpload /\ pc' = "ended" /\ meta' = SetStatus("UPLOADED")
        /\ stage' = [stage EXCEPT ![file] = Whole(1)]
        /\ UNCHANGED <<call, upload, outcome, tmpDirs, faults>>
    BY DEF copyToLocalStage
  <1>2. /\ Lists /\ UNCHANGED <<local, expired>> /\ Stores(file)
    BY DEF copyToLocalStage, Lists, Stores
  <1>3. queue # << >>
    BY <1>1 DEF Work, Places
  <1>4. PICK f : f = file
    OBVIOUS
  <1>5. /\ At(f) /\ f \in Files /\ upload = NoUpload /\ call \in RetryLoop
        /\ call.big => ~job.stream
    BY <1>1, <1>3, <1>4, UploadStart
  <1>6. Marks(f, meta') /\ meta'[f].status = "UPLOADED"
    BY <1>1, <1>5, SetStatusFacts, StatusNames
  <1>7. stage'[f] = Whole(1)
    BY <1>1, <1>4, <1>5 DEF TypeOK
  <1>8. UploadFate(f)
    BY <1>1, <1>6, <1>7 DEF UploadFate, RowTrue
  <1>9. Session' /\ upload' \in Multipart
    BY <1>1, <1>5, NoSession
  <1>10. faults' \in 0 .. MaxFaults
    BY <1>1 DEF TypeOK
  <1> QED BY <1>1, <1>2, <1>4, <1>5, <1>6, <1>8, <1>9, <1>10, UploadStep

LEMMA StepCheckExisting ==
    ASSUME IInv, checkExisting
    PROVE  IInv'
PROOF
  <1> USE DEF IInv
  <1>1. pc = "attempt" /\ IsUpload /\ job.store # "LOCAL_FS" /\ UNCHANGED <<upload, tmpDirs>>
    BY DEF checkExisting
  <1>2. Lists /\ UNCHANGED <<local, expired>> /\ Stores(file) /\ stage' = stage
    BY DEF checkExisting, Lists, Stores
  <1>3. queue # << >>
    BY <1>1 DEF Work, Places
  <1>4. PICK f : f = file
    OBVIOUS
  <1>5. /\ At(f) /\ f \in Files /\ upload = NoUpload /\ call \in RetryLoop
        /\ (call.big => ~job.stream)
        /\ meta[f].status \notin {"UPLOADED", "SKIPPED", "DOWNLOADED"}
    BY <1>1, <1>3, <1>4, UploadStart
  <1>6. PICK a \in HeaderAnswers :
            /\ Count(a)
            /\ LET h == getFileHeader(a)
                   m == SetStatus(h.status)
               IN  IF h.throws THEN Throw(m) /\ UNCHANGED call
                   ELSE IF h.header # NullHeader /\ h.status = "UPLOADED"
                   THEN /\ meta' = SetStatus("SKIPPED")
                        /\ pc' = "ended"
                        /\ UNCHANGED <<call, outcome>>
                   ELSE IF h.status = "NOT_FOUND_FILE"
                   THEN /\ meta' = m
                        /\ pc' = "send"
                        /\ UNCHANGED <<call, outcome>>
                   ELSE Judge(m)
    BY DEF checkExisting
  <1> DEFINE h == getFileHeader(a)
             m == SetStatus(h.status)
  <1>7. /\ h.status \in resultStatus /\ h.status \notin {"SKIPPED", "DOWNLOADED"}
        /\ h.status = "UPLOADED" => stage[f] # NoObject
        /\ h.header \in NullHeader .. 1
        /\ faults' \in 0 .. MaxFaults
    BY <1>5, <1>6, HeaderFacts
  <1>8. Marks(f, m) /\ m[f].status = h.status
    BY <1>5, <1>7, SetStatusFacts
  <1>9. /\ UploadFate(f) /\ Marks(f, meta') /\ meta'[f].status # "DOWNLOADED"
        /\ call' \in RetryLoop /\ (call'.big => ~job.stream)
        /\ pc' \notin {"part", "abort"}
    <2> HIDE DEF h, m
    <2>1. CASE h.throws
      <3>1. Throw(m) /\ call' = call
        BY <1>6, <2>1 DEF h, m
      <3> QED BY <1>5, <1>7, <1>8, <3>1, ThrowUpload
    <2>2. CASE ~h.throws /\ h.header # NullHeader /\ h.status = "UPLOADED"
      <3>1. meta' = SetStatus("SKIPPED") /\ pc' = "ended" /\ UNCHANGED <<call, outcome>>
        BY <1>6, <2>2 DEF h, m
      <3>2. Marks(f, meta') /\ meta'[f].status = "SKIPPED"
        BY <3>1, <1>5, SetStatusFacts, StatusNames
      <3>3. stage'[f] \in {Whole(0), Whole(1)}
        BY <1>2, <1>5, <1>7, <2>2 DEF TypeOK
      <3> QED BY <1>5, <3>1, <3>2, <3>3 DEF UploadFate, RowTrue
    <2>3. CASE ~h.throws /\ h.status = "NOT_FOUND_FILE"
      <3>1. meta' = m /\ pc' = "send" /\ UNCHANGED <<call, outcome>>
        BY <1>6, <2>3 DEF h, m
      <3> QED BY <1>1, <1>5, <1>8, <2>3, <3>1 DEF UploadFate
    <2>4. CASE /\ ~h.throws /\ h.status # "NOT_FOUND_FILE"
               /\ ~(h.header # NullHeader /\ h.status = "UPLOADED")
      <3>1. Judge(m)
        BY <1>6, <2>4 DEF h, m
      <3>2. h.status # "UPLOADED"
        <4>1. h.header = NullHeader => h.status # "UPLOADED"
          BY <1>4, <1>5, <1>7, <2>4 DEF h, getFileHeader, S3Header, AzureHeader, GcsHeader,
             PresignedHeader, TokenHeader, JustTransferred, NullHeader, EmptyHeader, TypeOK,
             NoObject, Whole
        <4> QED BY <2>4, <4>1
      <3>3. /\ UploadFate(f) /\ Marks(f, meta') /\ meta'[f].status # "DOWNLOADED"
            /\ call' \in RetryLoop /\ SameCall /\ pc' \notin {"part", "abort"}
        BY <1>1, <1>5, <1>7, <1>8, <3>1, <3>2, JudgeUpload
      <3> QED BY <1>5, <3>3 DEF SameCall
    <2> QED BY <2>1, <2>2, <2>3, <2>4
  <1>10. Session' /\ upload' \in Multipart
    BY <1>1, <1>5, <1>9, NoSession
  <1> QED BY <1>1, <1>2, <1>4, <1>5, <1>7, <1>9, <1>10, UploadStep

\* A file is sent after an attempt began; what an upload makes of an answer.
LEMMA SendStart ==
    ASSUME IInv, Sending
    PROVE  /\ queue # << >> /\ IsUpload /\ job.store # "LOCAL_FS" /\ pc \in {"attempt", "send"}
           /\ At(file) /\ file \in Files /\ upload = NoUpload
           /\ call \in RetryLoop /\ (call.big => ~job.stream)
           /\ meta[file].status \notin {"UPLOADED", "SKIPPED", "DOWNLOADED"}
           /\ Marks(file, meta)
PROOF
  <1>1. IsUpload /\ job.store # "LOCAL_FS" /\ pc \in {"attempt", "send"}
    BY DEF Sending
  <1>2. queue # << >>
    BY <1>1 DEF IInv, Work, Places
  <1> QED BY <1>1, <1>2, UploadStart

LEMMA JudgeAnswer ==
    ASSUME TypeOK, NEW f, At(f), job.store # "LOCAL_FS", NEW a \in ErrorCodes \cup {"ok"},
           Judge(Upload(a)), a = "ok" => stage'[f] = Whole(1), call.big => ~job.stream
    PROVE  /\ UploadFate(f) /\ Marks(f, meta') /\ meta'[f].status # "DOWNLOADED"
           /\ call' \in RetryLoop /\ (call'.big => ~job.stream)
           /\ pc' \notin {"part", "abort"}
PROOF
  <1>1. /\ Marks(f, Upload(a))
        /\ Upload(a)[f].status \notin {"SKIPPED", "DOWNLOADED"}
        /\ Upload(a)[f].status = "UPLOADED" => stage'[f] = Whole(1)
    BY UploadFacts, StatusNames
  <1>2. PICK m : m = Upload(a)
    OBVIOUS
  <1>3. /\ UploadFate(f) /\ Marks(f, meta') /\ meta'[f].status # "DOWNLOADED"
        /\ call' \in RetryLoop /\ SameCall /\ pc' \notin {"part", "abort"}
    <2>1. Marks(f, m) /\ Judge(m) /\ m[f].status \notin {"SKIPPED", "DOWNLOADED"}
          /\ (m[f].status = "UPLOADED" => stage'[f] = Whole(1))
      BY <1>1, <1>2
    <2> QED BY <2>1, JudgeUpload
  <1> QED BY <1>3 DEF SameCall

LEMMA StepUploadFileStream ==
    ASSUME IInv, uploadFileStream
    PROVE  IInv'
PROOF
  <1> USE DEF IInv
  <1>1. Sending /\ UNCHANGED <<upload, tmpDirs>>
    BY DEF uploadFileStream
  <1>2. Lists /\ UNCHANGED <<local, expired>>
    BY DEF uploadFileStream, Lists
  <1>3. PICK f : f = file
    OBVIOUS
  <1>4. /\ IsUpload /\ job.store # "LOCAL_FS" /\ pc \in {"attempt", "send"}
        /\ At(f) /\ f \in Files /\ upload = NoUpload /\ call \in RetryLoop
        /\ (call.big => ~job.stream) /\ Marks(f, meta) /\ meta[f].status # "DOWNLOADED"
    BY <1>1, <1>3, SendStart
  <1>5. PICK a \in Answers :
            /\ IF ClientMissing THEN Throw(meta) /\ UNCHANGED <<call, faults>>
               ELSE Count(a) /\ Judge(Upload(a))
            /\ stage' = IF ~ClientMissing /\ a \in {"ok", "lost"}
                        THEN [stage EXCEPT ![f] = Whole(1)] ELSE stage
    BY <1>3 DEF uploadFileStream
  <1>6. Stores(f)
    BY <1>5 DEF Stores
  <1>7. CASE ClientMissing
    <2>1. Throw(meta) /\ call' = call /\ faults' = faults
      BY <1>5, <1>7
    <2>2. /\ UploadFate(f) /\ Marks(f, meta') /\ meta'[f].status # "DOWNLOADED"
          /\ pc' \notin {"part", "abort"}
      BY <1>4, <2>1, ThrowUpload
    <2>3. Session' /\ upload' \in Multipart
      BY <1>1, <1>4, <2>2, NoSession
    <2>4. faults' \in 0 .. MaxFaults
      BY <2>1 DEF TypeOK
    <2> QED BY <1>1, <1>2, <1>4, <1>6, <2>1, <2>2, <2>3, <2>4, UploadStep
  <1>8. CASE ~ClientMissing
    <2>1. Count(a) /\ Judge(Upload(a))
      BY <1>5, <1>8
    <2>2. a \in ErrorCodes \cup {"ok"} /\ faults' \in 0 .. MaxFaults
      BY <2>1, AnswerFacts
    <2>3. a = "ok" => stage'[f] = Whole(1)
      BY <1>4, <1>5, <1>8 DEF TypeOK
    <2>4. /\ UploadFate(f) /\ Marks(f, meta') /\ meta'[f].status # "DOWNLOADED"
          /\ call' \in RetryLoop /\ (call'.big => ~job.stream)
          /\ pc' \notin {"part", "abort"}
      BY <1>4, <2>1, <2>2, <2>3, JudgeAnswer
    <2>5. Session' /\ upload' \in Multipart
      BY <1>1, <1>4, <2>4, NoSession
    <2> QED BY <1>1, <1>2, <1>4, <1>6, <2>2, <2>4, <2>5, UploadStep
  <1> QED BY <1>7, <1>8

\* A session that was just opened holds nothing.
LEMMA NewSession ==
    ASSUME upload' = NoUpload \/ upload' = [NoUpload EXCEPT !.open = TRUE], pc' = "part"
    PROVE  Session' /\ upload' \in Multipart
PROOF
  <1>1. NoUpload \in Multipart
    BY FileTransferAssumption DEF NoUpload, Multipart, ErrorCodes
  <1>2. upload' \in Multipart
    BY <1>1 DEF Multipart
  <1>3. upload'.pos = 0 /\ upload'.held = {}
    BY DEF NoUpload
  <1>4. 0 < Parts /\ 1 .. 0 = {}
    BY FileTransferAssumption
  <1> QED BY <1>2, <1>3, <1>4 DEF Session

LEMMA StepOpenSession ==
    ASSUME IInv, OpenSession
    PROVE  IInv'
PROOF
  <1> USE DEF IInv
  <1>1. Sending /\ call.big /\ UNCHANGED tmpDirs
    BY DEF OpenSession
  <1>2. Lists /\ UNCHANGED <<local, expired>> /\ stage' = stage
    BY DEF OpenSession, Lists
  <1>3. PICK f : f = file
    OBVIOUS
  <1>4. /\ IsUpload /\ job.store # "LOCAL_FS" /\ pc \in {"attempt", "send"} /\ ~job.stream
        /\ At(f) /\ f \in Files /\ upload = NoUpload /\ call \in RetryLoop
        /\ Marks(f, meta) /\ meta[f].status \notin {"UPLOADED", "SKIPPED", "DOWNLOADED"}
    BY <1>1, <1>3, SendStart
  <1>5. PICK a \in Answers \ {"lost"} :
            /\ Count(a)
            /\ IF a = "ok"
               THEN /\ upload' = [NoUpload EXCEPT !.open = TRUE]
                    /\ pc' = "part"
                    /\ UNCHANGED <<meta, call, outcome>>
               ELSE UNCHANGED upload /\ Judge(Upload(a))
    BY DEF OpenSession
  <1>6. Stores(f)
    BY <1>2 DEF Stores
  <1>7. a \in ErrorCodes \cup {"ok"} /\ faults' \in 0 .. MaxFaults
    BY <1>5, AnswerFacts
  <1>8. CASE a = "ok"
    <2>1. /\ upload' = [NoUpload EXCEPT !.open = TRUE] /\ pc' = "part"
          /\ meta' = meta /\ call' = call /\ outcome' = outcome
      BY <1>5, <1>8
    <2>2. Session' /\ upload' \in Multipart
      BY <2>1, NewSession
    <2>3. UploadFate(f)
      BY <1>4, <2>1 DEF UploadFate
    <2> QED BY <1>1, <1>2, <1>4, <1>6, <1>7, <2>1, <2>2, <2>3, UploadStep
  <1>9. CASE a # "ok"
    <2>1. upload' = upload /\ Judge(Upload(a))
      BY <1>5, <1>9
    <2>2. /\ UploadFate(f) /\ Marks(f, meta') /\ meta'[f].status # "DOWNLOADED"
          /\ call' \in RetryLoop /\ (call'.big => ~job.stream)
          /\ pc' \notin {"part", "abort"}
      BY <1>4, <1>7, <1>9, <2>1, JudgeAnswer
    <2>3. Session' /\ upload' \in Multipart
      BY <1>4, <2>1, <2>2, NoSession
    <2> QED BY <1>1, <1>2, <1>4, <1>6, <1>7, <2>2, <2>3, UploadStep
  <1> QED BY <1>8, <1>9

LEMMA StepStartBlocks ==
    ASSUME IInv, startBlocks
    PROVE  IInv'
PROOF
  <1> USE DEF IInv
  <1>1. Sending /\ call.big /\ UNCHANGED <<meta, call, outcome, tmpDirs, faults>>
        /\ upload' = NoUpload /\ pc' = "part"
    BY DEF startBlocks
  <1>2. Lists /\ UNCHANGED <<local, expired>> /\ stage' = stage
    BY DEF startBlocks, Lists
  <1>3. PICK f : f = file
    OBVIOUS
  <1>4. /\ IsUpload /\ job.store # "LOCAL_FS" /\ pc \in {"attempt", "send"} /\ ~job.stream
        /\ At(f) /\ f \in Files /\ call \in RetryLoop
        /\ Marks(f, meta) /\ meta[f].status \notin {"UPLOADED", "SKIPPED", "DOWNLOADED"}
    BY <1>1, <1>3, SendStart
  <1>5. Stores(f)
    BY <1>2 DEF Stores
  <1>6. Session' /\ upload' \in Multipart
    BY <1>1, NewSession
  <1>7. UploadFate(f)
    BY <1>1, <1>4 DEF UploadFate
  <1>8. faults' \in 0 .. MaxFaults
    BY <1>1 DEF TypeOK
  <1> QED BY <1>1, <1>2, <1>4, <1>5, <1>6, <1>7, <1>8, UploadStep

LEMMA StepStartResumableFails ==
    ASSUME IInv, startResumableFails
    PROVE  IInv'
PROOF
  <1> USE DEF IInv
  <1>1. Sending /\ Throw(meta) /\ UNCHANGED <<call, upload, tmpDirs, faults>>
    BY DEF startResumableFails
  <1>2. Lists /\ UNCHANGED <<local, expired>> /\ stage' = stage
    BY DEF startResumableFails, Lists
  <1>3. PICK f : f = file
    OBVIOUS
  <1>4. /\ IsUpload /\ pc \in {"attempt", "send"}
        /\ At(f) /\ f \in Files /\ upload = NoUpload /\ call \in RetryLoop
        /\ (call.big => ~job.stream) /\ Marks(f, meta) /\ meta[f].status # "DOWNLOADED"
    BY <1>1, <1>3, SendStart
  <1>5. Stores(f)
    BY <1>2 DEF Stores
  <1>6. /\ UploadFate(f) /\ Marks(f, meta') /\ meta'[f].status # "DOWNLOADED"
        /\ pc' \notin {"part", "abort"}
    BY <1>1, <1>4, ThrowUpload
  <1>7. Session' /\ upload' \in Multipart
    BY <1>1, <1>4, <1>6, NoSession
  <1>8. faults' \in 0 .. MaxFaults
    BY <1>1 DEF TypeOK
  <1> QED BY <1>1, <1>2, <1>4, <1>5, <1>6, <1>7, <1>8, UploadStep

LEMMA SessionStart ==
    ASSUME IInv, pc \in {"part", "abort"}
    PROVE  /\ queue # << >> /\ IsUpload /\ job.store # "LOCAL_FS" /\ ~job.stream
           /\ At(file) /\ file \in Files /\ call \in RetryLoop
           /\ meta[file].status \notin {"UPLOADED", "SKIPPED", "DOWNLOADED"}
           /\ Marks(file, meta)
           /\ upload \in Multipart /\ upload.pos \in 0 .. Parts /\ upload.err \in ErrorCodes
           /\ upload.held = 1 .. upload.pos
           /\ pc = "part" /\ IsGCS => upload.pos < Parts
PROOF
  <1>1. queue # << >> /\ IsUpload /\ job.store # "LOCAL_FS" /\ ~job.stream
    BY DEF IInv, Work, Places
  <1>2. TypeOK /\ At(file) /\ file \in Files
    BY <1>1, AtFile DEF IInv
  <1>3. /\ meta \in [Files -> FileMeta] /\ call \in RetryLoop /\ upload \in Multipart
    BY <1>2 DEF TypeOK
  <1>4. meta[file].status \notin {"UPLOADED", "SKIPPED", "DOWNLOADED"}
    BY <1>1, <1>2 DEF IInv, Work, Places, Current, FileInv
  <1>5. upload.pos \in 0 .. Parts /\ upload.err \in ErrorCodes
    BY <1>3 DEF Multipart
  <1> QED BY <1>1, <1>2, <1>3, <1>4, <1>5 DEF Marks, IInv, Work, Session

LEMMA PartFacts ==
    ASSUME upload \in Multipart, NEW n \in 0 .. Parts, NEW h, h = 1 .. n,
           \/ upload' = [upload EXCEPT !.open = TRUE, !.pos = n, !.held = h]
           \/ upload' = [upload EXCEPT !.held = h, !.pos = n]
    PROVE  upload' \in Multipart /\ upload'.pos = n /\ upload'.held = h
PROOF
  <1>1. h \in SUBSET AllParts
    BY FileTransferAssumption DEF AllParts
  <1> QED BY <1>1 DEF Multipart

LEMMA PartFails ==
    ASSUME upload \in Multipart, NEW e \in ErrorCodes
    PROVE  /\ [upload EXCEPT !.err = e] \in Multipart
           /\ [upload EXCEPT !.err = e].pos = upload.pos
           /\ [upload EXCEPT !.err = e].held = upload.held
  BY DEF Multipart

LEMMA StepSendPart ==
    ASSUME IInv, SendPart, ~IsGCS
    PROVE  IInv'
PROOF
  <1> USE DEF IInv
  <1>1. pc = "part" /\ upload.pos < Parts /\ UNCHANGED <<meta, call, outcome, tmpDirs>>
    BY DEF SendPart
  <1>2. Lists /\ UNCHANGED <<local, expired>> /\ stage' = stage
    BY DEF SendPart, Lists
  <1>3. PICK f : f = file
    OBVIOUS
  <1>4. /\ IsUpload /\ job.store # "LOCAL_FS" /\ ~job.stream
        /\ At(f) /\ f \in Files /\ call \in RetryLoop /\ Marks(f, meta)
        /\ meta[f].status \notin {"UPLOADED", "SKIPPED", "DOWNLOADED"}
        /\ upload \in Multipart /\ upload.pos \in 0 .. Parts
        /\ upload.held = 1 .. upload.pos
    BY <1>1, <1>3, SessionStart
  <1>5. PICK a \in Answers :
            /\ Count(a)
            /\ IF a = "ok"
               THEN /\ upload' = [upload EXCEPT !.open = TRUE, !.pos = @ + 1,
                                                !.held = @ \cup {upload.pos + 1}]
                    /\ UNCHANGED pc
               ELSE /\ upload' = [upload EXCEPT !.err = a]
                    /\ pc' = "abort"
    BY DEF SendPart
  <1>6. Stores(f)
    BY <1>2 DEF Stores
  <1>7. a \in ErrorCodes \cup {"ok"} /\ faults' \in 0 .. MaxFaults
    BY <1>5, AnswerFacts
  <1>8. pc' \in {"part", "abort"}
    BY <1>1, <1>5
  <1>9. UploadFate(f)
    BY <1>1, <1>4, <1>8 DEF UploadFate
  <1>10. ~IsGCS'
    BY <1>2 DEF Lists, IsGCS
  <1>11. Session' /\ upload' \in Multipart
    <2>1. CASE a = "ok"
      <3>1. PICK n \in 0 .. Parts : n = upload.pos + 1
        BY <1>1, <1>4, FileTransferAssumption
      <3>2. PICK h : h = upload.held \cup {upload.pos + 1}
        OBVIOUS
      <3>3. h = 1 .. n
        BY <1>4, <3>1, <3>2
      <3>4. upload' = [upload EXCEPT !.open = TRUE, !.pos = n, !.held = h]
        BY <1>4, <1>5, <2>1, <3>1, <3>2 DEF Multipart
      <3>5. upload' \in Multipart /\ upload'.pos = n /\ upload'.held = h
        BY <1>4, <3>3, <3>4, PartFacts
      <3> QED BY <1>8, <1>10, <3>3, <3>5 DEF Session
    <2>2. CASE a # "ok"
      <3>1. upload' = [upload EXCEPT !.err = a] /\ a \in ErrorCodes
        BY <1>5, <1>7, <2>2
      <3>2. upload' \in Multipart /\ upload'.pos = upload.pos /\ upload'.held = upload.held
        BY <1>4, <3>1, PartFails
      <3> QED BY <1>4, <1>8, <1>10, <3>2 DEF Session
    <2> QED BY <2>1, <2>2
  <1> QED BY <1>1, <1>2, <1>4, <1>6, <1>7, <1>9, <1>11, UploadStep

LEMMA StepComplete ==
    ASSUME IInv, Complete, ~IsGCS
    PROVE  IInv'
PROOF
  <1> USE DEF IInv
  <1>1. pc = "part" /\ upload.pos = Parts /\ UNCHANGED tmpDirs
    BY DEF Complete
  <1>2. Lists /\ UNCHANGED <<local, expired>>
    BY DEF Complete, Lists
  <1>3. PICK f : f = file
    OBVIOUS
  <1>4. /\ IsUpload /\ job.store # "LOCAL_FS" /\ ~job.stream
        /\ At(f) /\ f \in Files /\ call \in RetryLoop /\ Marks(f, meta)
        /\ meta[f].status \notin {"UPLOADED", "SKIPPED", "DOWNLOADED"}
        /\ upload \in Multipart /\ upload.pos \in 0 .. Parts
        /\ upload.held = 1 .. upload.pos
    BY <1>1, <1>3, SessionStart
  <1>5. PICK a \in Answers :
            /\ Count(a)
            /\ stage' = IF a \in {"ok", "lost"}
                        THEN [stage EXCEPT ![f] = [version |-> 1, parts |-> upload.held]]
                        ELSE stage
            /\ IF a = "ok"
               THEN upload' = NoUpload /\ Judge(Upload("ok"))
               ELSE /\ upload' = [upload EXCEPT !.err = a]
                    /\ pc' = "abort"
                    /\ UNCHANGED <<meta, call, outcome>>
    BY <1>3 DEF Complete
  <1>6. [version |-> 1, parts |-> upload.held] = Whole(1)
    BY <1>1, <1>4 DEF Whole, AllParts
  <1>7. Stores(f) /\ (a = "ok" => stage'[f] = Whole(1))
    BY <1>4, <1>5, <1>6 DEF Stores, TypeOK
  <1>8. a \in ErrorCodes \cup {"ok"} /\ faults' \in 0 .. MaxFaults
    BY <1>5, AnswerFacts
  <1>9. CASE a = "ok"
    <2>1. upload' = NoUpload /\ Judge(Upload("ok"))
      BY <1>5, <1>9
    <2>2. /\ UploadFate(f) /\ Marks(f, meta') /\ meta'[f].status # "DOWNLOADED"
          /\ call' \in RetryLoop /\ (call'.big => ~job.stream)
          /\ pc' \notin {"part", "abort"}
      BY <1>4, <1>7, <1>9, <2>1, JudgeAnswer
    <2>3. Session' /\ upload' \in Multipart
      BY <2>1, <2>2, NoSession
    <2> QED BY <1>1, <1>2, <1>4, <1>7, <1>8, <2>2, <2>3, UploadStep
  <1>10. CASE a # "ok"
    <2>1. /\ upload' = [upload EXCEPT !.err = a] /\ pc' = "abort" /\ a \in ErrorCodes
          /\ meta' = meta /\ call' = call /\ outcome' = outcome
      BY <1>5, <1>8, <1>10
    <2>2. upload' \in Multipart /\ upload'.pos = upload.pos /\ upload'.held = upload.held
      BY <1>4, <2>1, PartFails
    <2>3. Session'
      BY <1>4, <2>1, <2>2 DEF Session
    <2>4. UploadFate(f)
      BY <1>4, <2>1 DEF UploadFate
    <2> QED BY <1>1, <1>2, <1>4, <1>7, <1>8, <2>1, <2>2, <2>3, <2>4, UploadStep
  <1> QED BY <1>9, <1>10

\* The offset the service reports is where the next chunk starts.
LEMMA CommittedFacts ==
    ASSUME NEW n \in Nat
    PROVE  Committed(1 .. n) = n
  BY FS_Interval DEF Committed

LEMMA StepSendChunk ==
    ASSUME IInv, sendChunk
    PROVE  IInv'
PROOF
  <1> USE DEF IInv
  <1>1. pc = "part" /\ IsGCS /\ UNCHANGED tmpDirs
    BY DEF sendChunk
  <1>2. Lists /\ UNCHANGED <<local, expired>>
    BY DEF sendChunk, Lists
  <1>3. PICK f : f = file
    OBVIOUS
  <1>4. /\ IsUpload /\ job.store # "LOCAL_FS" /\ ~job.stream
        /\ At(f) /\ f \in Files /\ call \in RetryLoop /\ Marks(f, meta)
        /\ meta[f].status \notin {"UPLOADED", "SKIPPED", "DOWNLOADED"}
        /\ upload \in Multipart /\ upload.pos \in 0 .. Parts /\ upload.pos < Parts
        /\ upload.held = 1 .. upload.pos
    BY <1>1, <1>3, SessionStart
  <1>5. PICK a \in Answers \cup (IF faults < MaxFaults THEN {"308"} ELSE {}) :
        LET all == upload.held \cup {upload.pos + 1}
            kept == IF a = "308" THEN upload.held ELSE all
        IN  /\ Count(a)
            /\ stage' = IF a \in {"ok", "lost"} /\ upload.pos + 1 = Parts
                        THEN [stage EXCEPT ![f] = [version |-> 1, parts |-> all]]
                        ELSE stage
            /\ IF a = "ok" /\ upload.pos + 1 = Parts
               THEN upload' = NoUpload /\ Judge(Upload("ok"))
               ELSE /\ IF a = "ok" \/ (a = "308" /\ upload.held # {})
                       THEN /\ upload' = [upload EXCEPT !.held = kept, !.pos = Committed(kept)]
                            /\ UNCHANGED pc
                       ELSE /\ upload' = [upload EXCEPT !.err = a]
                            /\ pc' = "abort"
                    /\ UNCHANGED <<meta, call, outcome>>
    BY <1>3 DEF sendChunk
  <1>6. PICK n \in 0 .. Parts : n = upload.pos + 1
    BY <1>4, FileTransferAssumption
  <1>7. upload.held \cup {upload.pos + 1} = 1 .. n
    BY <1>4, <1>6
  <1>8. n = Parts => [version |-> 1, parts |-> 1 .. n] = Whole(1)
    BY DEF Whole, AllParts
  <1>9. a \in ErrorCodes \cup {"ok"} /\ faults' \in 0 .. MaxFaults
    BY <1>5, AnswerFacts
  <1>10. Stores(f) /\ (a = "ok" /\ n = Parts => stage'[f] = Whole(1))
    <2>1. stage' = IF a \in {"ok", "lost"} /\ n = Parts
                   THEN [stage EXCEPT ![f] = [version |-> 1, parts |-> 1 .. n]] ELSE stage
      BY <1>5, <1>6, <1>7
    <2> QED BY <1>4, <1>8, <2>1 DEF Stores, TypeOK
  <1>11. CASE a = "ok" /\ n = Parts
    <2>1. upload' = NoUpload /\ Judge(Upload("ok"))
      BY <1>5, <1>6, <1>11
    <2>2. /\ UploadFate(f) /\ Marks(f, meta') /\ meta'[f].status # "DOWNLOADED"
          /\ call' \in RetryLoop /\ (call'.big => ~job.stream)
          /\ pc' \notin {"part", "abort"}
      BY <1>4, <1>10, <1>11, <2>1, JudgeAnswer
    <2>3. Session' /\ upload' \in Multipart
      BY <2>1, <2>2, NoSession
    <2> QED BY <1>1, <1>2, <1>4, <1>9, <1>10, <2>2, <2>3, UploadStep
  <1>12. CASE ~(a = "ok" /\ n = Parts)
    <2>1. meta' = meta /\ call' = call /\ outcome' = outcome /\ pc' \in {"part", "abort"}
      BY <1>1, <1>5, <1>6, <1>12
    <2>2. UploadFate(f)
      BY <1>4, <2>1 DEF UploadFate
    <2>3. Session' /\ upload' \in Multipart
      <3>1. PICK e \in ErrorCodes : a # "ok" => e = a
        BY <1>9 DEF ErrorCodes
      <3>2. CASE a = "ok"
        <4>1. PICK h : h = 1 .. n
          OBVIOUS
        <4>2. Committed(h) = n /\ n < Parts
          BY <1>4, <1>6, <1>12, <3>2, <4>1, CommittedFacts, FileTransferAssumption
        <4>3. upload' = [upload EXCEPT !.held = h, !.pos = Committed(h)]
          BY <1>5, <1>6, <1>7, <1>12, <3>2, <4>1
        <4>4. upload' = [upload EXCEPT !.held = h, !.pos = n]
          BY <4>2, <4>3
        <4>5. upload' \in Multipart /\ upload'.pos = n /\ upload'.held = h
          BY <1>4, <4>1, <4>4, PartFacts
        <4> QED BY <2>1, <4>1, <4>2, <4>5 DEF Session
      <3>3. CASE a = "308" /\ upload.held # {}
        <4>1. PICK k \in 0 .. Parts : k = upload.pos
          BY <1>4
        <4>2. PICK h : h = 1 .. k /\ h = upload.held
          BY <1>4, <4>1
        <4>3. Committed(h) = k
          BY <4>1, <4>2, CommittedFacts
        <4>4. upload' = [upload EXCEPT !.held = h, !.pos = Committed(h)]
          BY <1>5, <3>3, <4>2
        <4>5. upload' = [upload EXCEPT !.held = h, !.pos = k]
          BY <4>3, <4>4
        <4>6. upload' \in Multipart /\ upload'.pos = k /\ upload'.held = h
          BY <1>4, <4>2, <4>5, PartFacts
        <4> QED BY <1>4, <2>1, <4>1, <4>2, <4>6 DEF Session
      <3>4. CASE a # "ok" /\ ~(a = "308" /\ upload.held # {})
        <4>1. upload' = [upload EXCEPT !.err = e] /\ pc' = "abort"
          BY <1>5, <3>1, <3>4
        <4>2. upload' \in Multipart /\ upload'.pos = upload.pos /\ upload'.held = upload.held
          BY <1>4, <4>1, PartFails
        <4> QED BY <1>4, <4>1, <4>2 DEF Session
      <3> QED BY <3>2, <3>3, <3>4
    <2> QED BY <1>1, <1>2, <1>4, <1>9, <1>10, <2>1, <2>2, <2>3, UploadStep
  <1> QED BY <1>11, <1>12

LEMMA StepAbort ==
    ASSUME IInv, NEW after, Abort(after), after = stage[file] \/ after = NoObject
    PROVE  IInv'
PROOF
  <1> USE DEF IInv
  <1>1. /\ pc = "abort" /\ upload' = NoUpload /\ Judge(Upload(upload.err))
        /\ UNCHANGED tmpDirs
    BY DEF Abort
  <1>2. Lists /\ UNCHANGED <<local, expired>>
    BY DEF Abort, Lists
  <1>3. PICK f : f = file
    OBVIOUS
  <1>4. /\ IsUpload /\ job.store # "LOCAL_FS" /\ ~job.stream
        /\ At(f) /\ f \in Files /\ call \in RetryLoop
        /\ upload.err \in ErrorCodes
    BY <1>1, <1>3, SessionStart
  <1>5. PICK a \in (IF upload.open THEN Answers ELSE {"ok"}) :
            /\ Count(a)
            /\ stage' = IF upload.open /\ a \in {"ok", "lost"}
                        THEN [stage EXCEPT ![f] = after] ELSE stage
    BY <1>3 DEF Abort
  <1>6. faults' \in 0 .. MaxFaults
    <2>1. CASE upload.open
      BY <1>5, <2>1, AnswerFacts
    <2>2. CASE ~upload.open
      BY <1>5, <2>2 DEF Count, Failures, TypeOK
    <2> QED BY <2>1, <2>2
  <1>7. Stores(f)
    <2>1. stage \in [Files -> {NoObject, Whole(0), Whole(1)}]
      BY DEF TypeOK
    <2>2. after = stage[f] => [stage EXCEPT ![f] = after] = stage
      BY <1>4, <2>1
    <2> QED BY <1>3, <1>5, <2>2 DEF Stores
  <1>8. upload.err # "ok"
    BY <1>4 DEF ErrorCodes, Failures
  <1>9. PICK e : e = upload.err
    OBVIOUS
  <1>10. /\ UploadFate(f) /\ Marks(f, meta') /\ meta'[f].status # "DOWNLOADED"
         /\ call' \in RetryLoop /\ (call'.big => ~job.stream)
         /\ pc' \notin {"part", "abort"}
    <2>1. e \in ErrorCodes \cup {"ok"} /\ Judge(Upload(e)) /\ (e = "ok" => stage'[f] = Whole(1))
      BY <1>1, <1>4, <1>8, <1>9
    <2> QED BY <1>4, <2>1, JudgeAnswer
  <1>11. Session' /\ upload' \in Multipart
    BY <1>1, <1>10, NoSession
  <1> QED BY <1>1, <1>2, <1>4, <1>6, <1>7, <1>10, <1>11, UploadStep

LEMMA StepPollHeader ==
    ASSUME IInv, pollHeader
    PROVE  IInv'
PROOF
  <1> USE DEF IInv
  <1>1. pc = "poll" /\ UNCHANGED <<upload, tmpDirs>>
    BY DEF pollHeader
  <1>2. Lists /\ UNCHANGED <<local, expired>> /\ stage' = stage
    BY DEF pollHeader, Lists
  <1>3. queue # << >> /\ IsUpload /\ ~job.stream /\ job.store # "LOCAL_FS"
    BY <1>1 DEF Work, Places
  <1>4. PICK f : f = file
    OBVIOUS
  <1>5. /\ At(f) /\ f \in Files /\ upload = NoUpload /\ call \in RetryLoop
        /\ meta[f].status # "DOWNLOADED"
    BY <1>1, <1>3, <1>4, UploadStart
  <1>6. stage[f] = Whole(1)
    BY <1>1, <1>5 DEF Work, Current, FileInv
  <1>7. PICK a \in HeaderAnswers :
            /\ Count(a)
            /\ LET h == getFileHeader(a)
                   m == SetStatus(h.status)
               IN  IF h.throws THEN Throw(m) /\ UNCHANGED call
                   ELSE /\ meta' = m
                        /\ IF h.status = "NOT_FOUND_FILE" /\ call.polls + 1 < MaxPolls
                           THEN call' = [call EXCEPT !.polls = @ + 1] /\ UNCHANGED pc
                           ELSE pc' = "ended" /\ UNCHANGED call
                        /\ UNCHANGED outcome
    BY DEF pollHeader
  <1> DEFINE h == getFileHeader(a)
             m == SetStatus(h.status)
  <1>8. /\ h.status \in resultStatus /\ h.status # "DOWNLOADED"
        /\ faults' \in 0 .. MaxFaults
    BY <1>5, <1>7, HeaderFacts
  <1>9. Marks(f, m) /\ m[f].status = h.status
    BY <1>5, <1>8, SetStatusFacts
  <1>10. Stores(f)
    BY <1>2 DEF Stores
  <1>11. /\ UploadFate(f) /\ Marks(f, meta') /\ meta'[f].status # "DOWNLOADED"
         /\ call' \in RetryLoop
         /\ pc' \notin {"part", "abort"}
    <2> HIDE DEF h, m
    <2>1. CASE h.throws
      <3>1. Throw(m) /\ call' = call
        BY <1>7, <2>1 DEF h, m
      <3> QED BY <1>5, <1>8, <1>9, <3>1, ThrowUpload
    <2>2. CASE ~h.throws /\ h.status = "NOT_FOUND_FILE" /\ call.polls + 1 < MaxPolls
      <3>1. meta' = m /\ call' = [call EXCEPT !.polls = @ + 1] /\ pc' = pc /\ outcome' = outcome
        BY <1>7, <2>2 DEF h, m
      <3>2. PICK n \in 0 .. MaxPolls - 1 : n = call.polls + 1
        BY <1>5, <2>2, FileTransferAssumption DEF RetryLoop
      <3>3. call' = [call EXCEPT !.polls = n]
        BY <1>5, <3>1, <3>2 DEF RetryLoop
      <3>4. call' \in RetryLoop
        BY <1>5, <3>3 DEF RetryLoop
      <3> QED BY <1>1, <1>2, <1>3, <1>6, <1>8, <1>9, <3>1, <3>4 DEF UploadFate
    <2>3. CASE ~h.throws /\ ~(h.status = "NOT_FOUND_FILE" /\ call.polls + 1 < MaxPolls)
      <3>1. meta' = m /\ call' = call /\ pc' = "ended" /\ outcome' = outcome
        BY <1>7, <2>3 DEF h, m
      <3>2. RowTrue(f)'
        BY <1>2, <1>6, <1>8, <1>9, <3>1 DEF RowTrue
      <3> QED BY <1>3, <1>5, <1>8, <1>9, <3>1, <3>2 DEF UploadFate
    <2> QED BY <2>1, <2>2, <2>3
  <1>12. Session' /\ upload' \in Multipart
    BY <1>1, <1>5, <1>11, NoSession
  <1> QED BY <1>1, <1>2, <1>3, <1>5, <1>8, <1>10, <1>11, <1>12, UploadStep

-----------------------------------------------------------------------------
(* The steps of a download *)

\* What holds of the file of every download step.
LEMMA DownloadStart ==
    ASSUME IInv, queue # << >>, ~IsUpload, pc \in {"next", "attempt", "decrypt"}
    PROVE  /\ TypeOK /\ ~job.stream /\ At(file) /\ file \in Files
           /\ call \in RetryLoop /\ call.header \in Int /\ call.body \in NullHeader .. 1
           /\ meta[file].status \in resultStatus /\ Marks(file, meta)
           /\ stage[file] \in {Whole(0), Whole(1)} /\ stage[file].version \in {0, 1}
           /\ local[file] \in Contents
           /\ Sealed => local[file] \notin Open
           /\ pc = "next" => meta[file].status \in {"undefined"} \cup Renewals
           /\ pc = "attempt" => call.header <= stage[file].version
           /\ pc = "decrypt" => /\ call.header <= call.body
                                /\ call.body <= stage[file].version
                                /\ meta[file].status = "DOWNLOADED"
PROOF
  <1>1. TypeOK /\ At(file) /\ file \in Files
    BY AtFile DEF IInv
  <1>2. meta \in [Files -> FileMeta] /\ call \in RetryLoop /\ local[file] \in Contents
        /\ meta[file] \in FileMeta /\ stage[file] \in {NoObject, Whole(0), Whole(1)}
    BY <1>1 DEF TypeOK, Contents
  <1>3. FileInv(file) /\ stage[file] # NoObject
    BY <1>1 DEF IInv, Work, Current, Places
  <1>4. ~job.stream
    BY <1>1, JobFacts
  <1>5. stage[file].version \in {0, 1}
    BY <1>2, <1>3 DEF Whole
  <1>6. call.header \in Int /\ call.body \in NullHeader .. 1
    BY <1>2 DEF RetryLoop, NullHeader
  <1>7. meta[file].status \in resultStatus
    BY <1>2 DEF FileMeta
  <1> QED BY <1>1, <1>2, <1>3, <1>4, <1>5, <1>6, <1>7 DEF FileInv, Marks

LEMMA ThrowDownload ==
    ASSUME TypeOK, NEW f, At(f), ~job.stream, NEW m, Marks(f, m), Throw(m),
           Sealed => local'[f] \notin Open
    PROVE  DownloadFate(f) /\ Marks(f, meta')
PROOF
  <1>1. Thrown(f) /\ Marks(f, meta')
    BY ThrowFacts
  <1> QED BY <1>1 DEF Thrown, DownloadFate, RowTrue

LEMMA StepDownloadOneFile ==
    ASSUME IInv, downloadOneFile
    PROVE  IInv'
PROOF
  <1> USE DEF IInv
  <1>1. pc = "next" /\ queue # << >> /\ ~IsUpload /\ tmpDirs' = tmpDirs \cup {file}
    BY DEF downloadOneFile
  <1>2. Lists /\ UNCHANGED <<upload, stage, expired>> /\ local' = local
    BY DEF downloadOneFile, Lists
  <1>3. PICK f : f = file
    OBVIOUS
  <1>4. /\ TypeOK /\ ~job.stream /\ At(f) /\ f \in Files /\ call \in RetryLoop
        /\ Marks(f, meta) /\ stage[f].version \in {0, 1} /\ local[f] \in Contents
        /\ (Sealed => local[f] \notin Open)
    BY <1>1, <1>3, DownloadStart
  <1>5. PICK c \in Contents : local' = [local EXCEPT ![f] = c]
    BY <1>2, <1>4 DEF TypeOK
  <1>6. faults \in 0 .. MaxFaults /\ MaxFaults \in Nat
    BY FileTransferAssumption DEF TypeOK
  <1>7. NewCall \in RetryLoop /\ NewCall.header = NullHeader
    BY FileTransferAssumption DEF NewCall, RetryLoop, NullHeader
  <1>8. /\ DownloadFate(f) /\ Marks(f, meta') /\ call' \in RetryLoop
        /\ faults' \in 0 .. MaxFaults
    <2>1. CASE call' = NewCall /\ pc' = "attempt" /\ UNCHANGED <<meta, outcome, faults>>
      <3>1. NullHeader <= stage[f].version
        BY <1>4 DEF NullHeader
      <3> QED BY <1>2, <1>4, <1>6, <1>7, <2>1, <3>1 DEF DownloadFate
    <2>2. CASE LocalFault /\ Throw(meta) /\ UNCHANGED call
      <3>1. faults' \in 0 .. MaxFaults
        BY <1>6, <2>2 DEF LocalFault
      <3> QED BY <1>2, <1>4, <2>2, <3>1, ThrowDownload
    <2>3. CASE \E a \in HeaderAnswers :
                  LET h == getFileHeader(a)
                      m == SetStatus(h.status)
                  IN  /\ Count(a)
                      /\ call' = [NewCall EXCEPT !.header = h.header]
                      /\ IF h.throws THEN Throw(m)
                         ELSE meta' = m /\ pc' = "attempt" /\ UNCHANGED outcome
      <3>1. PICK a \in HeaderAnswers :
                LET h == getFileHeader(a)
                    m == SetStatus(h.status)
                IN  /\ Count(a)
                    /\ call' = [NewCall EXCEPT !.header = h.header]
                    /\ IF h.throws THEN Throw(m)
                       ELSE meta' = m /\ pc' = "attempt" /\ UNCHANGED outcome
        BY <2>3
      <3> DEFINE h == getFileHeader(a)
                 m == SetStatus(h.status)
      <3>2. /\ h.status \in resultStatus /\ h.header \in NullHeader .. 1
            /\ h.header <= stage[f].version /\ faults' \in 0 .. MaxFaults
        BY <1>4, <3>1, HeaderFacts
      <3>3. Marks(f, m)
        BY <1>4, <3>2, SetStatusFacts
      <3>4. call' \in RetryLoop /\ call'.header = h.header
        <4> HIDE DEF h
        <4>1. call' = [NewCall EXCEPT !.header = h.header]
          BY <3>1 DEF h
        <4> QED BY <1>7, <3>2, <4>1 DEF RetryLoop
      <3> HIDE DEF h, m
      <3>5. CASE h.throws
        <4>1. Throw(m)
          BY <3>1, <3>5 DEF h, m
        <4> QED BY <1>2, <1>4, <3>2, <3>3, <3>4, <4>1, ThrowDownload
      <3>6. CASE ~h.throws
        <4>1. meta' = m /\ pc' = "attempt" /\ outcome' = outcome
          BY <3>1, <3>6 DEF h, m
        <4> QED BY <1>2, <1>4, <3>2, <3>3, <3>4, <4>1 DEF DownloadFate
      <3> QED BY <3>5, <3>6
    <2> QED BY <2>1, <2>2, <2>3 DEF downloadOneFile
  <1>9. tmpDirs' \subseteq tmpDirs \cup {f} /\ (Sealed /\ f \in tmpDirs' => local'[f] \notin Open)
    BY <1>1, <1>2, <1>3, <1>4
  <1> QED BY <1>1, <1>2, <1>4, <1>5, <1>8, <1>9, DownloadStep

LEMMA DownloadFacts ==
    ASSUME NEW a
    PROVE  /\ a = "ok" => Download(a).status = "DOWNLOADED" /\ Download(a).local = Body
           /\ a # "ok" => /\ Download(a).status \in Retries \cup Renewals
                          /\ Download(a).local \in {local[file], "partial"}
PROOF
  <1>1. "NEED_RETRY" \in Retries
    BY DEF Retries
  <1> QED BY <1>1, ErrorFacts DEF Download, S3Download, AzureDownload, GcsDownload

LEMMA StepNativeDownloadFile ==
    ASSUME IInv, nativeDownloadFile
    PROVE  IInv'
PROOF
  <1> USE DEF IInv
  <1>1. pc = "attempt" /\ ~IsUpload /\ job.store # "LOCAL_FS" /\ tmpDirs' = tmpDirs
    BY DEF nativeDownloadFile
  <1>2. Lists /\ UNCHANGED <<upload, stage, expired>>
    BY DEF nativeDownloadFile, Lists
  <1>3. queue # << >>
    BY <1>1 DEF Work, Places
  <1>4. PICK f : f = file
    OBVIOUS
  <1>5. /\ TypeOK /\ ~job.stream /\ At(f) /\ f \in Files /\ call \in RetryLoop
        /\ stage[f].version \in {0, 1} /\ local[f] \in Contents
        /\ (Sealed => local[f] \notin Open)
        /\ call.header \in Int /\ call.header <= stage[f].version
    BY <1>1, <1>3, <1>4, DownloadStart
  <1>6. PICK a \in Answers :
            /\ Count(a)
            /\ local' = [local EXCEPT ![f] = Download(a).local]
            /\ IF a = "ok"
               THEN /\ meta' = SetStatus(Download(a).status)
                    /\ call' = [call EXCEPT !.body = stage[f].version]
                    /\ pc' = IF job.encrypted THEN "decrypt" ELSE "ended"
                    /\ UNCHANGED outcome
               ELSE Judge(SetStatus(Download(a).status))
    BY <1>4 DEF nativeDownloadFile
  <1>7. faults' \in 0 .. MaxFaults
    BY <1>6, AnswerFacts
  <1>8. PICK c : c = Download(a).local
    OBVIOUS
  <1>9. local \in [Files -> Contents] /\ (Sealed <=> job.encrypted)
    BY <1>1, <1>5 DEF TypeOK, Contents, Sealed
  <1>10. CASE a = "ok"
    <2>1. c = Body /\ Download(a).status = "DOWNLOADED"
      BY <1>8, <1>10, DownloadFacts
    <2>2. c \in Contents /\ (Sealed => c \notin Open) /\ (~Sealed => c = "clear")
      BY <1>9, <2>1 DEF Body, Contents, Open
    <2>3. local' = [local EXCEPT ![f] = c] /\ local'[f] = c
      BY <1>5, <1>6, <1>8, <1>9
    <2>4. Marks(f, meta') /\ meta'[f].status = "DOWNLOADED"
      BY <1>5, <1>6, <1>10, <2>1, SetStatusFacts, StatusNames
    <2>5. /\ call' \in RetryLoop /\ call'.header = call.header
          /\ call'.body = stage[f].version
      <3>1. call' = [call EXCEPT !.body = stage[f].version]
        BY <1>6, <1>10
      <3>2. PICK v \in NullHeader .. 1 : v = stage[f].version
        BY <1>5 DEF NullHeader
      <3>3. call' = [call EXCEPT !.body = v]
        BY <3>1, <3>2
      <3> QED BY <1>5, <3>2, <3>3 DEF RetryLoop
    <2>6. DownloadFate(f)
      <3>1. CASE Sealed
        <4>1. pc' = "decrypt" /\ outcome' = outcome
          BY <1>6, <1>9, <1>10, <3>1
        <4>2. stage[f].version <= stage[f].version
          BY <1>5
        <4> QED BY <1>5, <2>2, <2>3, <2>4, <2>5, <3>1, <4>1, <4>2 DEF DownloadFate
      <3>2. CASE ~Sealed
        <4>1. pc' = "ended" /\ outcome' = outcome
          BY <1>6, <1>9, <1>10, <3>2
        <4>2. RowTrue(f)'
          BY <2>2, <2>3, <2>4, <3>2 DEF RowTrue
        <4> QED BY <2>4, <4>1, <4>2 DEF DownloadFate
      <3> QED BY <3>1, <3>2
    <2>7. tmpDirs' \subseteq tmpDirs \cup {f}
          /\ (Sealed /\ f \in tmpDirs' => local'[f] \notin Open)
      BY <1>1, <2>2, <2>3
    <2> QED BY <1>1, <1>2, <1>5, <1>7, <2>2, <2>3, <2>4, <2>5, <2>6, <2>7, DownloadStep
  <1>11. CASE a # "ok"
    <2>1. c \in {local[f], "partial"} /\ Download(a).status \in Retries \cup Renewals
      BY <1>4, <1>8, <1>11, DownloadFacts
    <2>2. c \in Contents /\ (Sealed => c \notin Open)
      BY <1>5, <2>1 DEF Contents, Open
    <2>3. local' = [local EXCEPT ![f] = c] /\ local'[f] = c
      BY <1>5, <1>6, <1>8, <1>9
    <2>4. PICK st \in Retries \cup Renewals : st = Download(a).status
      BY <2>1
    <2>5. PICK m : m = SetStatus(st)
      OBVIOUS
    <2>6. Marks(f, m) /\ m[f].status = st
      BY <1>5, <2>5, SetStatusFacts, StatusNames
    <2>7. Judge(m)
      BY <1>6, <1>11, <2>4, <2>5
    <2>8. /\ Judged(f, st) /\ Marks(f, meta') /\ call' \in RetryLoop /\ SameCall
      BY <1>5, <2>6, <2>7, JudgeFacts
    <2>9. st \notin {"UPLOADED", "SKIPPED", "DOWNLOADED"}
      BY StatusNames
    <2>10. DownloadFate(f)
      BY <1>5, <2>2, <2>3, <2>8, <2>9 DEF Judged, Thrown, SameCall, DownloadFate, RowTrue
    <2>11. tmpDirs' \subseteq tmpDirs \cup {f}
           /\ (Sealed /\ f \in tmpDirs' => local'[f] \notin Open)
      BY <1>1, <2>2, <2>3
    <2> QED BY <1>1, <1>2, <1>5, <1>7, <2>2, <2>3, <2>8, <2>10, <2>11, DownloadStep
  <1> QED BY <1>10, <1>11

LEMMA StepCopyFromLocalStage ==
    ASSUME IInv, copyFromLocalStage
    PROVE  IInv'
PROOF
  <1> USE DEF IInv
  <1>1. /\ pc = "attempt" /\ ~IsUpload /\ job.store = "LOCAL_FS" /\ tmpDirs' = tmpDirs
        /\ meta' = SetStatus("DOWNLOADED") /\ pc' = "ended" /\ UNCHANGED <<call, outcome, faults>>
    BY DEF copyFromLocalStage
  <1>2. Lists /\ UNCHANGED <<upload, stage, expired>>
    BY DEF copyFromLocalStage, Lists
  <1>3. queue # << >>
    BY <1>1 DEF Work, Places
  <1>4. PICK f : f = file
    OBVIOUS
  <1>5. /\ TypeOK /\ At(f) /\ f \in Files /\ call \in RetryLoop
    BY <1>1, <1>3, <1>4, DownloadStart
  <1>6. local' = [local EXCEPT ![f] = "clear"] /\ local'[f] = "clear" /\ "clear" \in Contents
    BY <1>4, <1>5 DEF copyFromLocalStage, TypeOK, Contents
  <1>7. Marks(f, meta') /\ meta'[f].status = "DOWNLOADED"
    BY <1>1, <1>5, SetStatusFacts, StatusNames
  <1>8. ~Sealed /\ faults' \in 0 .. MaxFaults
    BY <1>1 DEF Sealed, TypeOK
  <1>9. DownloadFate(f)
    BY <1>1, <1>6, <1>7 DEF DownloadFate, RowTrue
  <1> QED BY <1>1, <1>2, <1>5, <1>6, <1>7, <1>8, <1>9, DownloadStep

LEMMA StepDecryptFile ==
    ASSUME IInv, decryptFile
    PROVE  IInv'
PROOF
  <1> USE DEF IInv
  <1>1. /\ pc = "decrypt" /\ tmpDirs' = tmpDirs \ {file}
        /\ pc' = "ended" /\ UNCHANGED <<meta, call, outcome, faults>>
    BY DEF decryptFile
  <1>2. Lists /\ UNCHANGED <<upload, stage, expired>>
    BY DEF decryptFile, Lists
  <1>3. queue # << >> /\ ~IsUpload
    BY <1>1 DEF Work, Places
  <1>4. PICK f : f = file
    OBVIOUS
  <1>5. /\ TypeOK /\ At(f) /\ f \in Files /\ call \in RetryLoop /\ Marks(f, meta)
        /\ meta[f].status = "DOWNLOADED"
    BY <1>1, <1>3, <1>4, DownloadStart
  <1>6. local' = [local EXCEPT ![f] = "clear"] /\ local'[f] = "clear" /\ "clear" \in Contents
    BY <1>4, <1>5 DEF decryptFile, TypeOK, Contents
  <1>7. faults' \in 0 .. MaxFaults
    BY <1>1 DEF TypeOK
  <1>8. DownloadFate(f)
    BY <1>1, <1>5, <1>6 DEF DownloadFate, RowTrue
  <1> QED BY <1>1, <1>2, <1>3, <1>4, <1>5, <1>6, <1>7, <1>8, DownloadStep

LEMMA StepDecryptFails ==
    ASSUME IInv, decryptFails
    PROVE  IInv'
PROOF
  <1> USE DEF IInv
  <1>1. /\ pc = "decrypt" /\ tmpDirs' = tmpDirs /\ Throw(meta) /\ call' = call
        /\ local' = local
    BY DEF decryptFails
  <1>2. Lists /\ UNCHANGED <<upload, stage, expired>>
    BY DEF decryptFails, Lists
  <1>3. queue # << >> /\ ~IsUpload
    BY <1>1 DEF Work, Places
  <1>4. PICK f : f = file
    OBVIOUS
  <1>5. /\ TypeOK /\ ~job.stream /\ At(f) /\ f \in Files /\ call \in RetryLoop /\ Marks(f, meta)
        /\ local[f] \in Contents /\ (Sealed => local[f] \notin Open)
    BY <1>1, <1>3, <1>4, DownloadStart
  <1>6. PICK c \in Contents : local' = [local EXCEPT ![f] = c]
    BY <1>1, <1>5 DEF TypeOK
  <1>7. faults' \in 0 .. MaxFaults
    BY FileTransferAssumption DEF TypeOK, decryptFails, LocalFault
  <1>8. DownloadFate(f) /\ Marks(f, meta')
    BY <1>1, <1>5, ThrowDownload
  <1> QED BY <1>1, <1>2, <1>3, <1>5, <1>6, <1>7, <1>8, DownloadStep

LEMMA StepDecryptGarbles ==
    ASSUME IInv, decryptGarbles
    PROVE  IInv'
PROOF
  <1> USE DEF IInv
  <1>1. /\ pc = "decrypt" /\ UNCHANGED <<meta, call, faults>>
        /\ Envelope \notin {NullHeader, EmptyHeader, call.body}
    BY DEF decryptGarbles
  <1>2. Lists /\ UNCHANGED <<upload, stage, expired>>
    BY DEF decryptGarbles, Lists
  <1>3. queue # << >> /\ ~IsUpload
    BY <1>1 DEF Work, Places
  <1>4. PICK f : f = file
    OBVIOUS
  <1>5. /\ TypeOK /\ At(f) /\ f \in Files /\ call \in RetryLoop /\ Marks(f, meta)
        /\ local[f] \in Contents /\ (Sealed => local[f] \notin Open)
        /\ call.header <= call.body /\ call.body <= stage[f].version
        /\ stage[f].version \in {0, 1} /\ meta[f].status = "DOWNLOADED"
    BY <1>1, <1>3, <1>4, DownloadStart
  <1>6. call.header \in NullHeader .. 1 /\ call.body \in NullHeader .. 1
    BY <1>5 DEF RetryLoop
  <1>7. ~meta[f].url /\ stage[f].version = 1
    <2>1. ~meta[f].url /\ call.header \notin {NullHeader, EmptyHeader, call.body}
      BY <1>1, <1>4 DEF Envelope
    <2> QED BY <1>5, <1>6, <2>1 DEF NullHeader, EmptyHeader
  <1>8. faults' \in 0 .. MaxFaults
    BY <1>1 DEF TypeOK
  <1>9. CASE pc' = "done" /\ outcome' = "crashed" /\ UNCHANGED <<local, tmpDirs>>
    <2>1. PICK c \in Contents : local' = [local EXCEPT ![f] = c]
      BY <1>5, <1>9 DEF TypeOK
    <2>2. DownloadFate(f)
      BY <1>9 DEF DownloadFate
    <2> QED BY <1>1, <1>2, <1>3, <1>5, <1>8, <1>9, <2>1, <2>2, DownloadStep
  <1>10. CASE /\ local' = [local EXCEPT ![f] = "garbled"]
              /\ tmpDirs' = tmpDirs \ {f}
              /\ pc' = "ended"
              /\ UNCHANGED outcome
    <2>1. local'[f] = "garbled" /\ "garbled" \in Contents
      BY <1>5, <1>10 DEF TypeOK, Contents
    <2>2. DownloadFate(f)
      BY <1>1, <1>2, <1>5, <1>7, <1>10, <2>1 DEF DownloadFate, RowTrue
    <2> QED BY <1>1, <1>2, <1>3, <1>5, <1>8, <1>10, <2>1, <2>2, DownloadStep
  <1> QED BY <1>4, <1>9, <1>10 DEF decryptGarbles

-----------------------------------------------------------------------------
(* The loops over the files *)

LEMMA MetasFacts ==
    ASSUME IInv, pc \in {"execute", "renewUrls"}
    PROVE  /\ MetasWithUrl \in [Files -> FileMeta]
           /\ \A f \in Files : /\ MetasWithUrl[f].status = meta[f].status
                               /\ MetasWithUrl[f].url <=> IsGCS /\ ~job.token
PROOF
  <1>1. meta \in [Files -> FileMeta] /\ \A f \in Files : meta[f] \in FileMeta
    BY DEF IInv, TypeOK
  <1>2. TypeOK /\ job \in AnyJob
    BY JobFacts DEF IInv
  <1>3. (~IsGCS \/ (IsUpload /\ job.token)) => \A f \in Files : meta[f].url <=> IsGCS /\ ~job.token
    BY DEF IInv, Listing, Urls
  <1>4. ASSUME NEW b \in BOOLEAN, NEW m, m = [f \in Files |-> [meta[f] EXCEPT !.url = b]]
        PROVE  /\ m \in [Files -> FileMeta]
               /\ \A f \in Files : m[f].status = meta[f].status /\ m[f].url = b
    <2>1. \A f \in Files : /\ [meta[f] EXCEPT !.url = b] \in FileMeta
                           /\ [meta[f] EXCEPT !.url = b].status = meta[f].status
                           /\ [meta[f] EXCEPT !.url = b].url = b
      BY <1>1 DEF FileMeta
    <2> QED BY <1>4, <2>1
  <1>5. CASE ~IsGCS \/ (IsUpload /\ job.token)
    <2>1. MetasWithUrl = meta
      BY <1>5 DEF MetasWithUrl
    <2> QED BY <1>1, <1>3, <1>5, <2>1
  <1>6. CASE IsGCS /\ IsUpload /\ ~job.token
    <2>1. MetasWithUrl = [f \in Files |-> [meta[f] EXCEPT !.url = TRUE]]
      BY <1>6 DEF MetasWithUrl
    <2>2. PICK b \in BOOLEAN : b = TRUE
      OBVIOUS
    <2>3. MetasWithUrl = [f \in Files |-> [meta[f] EXCEPT !.url = b]]
      BY <2>1, <2>2
    <2>4. /\ MetasWithUrl \in [Files -> FileMeta]
          /\ \A f \in Files : MetasWithUrl[f].status = meta[f].status /\ MetasWithUrl[f].url = b
      BY <1>4, <2>3
    <2>5. \A f \in Files : MetasWithUrl[f].url <=> IsGCS /\ ~job.token
      BY <1>6, <2>2, <2>4
    <2> QED BY <2>4, <2>5
  <1>7. CASE IsGCS /\ ~IsUpload
    <2>1. MetasWithUrl = [f \in Files |-> [meta[f] EXCEPT !.url = ~job.token]]
      BY <1>7 DEF MetasWithUrl
    <2>2. PICK b \in BOOLEAN : b = ~job.token
      OBVIOUS
    <2>3. MetasWithUrl = [f \in Files |-> [meta[f] EXCEPT !.url = b]]
      BY <2>1, <2>2
    <2>4. /\ MetasWithUrl \in [Files -> FileMeta]
          /\ \A f \in Files : MetasWithUrl[f].status = meta[f].status /\ MetasWithUrl[f].url = b
      BY <1>4, <2>3
    <2>5. \A f \in Files : MetasWithUrl[f].url <=> IsGCS /\ ~job.token
      BY <1>7, <2>2, <2>4
    <2> QED BY <2>4, <2>5
  <1> QED BY <1>5, <1>6, <1>7

\* The same file is tried again.
LEMMA AgainStep ==
    ASSUME IInv, NEW f, At(f), pc \in {"ended", "renewUrls"}, ~job.stream,
           pc' \in {"next", "renewUrls"}, Lists,
           UNCHANGED <<call, upload, outcome, local, stage, expired, faults>>,
           meta' \in [Files -> FileMeta],
           \A g \in Files : meta'[g].status = meta[g].status /\ meta'[g].url = meta[g].url,
           meta[f].status \in {"undefined"} \cup Renewals,
           tmpDirs' \subseteq tmpDirs, IsUpload => tmpDirs' = {}
    PROVE  IInv'
PROOF
  <1>1. f \in Files /\ f = Head(queue) /\ queue # << >>
    BY AtFile DEF IInv, At
  <1>2. TypeOK
    BY DEF IInv
  <1>3. /\ job' = job /\ large' = large /\ queue' = queue /\ group' = group
        /\ results' = results
    BY DEF Lists
  <1>4. TypeOK'
    BY <1>2, <1>3 DEF TypeOK
  <1>5. Keeps(f)
    BY <1>1 DEF Keeps
  <1>6. Listing'
    BY <1>4, <1>5, OthersKept
  <1>7. (IsUpload' <=> IsUpload) /\ (Sealed' <=> Sealed) /\ \A g : At(g)' <=> At(g)
    BY <1>3 DEF IsUpload, Sealed, At
  <1>8. Places'
    BY <1>1, <1>3, <1>7 DEF IInv, Work, Places
  <1>9. Session'
    BY DEF IInv, Work, Session
  <1>10. Current'
    <2>1. Sealed => local[f] \notin Open
      BY <1>1 DEF IInv, Work, Current, FileInv, Renewals
    <2>2. FileInv(f)'
      BY <1>1, <1>7, <2>1 DEF FileInv
    <2> QED BY <1>7, <2>2 DEF Current, At
  <1>11. Disk'
    BY <1>3, <1>7 DEF IInv, Work, Disk
  <1> QED BY <1>4, <1>6, <1>8, <1>9, <1>10, <1>11 DEF IInv, Work

LEMMA RemoveFacts ==
    ASSUME IInv, RemoveTmpDir, queue # << >>
    PROVE  tmpDirs' \subseteq tmpDirs /\ (IsUpload => tmpDirs' = {})
  BY DEF RemoveTmpDir, IInv, Work, Disk, At, file

LEMMA StepRenewClient ==
    ASSUME IInv, renewClient
    PROVE  IInv'
PROOF
  <1>1. /\ pc = "ended" /\ pc' = "next" /\ ~job.stream /\ RemoveTmpDir
        /\ meta[file].status = "RENEW_TOKEN"
        /\ UNCHANGED <<call, upload, outcome, local, stage, expired, faults>>
    BY DEF renewClient
  <1>2. Lists
    BY DEF renewClient, Lists
  <1>3. queue # << >>
    BY <1>1 DEF IInv, Work, Places
  <1>4. PICK f : f = file
    OBVIOUS
  <1>5. At(f) /\ TypeOK
    BY <1>3, <1>4, AtFile DEF IInv
  <1>6. PICK behind : meta' = [g \in Files |-> IF g \in behind
                                 THEN [meta[g] EXCEPT !.client = FALSE] ELSE meta[g]]
    BY DEF renewClient
  <1>7. \A g \in Files : /\ meta[g] \in FileMeta
                         /\ [meta[g] EXCEPT !.client = FALSE] \in FileMeta
                         /\ [meta[g] EXCEPT !.client = FALSE].status = meta[g].status
                         /\ [meta[g] EXCEPT !.client = FALSE].url = meta[g].url
    BY <1>5 DEF TypeOK, FileMeta
  <1>8. /\ meta' \in [Files -> FileMeta]
        /\ \A g \in Files : meta'[g].status = meta[g].status /\ meta'[g].url = meta[g].url
    BY <1>6, <1>7
  <1>9. meta[f].status \in {"undefined"} \cup Renewals
    BY <1>1, <1>4 DEF Renewals
  <1>10. tmpDirs' \subseteq tmpDirs /\ (IsUpload => tmpDirs' = {})
    BY <1>1, <1>3, RemoveFacts
  <1> QED BY <1>1, <1>2, <1>5, <1>8, <1>9, <1>10, AgainStep

LEMMA StepRenewUrl ==
    ASSUME IInv, renewUrl
    PROVE  IInv'
PROOF
  <1>1. /\ pc = "ended" /\ pc' = "renewUrls" /\ ~job.stream /\ RemoveTmpDir
        /\ meta[file].status = "RENEW_PRESIGNED_URL" /\ meta' = meta
        /\ UNCHANGED <<call, upload, outcome, local, stage, expired, faults>>
    BY DEF renewUrl
  <1>2. Lists
    BY DEF renewUrl, Lists
  <1>3. queue # << >>
    BY <1>1 DEF IInv, Work, Places
  <1>4. PICK f : f = file
    OBVIOUS
  <1>5. At(f) /\ meta' \in [Files -> FileMeta]
    BY <1>1, <1>3, <1>4, AtFile DEF IInv, TypeOK
  <1>6. meta[f].status \in {"undefined"} \cup Renewals
    BY <1>1, <1>4 DEF Renewals
  <1>7. tmpDirs' \subseteq tmpDirs /\ (IsUpload => tmpDirs' = {})
    BY <1>1, <1>3, RemoveFacts
  <1> QED BY <1>1, <1>2, <1>5, <1>6, <1>7, AgainStep

LEMMA StepUrlsRenewed ==
    ASSUME IInv, urlsRenewed
    PROVE  IInv'
PROOF
  <1>1. /\ pc = "renewUrls" /\ pc' = "next" /\ meta' = MetasWithUrl
        /\ UNCHANGED <<call, upload, outcome, tmpDirs, local, stage, expired, faults>>
    BY DEF urlsRenewed
  <1>2. Lists
    BY DEF urlsRenewed, Lists
  <1>3. queue # << >> /\ ~job.stream
    BY <1>1 DEF IInv, Work, Places
  <1>4. PICK f : f = file
    OBVIOUS
  <1>5. At(f) /\ f \in Files
    BY <1>3, <1>4, AtFile DEF IInv
  <1>6. /\ meta' \in [Files -> FileMeta]
        /\ \A g \in Files : /\ meta'[g].status = meta[g].status
                            /\ meta'[g].url <=> IsGCS /\ ~job.token
    BY <1>1, MetasFacts
  <1>7. \A g \in Files : meta'[g].url = meta[g].url
    <2>1. \A g \in Files : (meta'[g].url <=> meta[g].url)
      BY <1>1, <1>6 DEF IInv, Listing, Urls
    <2>2. \A g \in Files : meta'[g].url \in BOOLEAN /\ meta[g].url \in BOOLEAN
      BY <1>6 DEF IInv, TypeOK, FileMeta
    <2> QED BY <2>1, <2>2
  <1>8. meta[f].status \in {"undefined"} \cup Renewals
    BY <1>1, <1>5 DEF IInv, Work, Current, FileInv
  <1>9. IsUpload => tmpDirs' = {}
    BY <1>1 DEF IInv, Work, Disk
  <1> QED BY <1>1, <1>2, <1>3, <1>5, <1>6, <1>7, <1>8, <1>9, AgainStep

LEMMA SplitHead ==
    ASSUME NEW r \in Seq(Files), NEW q \in Seq(Files), q # << >>
    PROVE  Append(r, Head(q)) \o Tail(q) = r \o q
PROOF
  <1>1. Append(r, Head(q)) \in Seq(Files) /\ Tail(q) \in Seq(Files)
    OBVIOUS
  <1>2. Len(Append(r, Head(q)) \o Tail(q)) = Len(r \o q)
    OBVIOUS
  <1>3. ASSUME NEW i \in 1 .. Len(r \o q)
        PROVE  (Append(r, Head(q)) \o Tail(q))[i] = (r \o q)[i]
    <2>1. CASE i <= Len(r)
      BY <2>1
    <2>2. CASE i = Len(r) + 1
      BY <2>2
    <2>3. CASE i > Len(r) + 1
      BY <2>3
    <2> QED BY <2>1, <2>2, <2>3
  <1>4. /\ Append(r, Head(q)) \o Tail(q) \in Seq(Files)
        /\ r \o q \in Seq(Files)
    BY <1>1
  <1> QED BY <1>2, <1>3, <1>4, SeqEqual

\* The file gets its row, and the next one of the list comes.
LEMMA RecordStep ==
    ASSUME IInv, NEW f, At(f), pc = "ended", ~job.stream, pc' = "next",
           UNCHANGED <<job, large, group, meta, call, upload, outcome, local, stage, expired,
                       faults>>,
           results' = Append(results, f),
           \/ queue' = Tail(queue)
           \/ queue' = << >> /\ IsUpload /\ meta[f].status = "ERROR",
           tmpDirs' \subseteq tmpDirs, IsUpload => tmpDirs' = {}
    PROVE  IInv'
PROOF
  <1>1. TypeOK /\ f \in Files /\ f = Head(queue) /\ queue # << >>
    BY AtFile DEF IInv, At
  <1>2. queue \in Seq(Files) /\ results \in Seq(Files) /\ Len(queue) \in Nat /\ Len(queue) > 0
    BY <1>1 DEF TypeOK
  <1>3. f = queue[1] /\ 1 \in DOMAIN queue
    BY <1>1, <1>2
  <1>4. /\ queue' \in Seq(Files) /\ results' \in Seq(Files)
        /\ \A j \in DOMAIN queue' : j + 1 \in DOMAIN queue /\ queue'[j] = queue[j + 1]
        /\ queue' = << >> \/ (Head(queue') = queue'[1] /\ 1 \in DOMAIN queue')
    <2>1. results' \in Seq(Files)
      BY <1>1, <1>2
    <2>2. CASE queue' = << >>
      BY <2>1, <2>2
    <2>3. CASE queue' = Tail(queue)
      <3>1. queue' \in Seq(Files) /\ Len(queue') = Len(queue) - 1
        BY <1>1, <1>2, <2>3
      <3>2. \A j \in 1 .. Len(queue) - 1 : queue'[j] = queue[j + 1]
        BY <1>1, <1>2, <2>3
      <3>3. \A j \in DOMAIN queue' : j + 1 \in DOMAIN queue /\ queue'[j] = queue[j + 1]
        BY <1>2, <3>1, <3>2
      <3>4. queue' # << >> => Head(queue') = queue'[1] /\ 1 \in DOMAIN queue'
        BY <3>1
      <3> QED BY <2>1, <3>1, <3>3, <3>4
    <2> QED BY <2>2, <2>3
  <1>5. \A g : Recorded(g)' <=> Recorded(g) \/ g = f
    <2>1. DOMAIN results' = DOMAIN results \cup {Len(results) + 1}
      BY <1>1, <1>2
    <2>2. /\ \A i \in DOMAIN results : results'[i] = results[i]
          /\ results'[Len(results) + 1] = f
      BY <1>1, <1>2
    <2> QED BY <2>1, <2>2 DEF Recorded
  <1>6. /\ \A i, j \in DOMAIN queue : i # j => queue[i] # queue[j]
        /\ \A j \in DOMAIN queue : ~Recorded(queue[j]) /\ queue[j] \in InList(group)
    BY DEF IInv, Listing, Apart
  <1>7. \A j \in DOMAIN queue' : queue'[j] # f /\ ~Recorded(queue'[j]) /\ ~Recorded(queue[j])'
    <2>1. ASSUME NEW j \in DOMAIN queue'
          PROVE  queue'[j] # f /\ ~Recorded(queue'[j]) /\ ~Recorded(queue[j])'
      <3>1. j + 1 \in DOMAIN queue /\ queue'[j] = queue[j + 1] /\ j + 1 # 1
        BY <1>2, <1>4
      <3>2. queue'[j] # f /\ ~Recorded(queue'[j])
        BY <1>3, <1>6, <3>1
      <3>3. PICK g : g = queue'[j]
        OBVIOUS
      <3>4. ~Recorded(g)'
        BY <1>5, <3>2, <3>3
      <3>5. Recorded(queue[j])' => Recorded(g)'
        BY <3>3 DEF Recorded
      <3> QED BY <3>2, <3>4, <3>5
    <2> QED BY <2>1
  <1>8. /\ job' = job /\ large' = large /\ group' = group /\ meta' = meta /\ stage' = stage
        /\ local' = local /\ call' = call /\ upload' = upload /\ outcome' = outcome
    OBVIOUS
  <1>9. /\ (IsUpload' <=> IsUpload) /\ (IsGCS' <=> IsGCS) /\ (Sealed' <=> Sealed)
        /\ \A g : FileMetas(g)' = FileMetas(g) /\ InList(g)' = InList(g)
    BY <1>8, ListsFixed DEF IsUpload, IsGCS, Sealed
  <1>10. TypeOK'
    BY <1>1, <1>4, <1>8 DEF TypeOK
  <1>11. Ordered'
    <2>1. Failed' \/ results' \o queue' = Expected'
      <3>1. Expected' = Expected
        BY <1>8, <1>9 DEF Expected
      <3>2. /\ \A i \in DOMAIN results : i \in DOMAIN results' /\ results'[i] = results[i]
            /\ Len(results) + 1 \in DOMAIN results' /\ results'[Len(results) + 1] = f
        BY <1>1, <1>2
      <3>3. ASSUME IsUpload, NEW i \in DOMAIN results', meta[results'[i]].status = "ERROR"
            PROVE  Failed'
        BY <1>8, <1>9, <3>3 DEF Failed
      <3>4. CASE IsUpload /\ meta[f].status = "ERROR"
        BY <3>4, <3>2, <3>3
      <3>5. CASE queue' = Tail(queue)
        <4>1. CASE Failed
          <5> PICK i \in DOMAIN results : IsUpload /\ meta[results[i]].status = "ERROR"
            BY <4>1 DEF Failed
          <5> QED BY <3>2, <3>3
        <4>2. CASE ~Failed
          <5>1. results \o queue = Expected
            BY <4>2 DEF IInv, Listing, Ordered
          <5>2. results' \o queue' = results \o queue
            BY <1>1, <1>2, <3>5, SplitHead
          <5> QED BY <3>1, <5>1, <5>2
        <4> QED BY <4>1, <4>2
      <3> QED BY <3>4, <3>5
    <2>2. outcome = "running"
      BY DEF IInv, Listing, Ordered
    <2>3. EveryFileHasItsRow'
      BY <2>2, <1>8 DEF EveryFileHasItsRow
    <2> QED BY <1>8, <2>1, <2>2, <2>3 DEF Ordered
  <1>12. Apart'
    <2>1. \A i, j \in DOMAIN queue' : i # j => queue'[i] # queue'[j]
      BY <1>2, <1>4, <1>6
    <2>2. \A j \in DOMAIN queue' : ~Recorded(queue[j])'
      BY <1>7
    <2>3. \A j \in DOMAIN queue' : queue'[j] \in InList(group)
      BY <1>4, <1>6
    <2>4. group = "small" => \A i \in DOMAIN results' : results'[i] \in InList("small")
      <3>1. group = "small" => \A i \in DOMAIN results : results[i] \in InList("small")
        BY DEF IInv, Listing, Apart
      <3>2. f \in InList(group)
        BY <1>3, <1>6
      <3> QED BY <1>2, <3>1, <3>2
    <2> QED BY <1>8, <1>9, <2>1, <2>2, <2>3, <2>4 DEF Apart
  <1>13. Reported'
    <2>1. RowTrue(f)
      BY <1>1 DEF IInv, Work, Current, FileInv
    <2>2. \A i \in DOMAIN results : RowTrue(results[i])
      BY DEF IInv, Listing, Reported
    <2>3. \A i \in DOMAIN results' : RowTrue(results'[i])
      BY <1>2, <2>1, <2>2
    <2>4. \A i \in DOMAIN results' : RowTrue(results[i])'
      BY <1>8, <2>3 DEF RowTrue
    <2> QED BY <1>8, <2>4 DEF Reported
  <1>14. Untouched'
    <2>1. \A g \in Files : ~Recorded(g)' => ~Recorded(g) /\ ~At(g)
      BY <1>1, <1>5 DEF At
    <2> QED BY <1>8, <2>1 DEF IInv, Listing, Untouched
  <1>15. Urls'
    BY <1>8, <1>9 DEF IInv, Listing, Urls
  <1>16. Places'
    BY <1>8, <1>9 DEF IInv, Work, Places
  <1>17. Session'
    BY <1>8 DEF IInv, Work, Session
  <1>18. Current'
    <2>1. ASSUME NEW g \in Files, At(g)'
          PROVE  FileInv(g)'
      <3>1. g = queue'[1] /\ 1 \in DOMAIN queue'
        BY <1>4, <2>1 DEF At
      <3>2. g # f /\ ~Recorded(g) /\ ~At(g)
        BY <1>1, <1>7, <3>1 DEF At
      <3>3. meta[g].status = "undefined" /\ local[g] = "none"
        BY <2>1, <3>2 DEF IInv, Listing, Untouched
      <3> QED BY <1>8, <1>9, <3>3 DEF FileInv, Open
    <2> QED BY <2>1 DEF Current
  <1>19. Disk'
    BY <1>8, <1>9 DEF IInv, Work, Disk
  <1> QED BY <1>10, <1>11, <1>12, <1>13, <1>14, <1>15, <1>16, <1>17, <1>18, <1>19
         DEF IInv, Listing, Work

LEMMA StepRecordUpload ==
    ASSUME IInv, recordUpload
    PROVE  IInv'
PROOF
  <1>1. /\ pc = "ended" /\ pc' = "next" /\ IsUpload /\ ~job.stream /\ RemoveTmpDir
        /\ UNCHANGED <<job, large, group, meta, call, upload, outcome, local, stage, expired,
                       faults>>
        /\ results' = Append(results, file)
        /\ queue' = IF meta[file].status = "ERROR" THEN << >> ELSE Tail(queue)
    BY DEF recordUpload
  <1>2. queue # << >>
    BY <1>1 DEF IInv, Work, Places
  <1>3. PICK f : f = file
    OBVIOUS
  <1>4. At(f)
    BY <1>2, <1>3, AtFile DEF IInv
  <1>5. tmpDirs' \subseteq tmpDirs /\ (IsUpload => tmpDirs' = {})
    BY <1>1, <1>2, RemoveFacts
  <1> QED BY <1>1, <1>3, <1>4, <1>5, RecordStep

LEMMA StepRecordDownload ==
    ASSUME IInv, recordDownload
    PROVE  IInv'
PROOF
  <1>1. /\ pc = "ended" /\ pc' = "next" /\ ~IsUpload /\ tmpDirs' = tmpDirs
        /\ UNCHANGED <<job, large, group, meta, call, upload, outcome, local, stage, expired,
                       faults>>
        /\ results' = Append(results, file)
        /\ queue' = Tail(queue)
    BY DEF recordDownload
  <1>2. queue # << >> /\ ~job.stream
    BY <1>1, JobFacts DEF IInv, Work, Places
  <1>3. PICK f : f = file
    OBVIOUS
  <1>4. At(f)
    BY <1>2, <1>3, AtFile DEF IInv
  <1> QED BY <1>1, <1>2, <1>3, <1>4, RecordStep

-----------------------------------------------------------------------------
(* The command: its beginning, its two lists and its end *)

\* Only the lists and the place in the program change.
Idle == UNCHANGED <<job, large, call, upload, results, local, stage, expired>>

LEMMA IdleFacts ==
    ASSUME Idle
    PROVE  /\ (IsUpload' <=> IsUpload) /\ (IsGCS' <=> IsGCS) /\ (Sealed' <=> Sealed)
           /\ \A g : /\ FileMetas(g)' = FileMetas(g) /\ InList(g)' = InList(g)
                     /\ Recorded(g)' <=> Recorded(g)
  BY ListsFixed DEF Idle, IsUpload, IsGCS, Sealed, Recorded

\* A list of files that nothing happened to yet begins.
LEMMA ListBegins ==
    ASSUME IInv, Idle, queue = << >>, pc \in {"execute", "next"}, pc' = "next",
           UNCHANGED <<outcome, tmpDirs, faults>>, ~job.stream,
           meta' \in [Files -> FileMeta],
           \A f \in Files : /\ meta'[f].status = meta[f].status
                            /\ meta'[f].url <=> IsGCS /\ ~job.token
                            /\ Recorded(f) => meta'[f].url = meta[f].url,
           NEW g \in {"small", "large"}, group' = g, queue' = FileMetas(g),
           g = "small" => results = << >>,
           g = "large" => pc = "next" /\ group = "small"
    PROVE  IInv'
PROOF
  <1>1. TypeOK
    BY DEF IInv
  <1>2. /\ job' = job /\ large' = large /\ call' = call /\ upload' = upload
        /\ results' = results /\ local' = local /\ stage' = stage
    BY DEF Idle
  <1>3. /\ (IsUpload' <=> IsUpload) /\ (IsGCS' <=> IsGCS) /\ (Sealed' <=> Sealed)
        /\ \A h : /\ FileMetas(h)' = FileMetas(h) /\ InList(h)' = InList(h)
                  /\ Recorded(h)' <=> Recorded(h)
    BY IdleFacts
  <1>4. /\ queue' \in Seq(Files)
        /\ \A i \in DOMAIN queue' : queue'[i] \in InList(g)
        /\ \A i, j \in DOMAIN queue' : i # j => queue'[i] # queue'[j]
    BY ListFacts
  <1>5. TypeOK'
    BY <1>1, <1>2, <1>4 DEF TypeOK, Idle
  <1>6. results \in Seq(Files) /\ \A i \in DOMAIN results : results[i] \in Files
    BY <1>1 DEF TypeOK
  <1>7. \A f \in Files : Recorded(f) => f \notin InList(g)
    <2>1. \A f \in Files : Recorded(f) => g = "large" /\ f \in InList("small")
      BY DEF IInv, Listing, Apart, Recorded
    <2> QED BY <2>1 DEF InList
  <1>8. Failed' <=> Failed
    BY <1>2, <1>3, <1>6 DEF Failed
  <1>9. outcome = "running"
    BY DEF IInv, Listing, Ordered
  <1>10. Ordered'
    <2>1. Failed' \/ results' \o queue' = Expected'
      <3>1. CASE g = "small"
        <4>1. results \o FileMetas("small") = FileMetas("small")
          BY <3>1, ListFacts
        <4> QED BY <1>2, <1>3, <3>1, <4>1 DEF Expected
      <3>2. CASE g = "large"
        <4>1. pc = "next"
          BY <3>2
        <4>2. Failed \/ results \o << >> = FileMetas("small")
          BY <3>2, <4>1 DEF IInv, Listing, Ordered, Expected
        <4>3. Failed \/ results = FileMetas("small")
          BY <1>6, <4>2
        <4> QED BY <1>2, <1>3, <1>8, <3>2, <4>3 DEF Expected
      <3> QED BY <3>1, <3>2
    <2>2. EveryFileHasItsRow'
      BY <1>9 DEF EveryFileHasItsRow
    <2> QED BY <1>2, <1>9, <2>1, <2>2 DEF Ordered
  <1>11. Apart'
    <2>1. \A j \in DOMAIN queue' : ~Recorded(queue[j])'
      <3>1. ASSUME NEW j \in DOMAIN queue'
            PROVE  ~Recorded(queue[j])'
        <4>1. PICK h : h = queue'[j]
          OBVIOUS
        <4>2. h \in Files /\ h \in InList(g)
          BY <1>4, <4>1 DEF InList
        <4>3. ~Recorded(h)'
          BY <1>3, <1>7, <4>2
        <4> QED BY <4>1, <4>3 DEF Recorded
      <3> QED BY <3>1
    <2>2. g = "small" => \A i \in DOMAIN results : results[i] \in InList("small")
      BY DEF IInv, Listing, Apart
    <2> QED BY <1>2, <1>3, <1>4, <2>1, <2>2 DEF Apart
  <1>12. Reported'
    <2>1. ASSUME NEW i \in DOMAIN results
          PROVE  RowTrue(results[i])'
      <3>1. PICK f \in Files : f = results[i]
        BY <1>6, <2>1
      <3>2. RowTrue(f) /\ Recorded(f)
        BY <3>1 DEF IInv, Listing, Reported, Recorded
      <3>3. RowTrue(f)'
        BY <1>2, <3>2 DEF RowTrue
      <3> QED BY <1>2, <3>1, <3>3 DEF RowTrue
    <2> QED BY <1>2, <2>1 DEF Reported
  <1>13. Untouched'
    <2>1. \A f \in Files : ~At(f)
      BY DEF At
    <2> QED BY <1>2, <1>3, <2>1 DEF IInv, Listing, Untouched
  <1>14. Urls'
    BY <1>2, <1>3 DEF Urls
  <1>15. Places'
    BY <1>2, <1>3 DEF IInv, Work, Places
  <1>16. Session'
    BY <1>2 DEF IInv, Work, Session
  <1>17. Current'
    <2>1. ASSUME NEW f \in Files, At(f)'
          PROVE  FileInv(f)'
      <3>1. f \in InList(g)
        BY <1>4, <2>1 DEF At
      <3>2. ~Recorded(f) /\ ~At(f)
        BY <1>7, <3>1 DEF At
      <3>3. meta[f].status = "undefined" /\ local[f] = "none"
        BY <2>1, <3>2 DEF IInv, Listing, Untouched
      <3> QED BY <1>2, <1>3, <3>3 DEF FileInv, Open
    <2> QED BY <2>1 DEF Current
  <1>18. Disk'
    <2>1. IsUpload => tmpDirs = {}
      BY DEF IInv, Work, Disk
    <2> QED BY <1>2, <1>3, <2>1 DEF IInv, Work, Disk
  <1> QED BY <1>5, <1>10, <1>11, <1>12, <1>13, <1>14, <1>15, <1>16, <1>17, <1>18
         DEF IInv, Listing, Work

LEMMA StepExecute ==
    ASSUME IInv, execute
    PROVE  IInv'
PROOF
  <1>1. /\ pc = "execute" /\ ~job.stream /\ meta' = MetasWithUrl /\ pc' = "next"
        /\ queue' = FileMetas("small") /\ group' = group /\ Idle
        /\ UNCHANGED <<outcome, tmpDirs, faults>>
    BY DEF execute, Idle
  <1>2. queue = << >> /\ results = << >> /\ group = "small"
    BY <1>1 DEF IInv, Listing, Ordered
  <1>3. /\ meta' \in [Files -> FileMeta]
        /\ \A f \in Files : /\ meta'[f].status = meta[f].status
                            /\ meta'[f].url <=> IsGCS /\ ~job.token
    BY <1>1, MetasFacts
  <1>4. \A f \in Files : ~Recorded(f)
    BY <1>2 DEF Recorded
  <1> QED BY <1>1, <1>2, <1>3, <1>4, ListBegins

LEMMA StepNextList ==
    ASSUME IInv, nextList
    PROVE  IInv'
PROOF
  <1>1. /\ pc = "next" /\ queue = << >> /\ Idle /\ meta' = meta
        /\ UNCHANGED <<outcome, tmpDirs, faults>>
    BY DEF nextList, Idle
  <1>2. ~job.stream
    BY <1>1 DEF IInv, Work, Places
  <1>3. TypeOK /\ group \in {"small", "large"}
    BY DEF IInv, TypeOK
  <1>4. CASE group = "small"
    <2>1. group' = "large" /\ queue' = FileMetas("large") /\ pc' = "next"
      BY <1>1, <1>4 DEF nextList
    <2>2. /\ meta' \in [Files -> FileMeta]
          /\ \A f \in Files : /\ meta'[f].status = meta[f].status
                              /\ meta'[f].url <=> IsGCS /\ ~job.token
                              /\ meta'[f].url = meta[f].url
      BY <1>1, <1>3 DEF TypeOK, IInv, Listing, Urls
    <2> QED BY <1>1, <1>2, <1>4, <2>1, <2>2, ListBegins
  <1>5. CASE group = "large"
    <2>1. pc' = "result" /\ group' = group /\ queue' = queue
      BY <1>5 DEF nextList
    <2>2. /\ job' = job /\ large' = large /\ call' = call /\ upload' = upload
          /\ results' = results /\ local' = local /\ stage' = stage /\ expired' = expired
      BY <1>1 DEF Idle
    <2>3. /\ (IsUpload' <=> IsUpload) /\ (IsGCS' <=> IsGCS) /\ (Sealed' <=> Sealed)
          /\ \A g : /\ FileMetas(g)' = FileMetas(g) /\ InList(g)' = InList(g)
                    /\ Recorded(g)' <=> Recorded(g)
                    /\ At(g)' <=> At(g)
      BY <1>1, <2>1, IdleFacts DEF At
    <2>4. TypeOK'
      BY <1>1, <1>3, <2>1, <2>2 DEF TypeOK
    <2>5. (Failed' <=> Failed) /\ Expected' = Expected
      BY <1>1, <2>1, <2>2, <2>3 DEF Failed, Expected
    <2>6. Ordered'
      BY <1>1, <1>2, <1>5, <2>1, <2>2, <2>3, <2>5
         DEF IInv, Listing, Ordered, EveryFileHasItsRow
    <2>7. Apart' /\ Untouched' /\ Urls'
      BY <1>1, <2>1, <2>2, <2>3 DEF IInv, Listing, Apart, Untouched, Urls
    <2>8. Reported'
      BY <1>1, <1>2, <2>2 DEF IInv, Listing, Reported, RowTrue
    <2>9. Places' /\ Session' /\ Disk'
      BY <1>1, <1>2, <2>1, <2>2, <2>3 DEF IInv, Work, Places, Session, Disk
    <2>10. Current'
      BY <1>1, <2>1 DEF Current, At
    <2> QED BY <2>4, <2>6, <2>7, <2>8, <2>9, <2>10 DEF IInv, Listing, Work
  <1> QED BY <1>3, <1>4, <1>5

\* The command is over: nothing is left to say but of its rows and directories.
LEMMA EndStep ==
    ASSUME IInv, Idle, UNCHANGED <<queue, group, meta, tmpDirs>>, faults' \in 0 .. MaxFaults,
           pc \in {"execute", "renewUrls", "result"}, pc' = "done",
           \/ outcome' = "thrown"
           \/ (outcome' = "returned" /\ pc = "result" /\ ~Failed)
    PROVE  IInv'
PROOF
  <1>1. TypeOK
    BY DEF IInv
  <1>2. /\ job' = job /\ large' = large /\ call' = call /\ upload' = upload
        /\ results' = results /\ local' = local /\ stage' = stage /\ expired' = expired
    BY DEF Idle
  <1>3. /\ (IsUpload' <=> IsUpload) /\ (IsGCS' <=> IsGCS) /\ (Sealed' <=> Sealed)
        /\ \A g : /\ FileMetas(g)' = FileMetas(g) /\ InList(g)' = InList(g)
                  /\ Recorded(g)' <=> Recorded(g)
                  /\ At(g)' <=> At(g)
    BY IdleFacts DEF At
  <1>4. TypeOK'
    BY <1>1, <1>2 DEF TypeOK
  <1>5. Ordered'
    <2>1. EveryFileHasItsRow'
      <3>1. CASE outcome' = "thrown"
        BY <3>1 DEF EveryFileHasItsRow
      <3>2. CASE outcome' = "returned" /\ pc = "result" /\ ~Failed
        <4>1. ~job.stream => results \o << >> = FileMetas("small") \o FileMetas("large")
          BY <3>2 DEF IInv, Listing, Ordered, Expected
        <4>2. results \o << >> = results
          BY <1>1 DEF TypeOK
        <4> QED BY <1>2, <1>3, <4>1, <4>2 DEF EveryFileHasItsRow
      <3> QED BY <3>1, <3>2
    <2> QED BY <1>2, <2>1 DEF IInv, Listing, Ordered
  <1>6. Apart' /\ Untouched' /\ Urls'
    BY <1>2, <1>3 DEF IInv, Listing, Apart, Untouched, Urls
  <1>7. Reported'
    BY <1>2 DEF IInv, Listing, Reported, RowTrue
  <1>8. Places' /\ Session' /\ Disk'
    BY <1>2, <1>3 DEF IInv, Work, Places, Session, Disk
  <1>9. Current'
    BY DEF Current, FileInv
  <1> QED BY <1>4, <1>5, <1>6, <1>7, <1>8, <1>9 DEF IInv, Listing, Work

LEMMA StepEnd ==
    ASSUME IInv, result \/ urlsFail \/ parseCommandFails
    PROVE  IInv'
PROOF
  <1>1. faults \in 0 .. MaxFaults /\ MaxFaults \in Nat
    BY FileTransferAssumption DEF IInv, TypeOK
  <1>2. CASE result
    <2>1. /\ Idle /\ UNCHANGED <<queue, group, meta, tmpDirs>> /\ faults' = faults
          /\ pc = "result" /\ pc' = "done"
      BY <1>2 DEF result, Idle
    <2>2. outcome' = "thrown" \/ (outcome' = "returned" /\ ~Failed)
      <3>1. outcome' = IF Failed THEN "thrown" ELSE "returned"
        BY <1>2 DEF result, Failed
      <3> QED BY <3>1
    <2> QED BY <1>1, <2>1, <2>2, EndStep
  <1>3. CASE urlsFail \/ parseCommandFails
    <2>1. /\ Idle /\ UNCHANGED <<queue, group, meta, tmpDirs>>
          /\ pc \in {"execute", "renewUrls"} /\ pc' = "done" /\ outcome' = "thrown"
          /\ LocalFault
      BY <1>3 DEF urlsFail, parseCommandFails, Idle, Reject
    <2>2. faults' \in 0 .. MaxFaults
      BY <1>1, <2>1 DEF LocalFault
    <2> QED BY <2>1, <2>2, EndStep
  <1> QED BY <1>2, <1>3

LEMMA StepExecuteFileStream ==
    ASSUME IInv, executeFileStream
    PROVE  IInv'
PROOF
  <1>1. /\ pc = "execute" /\ job.stream /\ meta' = MetasWithUrl /\ queue' = <<1>>
        /\ call' = NewCall /\ group' = group
        /\ UNCHANGED <<job, large, upload, results, tmpDirs, local, stage, expired, faults>>
    BY DEF executeFileStream
  <1>2. \/ (job.store = "LOCAL_FS" /\ pc' = "done" /\ outcome' = "thrown")
        \/ (job.store # "LOCAL_FS" /\ pc' = "attempt" /\ outcome' = outcome)
    BY DEF executeFileStream, Reject
  <1>3. TypeOK /\ IsUpload
    BY <1>1, JobFacts DEF IInv
  <1>4. queue = << >> /\ results = << >> /\ outcome = "running"
    BY <1>1 DEF IInv, Listing, Ordered
  <1>5. /\ meta' \in [Files -> FileMeta]
        /\ \A f \in Files : /\ meta'[f].status = meta[f].status
                            /\ meta'[f].url <=> IsGCS /\ ~job.token
    BY <1>1, MetasFacts
  <1>6. 1 \in Files /\ <<1>> \in Seq(Files) /\ Head(<<1>>) = 1 /\ <<1>> # << >>
        /\ DOMAIN <<1>> = {1}
    BY FileTransferAssumption DEF Files
  <1>7. NewCall \in RetryLoop /\ ~NewCall.big
    BY FileTransferAssumption DEF NewCall, RetryLoop, NullHeader
  <1>8. TypeOK'
    BY <1>1, <1>2, <1>3, <1>5, <1>6, <1>7 DEF TypeOK
  <1>9. /\ (IsUpload' <=> IsUpload) /\ (IsGCS' <=> IsGCS) /\ (Sealed' <=> Sealed)
        /\ \A g : ~Recorded(g) /\ ~Recorded(g)' /\ ~At(g)
    BY <1>1, <1>4 DEF IsUpload, IsGCS, Sealed, Recorded, At
  <1>10. \A f \in Files : meta[f].status = "undefined" /\ local[f] = "none"
    BY <1>9 DEF IInv, Listing, Untouched
  <1>11. Ordered'
    BY <1>1, <1>2, <1>4 DEF Ordered, EveryFileHasItsRow
  <1>12. Apart'
    <2>1. \A i, j \in DOMAIN queue' : i = j
      BY <1>1, <1>6
    <2>2. \A j \in DOMAIN queue' : ~Recorded(queue[j])'
      BY <1>1, <1>4 DEF Recorded
    <2>3. DOMAIN results' = {}
      BY <1>1, <1>4
    <2> QED BY <1>1, <2>1, <2>2, <2>3 DEF Apart
  <1>13. Reported'
    <2>1. DOMAIN results' = {}
      BY <1>1, <1>4
    <2> QED BY <1>2, <1>4, <2>1 DEF Reported
  <1>14. Untouched'
    BY <1>1, <1>5, <1>10 DEF Untouched
  <1>15. Urls'
    BY <1>1, <1>2, <1>5, <1>9 DEF Urls
  <1>16. Places'
    <2>1. \A f \in Files : meta'[f].status # "DOWNLOADED" /\ local'[f] = "none"
      BY <1>1, <1>5, <1>10
    <2> QED BY <1>1, <1>2, <1>3, <1>6, <1>7, <1>9, <2>1 DEF Places
  <1>17. Session'
    BY <1>1, <1>2 DEF IInv, Work, Session
  <1>18. Current'
    <2>1. ASSUME NEW f \in Files
          PROVE  FileInv(f)'
      <3>1. meta'[f].status = "undefined" /\ local'[f] = "none"
        BY <1>1, <1>5, <1>10
      <3> QED BY <1>2, <1>3, <1>9, <3>1 DEF FileInv, Open
    <2> QED BY <2>1 DEF Current
  <1>19. Disk'
    <2>1. tmpDirs' = {}
      BY <1>1 DEF IInv, Work, Disk
    <2> QED BY <2>1 DEF Disk
  <1> QED BY <1>8, <1>11, <1>12, <1>13, <1>14, <1>15, <1>16, <1>17, <1>18, <1>19
         DEF IInv, Listing, Work

LEMMA StepStreamEnds ==
    ASSUME IInv, streamEnds
    PROVE  IInv'
PROOF
  <1>1. /\ pc = "ended" /\ job.stream /\ pc' = "result"
        /\ UNCHANGED <<job, large, queue, group, meta, call, upload, results, outcome, tmpDirs,
                       local, stage, expired, faults>>
    BY DEF streamEnds
  <1>2. TypeOK /\ Idle
    BY <1>1 DEF IInv, Idle
  <1>3. /\ (IsUpload' <=> IsUpload) /\ (IsGCS' <=> IsGCS) /\ (Sealed' <=> Sealed)
        /\ \A g : /\ FileMetas(g)' = FileMetas(g) /\ InList(g)' = InList(g)
                  /\ Recorded(g)' <=> Recorded(g)
                  /\ At(g)' <=> At(g)
    BY <1>1, <1>2, IdleFacts DEF At
  <1>4. TypeOK'
    BY <1>1, <1>2 DEF TypeOK
  <1>5. queue = <<1>> /\ 1 \in Files /\ At(1)
    <2>1. queue # << >> /\ queue \in {<< >>, <<1>>}
      BY <1>1 DEF IInv, Listing, Ordered, Work, Places
    <2> QED BY <2>1, FileTransferAssumption DEF Files, At
  <1>6. stage[1].parts = AllParts \/ meta[1].status \in Renewals
    <2>1. RowTrue(1) /\ meta[1].status \in {"UPLOADED", "SKIPPED"} \cup Renewals
      BY <1>1, <1>5 DEF IInv, Work, Current, FileInv
    <2> QED BY <2>1 DEF RowTrue, Whole
  <1>7. Ordered'
    BY <1>1 DEF IInv, Listing, Ordered, EveryFileHasItsRow
  <1>8. Apart' /\ Untouched' /\ Urls'
    BY <1>1, <1>3 DEF IInv, Listing, Apart, Untouched, Urls
  <1>9. Reported'
    BY <1>1, <1>6 DEF IInv, Listing, Reported, RowTrue
  <1>10. Places' /\ Session' /\ Disk'
    BY <1>1, <1>3 DEF IInv, Work, Places, Session, Disk
  <1>11. Current'
    BY <1>1 DEF Current, FileInv
  <1> QED BY <1>4, <1>7, <1>8, <1>9, <1>10, <1>11 DEF IInv, Listing, Work

-----------------------------------------------------------------------------
(* What others do *)

LEMMA StepTokenExpires ==
    ASSUME IInv, tokenExpires \/ UNCHANGED vars
    PROVE  IInv'
PROOF
  <1>1. /\ UNCHANGED <<job, large, pc, queue, group, meta, call, upload, results, outcome,
                       tmpDirs, local, stage, faults>>
        /\ expired' \in {TRUE, expired}
    BY DEF tokenExpires, vars, agentVars
  <1>3. /\ (IsUpload' <=> IsUpload) /\ (IsGCS' <=> IsGCS) /\ (Sealed' <=> Sealed)
        /\ \A g : /\ FileMetas(g)' = FileMetas(g) /\ InList(g)' = InList(g)
                  /\ Recorded(g)' <=> Recorded(g)
                  /\ At(g)' <=> At(g)
    BY <1>1, ListsFixed DEF IsUpload, IsGCS, Sealed, Recorded, At
  <1>4. TypeOK'
    BY <1>1 DEF IInv, TypeOK
  <1>5. (Failed' <=> Failed) /\ Expected' = Expected
    BY <1>1, <1>3 DEF Failed, Expected
  <1>6. Ordered'
    BY <1>1, <1>3, <1>5 DEF IInv, Listing, Ordered, EveryFileHasItsRow
  <1>7. Apart' /\ Untouched' /\ Urls'
    BY <1>1, <1>3 DEF IInv, Listing, Apart, Untouched, Urls
  <1>8. Reported'
    BY <1>1 DEF IInv, Listing, Reported, RowTrue
  <1>9. Places' /\ Session' /\ Disk'
    BY <1>1, <1>3 DEF IInv, Work, Places, Session, Disk
  <1>10. Current'
    BY <1>1, <1>3 DEF IInv, Work, Current, FileInv, RowTrue
  <1> QED BY <1>4, <1>6, <1>7, <1>8, <1>9, <1>10 DEF IInv, Listing, Work

LEMMA StepObjectReplaced ==
    ASSUME IInv, objectReplaced
    PROVE  IInv'
PROOF
  <1>1. /\ UNCHANGED <<job, large, pc, queue, group, meta, call, upload, results, outcome,
                       tmpDirs, local, expired, faults>>
        /\ ~IsUpload
    BY DEF objectReplaced, agentVars
  <1>2. PICK x \in Files : stage[x].version = 0 /\ stage' = [stage EXCEPT ![x] = Whole(1)]
    BY DEF objectReplaced
  <1>3. TypeOK /\ stage \in [Files -> {NoObject, Whole(0), Whole(1)}] /\ ~job.stream
    BY <1>1, JobFacts DEF IInv, TypeOK
  <1>4. /\ (IsUpload' <=> IsUpload) /\ (IsGCS' <=> IsGCS) /\ (Sealed' <=> Sealed)
        /\ \A g : /\ FileMetas(g)' = FileMetas(g) /\ InList(g)' = InList(g)
                  /\ Recorded(g)' <=> Recorded(g)
                  /\ At(g)' <=> At(g)
    BY <1>1, ListsFixed DEF IsUpload, IsGCS, Sealed, Recorded, At
  <1>5. TypeOK'
    BY <1>1, <1>2, <1>3 DEF TypeOK
  <1>6. \A f \in Files : /\ stage'[f] = stage[f] \/ stage'[f] = Whole(1)
                         /\ stage[f].version \in Int
                         /\ stage[f].version <= stage'[f].version
                         /\ stage[f].version = 1 => stage'[f].version = 1
    <2>1. \A f \in Files : stage'[f] = stage[f] \/ stage'[f] = Whole(1)
      BY <1>2, <1>3
    <2>2. \A f \in Files : stage[f] \in {NoObject, Whole(0), Whole(1)}
      BY <1>3
    <2>3. /\ \A o \in {NoObject, Whole(0), Whole(1)} : o.version \in Int /\ o.version <= 1
          /\ Whole(1).version = 1
      BY DEF NoObject, Whole
    <2> QED BY <2>1, <2>2, <2>3
  <1>7. \A f \in Files : RowTrue(f) => RowTrue(f)'
    BY <1>1, <1>6 DEF RowTrue
  <1>8. (Failed' <=> Failed) /\ Expected' = Expected
    BY <1>1, <1>4 DEF Failed, Expected
  <1>9. Ordered'
    BY <1>1, <1>4, <1>8 DEF IInv, Listing, Ordered, EveryFileHasItsRow
  <1>10. Apart' /\ Untouched' /\ Urls'
    BY <1>1, <1>4 DEF IInv, Listing, Apart, Untouched, Urls
  <1>11. Reported'
    <2>1. \A i \in DOMAIN results : results[i] \in Files /\ RowTrue(results[i])
      BY <1>3 DEF TypeOK, IInv, Listing, Reported
    <2>2. ASSUME NEW i \in DOMAIN results'
          PROVE  RowTrue(results[i])'
      <3>1. PICK f \in Files : f = results[i] /\ RowTrue(f)
        BY <1>1, <2>1, <2>2
      <3> QED BY <1>1, <1>7, <3>1 DEF RowTrue
    <2> QED BY <1>1, <1>3, <2>2 DEF Reported
  <1>12. Places'
    <2>1. \A f \in Files : stage'[f] # NoObject
      <3>1. Whole(1) # NoObject
        BY DEF Whole, NoObject
      <3> QED BY <1>1, <1>6, <3>1 DEF IInv, Work, Places
    <2> QED BY <1>1, <1>4, <2>1 DEF IInv, Work, Places
  <1>13. Session' /\ Disk'
    BY <1>1, <1>4 DEF IInv, Work, Session, Disk
  <1>14. Current'
    <2>1. ASSUME NEW f \in Files, At(f)
          PROVE  FileInv(f)'
      <3>1. FileInv(f)
        BY <2>1 DEF IInv, Work, Current
      <3>2. call.header \in Int /\ call.body \in Int
        BY <1>3 DEF TypeOK, RetryLoop, NullHeader
      <3>3. stage[f].version \in Int /\ stage'[f].version \in Int
        BY <1>6 DEF Whole
      <3>4. /\ call.header <= stage[f].version => call.header <= stage'[f].version
            /\ call.body <= stage[f].version => call.body <= stage'[f].version
        BY <1>6, <3>2, <3>3
      <3>5. stage[f] = Whole(1) => stage'[f] = Whole(1)
        BY <1>6
      <3>6. RowTrue(f) => RowTrue(f)'
        BY <1>7
      <3> QED BY <1>1, <1>4, <3>1, <3>4, <3>5, <3>6 DEF FileInv
    <2> QED BY <1>4, <2>1 DEF Current
  <1> QED BY <1>5, <1>9, <1>10, <1>11, <1>12, <1>13, <1>14 DEF IInv, Listing, Work

-----------------------------------------------------------------------------
(* The theorems *)

LEMMA Initially ==
    ASSUME Init
    PROVE  IInv
PROOF
  <1> USE DEF Init
  <1>1. NewMeta \in FileMeta /\ NewMeta.status = "undefined" /\ ~NewMeta.url
    BY DEF NewMeta, FileMeta, resultStatus, ErrorCodes
  <1>2. NewCall \in RetryLoop /\ ~NewCall.big
    BY FileTransferAssumption DEF NewCall, RetryLoop, NullHeader
  <1>3. NoUpload \in Multipart /\ NoUpload.held = 1 .. NoUpload.pos
    BY FileTransferAssumption DEF NoUpload, Multipart, ErrorCodes
  <1>4. /\ stage \in [Files -> {NoObject, Whole(0), Whole(1)}]
        /\ ~IsUpload => \A f \in Files : stage[f] # NoObject
    <2>1. Whole(0) # NoObject
      BY DEF Whole, NoObject
    <2> QED BY <2>1
  <1>5. TypeOK
    <2>1. /\ job \in Jobs /\ large \subseteq Files /\ pc = "execute" /\ group = "small"
          /\ outcome = "running" /\ tmpDirs = {} /\ expired \in BOOLEAN
      OBVIOUS
    <2>2. queue \in Seq(Files) /\ results \in Seq(Files)
      OBVIOUS
    <2>3. meta \in [Files -> FileMeta] /\ call \in RetryLoop /\ upload \in Multipart
      BY <1>1, <1>2, <1>3
    <2>4. local \in [Files -> {"none", "partial", "cipher", "clear", "garbled"}]
      OBVIOUS
    <2>5. faults \in 0 .. MaxFaults
      BY FileTransferAssumption
    <2> HIDE DEF Init
    <2> QED BY <1>4, <2>1, <2>2, <2>3, <2>4, <2>5 DEF TypeOK
  <1>6. \A f \in Files : meta[f].status = "undefined" /\ ~meta[f].url /\ local[f] = "none"
    BY <1>1
  <1>7. Ordered /\ Apart /\ Reported /\ Untouched /\ Urls
    BY <1>6 DEF Ordered, EveryFileHasItsRow, Apart, Reported, Untouched, Urls
  <1>8. Places /\ Session /\ Current /\ Disk
    BY <1>2, <1>3, <1>4, <1>6 DEF Places, Session, Current, At, Disk
  <1> QED BY <1>5, <1>7, <1>8 DEF IInv, Listing, Work

LEMMA Inductive ==
    ASSUME IInv, [Next]_vars
    PROVE  IInv'
PROOF
  <1>1. CASE result \/ urlsFail \/ parseCommandFails
    BY <1>1, StepEnd
  <1>2. CASE execute \/ executeFileStream \/ nextList \/ streamEnds
    BY <1>2, StepExecute, StepExecuteFileStream, StepNextList, StepStreamEnds
  <1>3. CASE uploadOneFile \/ copyToLocalStage \/ checkExisting \/ uploadFileStream
    BY <1>3, StepUploadOneFile, StepCopyToLocalStage, StepCheckExisting, StepUploadFileStream
  <1>4. CASE createMultipartUpload \/ startResumable \/ startResumableFails \/ startBlocks
    BY <1>4, StepOpenSession, StepStartResumableFails, StepStartBlocks
       DEF createMultipartUpload, startResumable
  <1>5. CASE uploadPart \/ stageBlock \/ completeMultipartUpload \/ commitBlockList
    <2>1. ~IsGCS /\ (SendPart \/ Complete)
      BY <1>5 DEF uploadPart, stageBlock, completeMultipartUpload, commitBlockList, IsGCS
    <2> QED BY <2>1, StepSendPart, StepComplete
  <1>6. CASE sendChunk
    BY <1>6, StepSendChunk
  <1>7. CASE abortMultipartUpload \/ deleteSession \/ deleteIfExists
    BY <1>7, StepAbort DEF abortMultipartUpload, deleteSession, deleteIfExists
  <1>8. CASE pollHeader
    BY <1>8, StepPollHeader
  <1>9. CASE downloadOneFile \/ nativeDownloadFile \/ copyFromLocalStage
    BY <1>9, StepDownloadOneFile, StepNativeDownloadFile, StepCopyFromLocalStage
  <1>10. CASE decryptFile \/ decryptFails \/ decryptGarbles
    BY <1>10, StepDecryptFile, StepDecryptFails, StepDecryptGarbles
  <1>11. CASE renewClient \/ renewUrl \/ urlsRenewed
    BY <1>11, StepRenewClient, StepRenewUrl, StepUrlsRenewed
  <1>12. CASE recordUpload \/ recordDownload
    BY <1>12, StepRecordUpload, StepRecordDownload
  <1>13. CASE tokenExpires \/ UNCHANGED vars
    BY <1>13, StepTokenExpires
  <1>14. CASE objectReplaced
    BY <1>14, StepObjectReplaced
  <1> QED BY <1>1, <1>2, <1>3, <1>4, <1>5, <1>6, <1>7, <1>8, <1>9, <1>10, <1>11, <1>12, <1>13,
             <1>14 DEF Next, Agent

LEMMA Invariant == Spec => []IInv
PROOF
  <1>1. Init => IInv
    BY Initially
  <1>2. IInv /\ [Next]_vars => IInv'
    BY Inductive
  <1> QED BY <1>1, <1>2, PTL DEF Spec

\* The state of the agent has its type; above all, the stage holds only whole objects,
\* whatever parts, chunks and offsets a multipart or resumable upload went through.
THEOREM TransferTypes == Spec => []TypeOK
PROOF
  <1>1. IInv => TypeOK
    BY DEF IInv
  <1> QED BY <1>1, Invariant, PTL

\* A row (and the success of a stream) tells the truth about the stage or the disk.
THEOREM RowsTellTheTruth == Spec => []ReportedIsThere
PROOF
  <1>1. IInv => ReportedIsThere
    <2>1. SUFFICES ASSUME IInv PROVE ReportedIsThere
      OBVIOUS
    <2>2. Reported
      BY <2>1 DEF IInv, Listing
    <2> QED BY <2>2 DEF Reported, RowTrue, ReportedIsThere
  <1> QED BY <1>1, Invariant, PTL

\* Every file has exactly one row.
OneRowEach ==
    ~job.stream /\ outcome = "returned" =>
        \A f \in Files : \E i \in DOMAIN results :
            results[i] = f /\ \A j \in DOMAIN results : results[j] = f => j = i

\* The lists of small and of large files hold every file, each in one place.
LEMMA ListsApart ==
    ASSUME NEW f \in Files, NEW r, r = FileMetas("small") \o FileMetas("large")
    PROVE  \E i \in DOMAIN r : r[i] = f /\ \A j \in DOMAIN r : r[j] = f => j = i
PROOF
  <1> PICK s \in Seq(Files) :
        /\ s = FileMetas("small")
        /\ \A i \in DOMAIN s : s[i] \in InList("small")
        /\ \A i, j \in DOMAIN s : i # j => s[i] # s[j]
        /\ \A h \in InList("small") : \E i \in DOMAIN s : s[i] = h
    BY ListFacts
  <1> PICK t \in Seq(Files) :
        /\ t = FileMetas("large")
        /\ \A i \in DOMAIN t : t[i] \in InList("large")
        /\ \A i, j \in DOMAIN t : i # j => t[i] # t[j]
        /\ \A h \in InList("large") : \E i \in DOMAIN t : t[i] = h
    BY ListFacts
  <1>1. \A h : ~(h \in InList("small") /\ h \in InList("large"))
    BY DEF InList
  <1>2. f \in InList("small") \/ f \in InList("large")
    BY DEF InList
  <1>3. /\ r = s \o t /\ Len(s) \in Nat /\ Len(t) \in Nat
        /\ DOMAIN s = 1 .. Len(s) /\ DOMAIN t = 1 .. Len(t)
        /\ DOMAIN r = 1 .. Len(s) + Len(t)
        /\ \A i \in 1 .. Len(s) : r[i] = s[i]
        /\ \A i \in Len(s) + 1 .. Len(s) + Len(t) : r[i] = t[i - Len(s)]
    OBVIOUS
  <1>4. \A j \in DOMAIN r :
            (j \in DOMAIN s /\ r[j] = s[j]) \/ (j - Len(s) \in DOMAIN t /\ r[j] = t[j - Len(s)])
    <2> PICK m \in Nat, n \in Nat : m = Len(s) /\ n = Len(t)
      BY <1>3
    <2>1. \A j \in 1 .. m + n :
              j \in 1 .. m \/ (j \in m + 1 .. m + n /\ j - m \in 1 .. n)
      OBVIOUS
    <2> QED BY <1>3, <2>1
  <1>5. CASE f \in InList("small")
    <2> PICK i \in DOMAIN s : s[i] = f
      BY <1>5
    <2>1. i \in DOMAIN r /\ r[i] = f
      BY <1>3
    <2>2. \A j \in DOMAIN r : r[j] = f => j = i
      BY <1>1, <1>4, <1>5
    <2> QED BY <2>1, <2>2
  <1>6. CASE f \in InList("large")
    <2> PICK k \in DOMAIN t : t[k] = f
      BY <1>6
    <2>1. Len(s) + k \in DOMAIN r /\ r[Len(s) + k] = f
      BY <1>3
    <2>2. ASSUME NEW j \in DOMAIN r, r[j] = f
          PROVE  j = Len(s) + k
      <3>1. j - Len(s) \in DOMAIN t /\ t[j - Len(s)] = f
        BY <1>1, <1>4, <1>6, <2>2
      <3>2. j - Len(s) = k
        BY <3>1
      <3> QED BY <1>3, <3>2
    <2> QED BY <2>1, <2>2
  <1> QED BY <1>2, <1>5, <1>6

\* A command that returns has its rows in the order of the lists, one for every file.
THEOREM RowsComplete == Spec => [](EveryFileHasItsRow /\ OneRowEach)
PROOF
  <1>1. IInv => EveryFileHasItsRow
    BY DEF IInv, Listing, Ordered
  <1>2. EveryFileHasItsRow => OneRowEach
    BY ListsApart DEF EveryFileHasItsRow, OneRowEach
  <1> QED BY <1>1, <1>2, Invariant, PTL

\* No session outlives its attempt, no temporary directory its upload or decryption.
THEOREM TransferCleansUp == Spec => []NothingLeftBehind
PROOF
  <1>1. IInv => NothingLeftBehind
    <2>1. SUFFICES ASSUME IInv PROVE NothingLeftBehind
      OBVIOUS
    <2>2. upload.open => pc \in {"part", "abort"}
      BY <2>1 DEF IInv, Work, Session, NoUpload
    <2>3. IsUpload /\ pc \in {"next", "renewUrls", "result", "done"} => tmpDirs = {}
      BY <2>1 DEF IInv, Work, Disk
    <2>4. \A f \in Files : local[f] \in {"clear", "garbled"} /\ job.encrypted
                               /\ job.store # "LOCAL_FS" => f \notin tmpDirs
      BY <2>1 DEF IInv, Work, Disk, Sealed, Open
    <2> QED BY <2>2, <2>3, <2>4 DEF NothingLeftBehind
  <1> QED BY <1>1, Invariant, PTL

\* The steps that change the stage; only Azure's clean-up deletes.
LEMMA ObjectsStay ==
    ASSUME IInv, [Next]_vars, NEW f \in Files, stage[f] # NoObject, job.store # "AZURE"
    PROVE  stage'[f] # NoObject
PROOF
  <1>1. stage \in [Files -> {NoObject, Whole(0), Whole(1)}]
    BY DEF IInv, TypeOK
  <1>2. ASSUME NEW x, NEW o, o.version = 1, stage' = [stage EXCEPT ![x] = o]
        PROVE  stage'[f] # NoObject
    BY <1>1, <1>2 DEF NoObject
  <1>3. Whole(1).version = 1 /\ \A h : [version |-> 1, parts |-> h].version = 1
    BY DEF Whole
  <1>4. CASE stage' = stage
    BY <1>4
  <1>5. CASE copyToLocalStage
    BY <1>2, <1>3, <1>5 DEF copyToLocalStage
  <1>6. CASE uploadFileStream
    BY <1>2, <1>3, <1>4, <1>6 DEF uploadFileStream
  <1>7. CASE completeMultipartUpload \/ commitBlockList
    BY <1>2, <1>3, <1>4, <1>7 DEF completeMultipartUpload, commitBlockList, Complete
  <1>8. CASE sendChunk
    BY <1>2, <1>3, <1>4, <1>8 DEF sendChunk
  <1>9. CASE abortMultipartUpload \/ deleteSession \/ deleteIfExists
    <2>1. stage' = stage \/ stage' = [stage EXCEPT ![file] = stage[file]]
      BY <1>9 DEF abortMultipartUpload, deleteSession, deleteIfExists, Abort
    <2>2. [stage EXCEPT ![file] = stage[file]] = stage
      BY <1>1
    <2> QED BY <1>4, <2>1, <2>2
  <1>10. CASE objectReplaced
    BY <1>2, <1>3, <1>10 DEF objectReplaced
  <1>11. CASE result \/ urlsFail \/ parseCommandFails \/ execute \/ executeFileStream \/ nextList
              \/ streamEnds \/ uploadOneFile \/ checkExisting
    BY <1>4, <1>11 DEF result, urlsFail, parseCommandFails, execute, executeFileStream, nextList,
       streamEnds, uploadOneFile, checkExisting
  <1>12. CASE createMultipartUpload \/ startResumable \/ startResumableFails \/ startBlocks
              \/ uploadPart \/ stageBlock \/ pollHeader
    BY <1>4, <1>12 DEF createMultipartUpload, startResumable, OpenSession, startResumableFails,
       startBlocks, uploadPart, stageBlock, SendPart, pollHeader
  <1>13. CASE downloadOneFile \/ nativeDownloadFile \/ copyFromLocalStage \/ decryptFile
              \/ decryptFails \/ decryptGarbles
    BY <1>4, <1>13 DEF downloadOneFile, nativeDownloadFile, copyFromLocalStage, decryptFile,
       decryptFails, decryptGarbles
  <1>14. CASE renewClient \/ renewUrl \/ urlsRenewed \/ recordUpload \/ recordDownload
              \/ tokenExpires \/ UNCHANGED vars
    BY <1>4, <1>14 DEF renewClient, renewUrl, urlsRenewed, recordUpload, recordDownload,
       tokenExpires, vars
  <1> QED BY <1>5, <1>6, <1>7, <1>8, <1>9, <1>10, <1>11, <1>12, <1>13, <1>14 DEF Next, Agent

\* An upload that fails leaves the object that was there, on every store but Azure.
THEOREM ObjectsAreKept == Spec => FormerObjectKept
PROOF
  <1>1. IInv /\ [Next]_vars =>
            [\A f \in Files : stage[f] # NoObject /\ job.store # "AZURE" =>
                stage'[f] # NoObject]_vars
    BY ObjectsStay
  <1> QED BY <1>1, Invariant, PTL DEF Spec, FormerObjectKept
=============================================================================
