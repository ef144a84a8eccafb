----------------------------- MODULE CrlValidator -----------------------------
(***************************************************************************)
(* The CRL check of a certificate chain: lib/agent/crl_validator (index,   *)
(* crl_fetcher, crl_cache, certificate_utils, crl_signature_verifier).     *)
(*                                                                         *)
(* Every socket walks through the distribution points of its certificates, *)
(* one after the other.  Sockets share the memory cache, the cache         *)
(* directory and the map of pending fetches.  Every await is a point where *)
(* others run: the walk of a socket rests at one of them.                  *)
(*                                                                         *)
(* Time is a small number.  File operations take none of it.               *)
(***************************************************************************)
EXTENDS TlsSockets

CONSTANTS
    Urls,         \* distribution points
    CrlUrls,      \* per certificate: the URLs in it
    ShortLived,   \* certificates that are not checked
    Revocable,    \* certificates that may get revoked
    Validity,     \* crlCacheValidityTime
    Life,         \* time from a CRL's publication to its nextUpdate
    KeepOnDisk,   \* age at which the cleaner deletes a file
    CrlConfigs,   \* the configurations that are tried
    BadCrls,      \* the sets of URLs to try where the CRL is not to be trusted
    MaxNow,       \* bound: time
    MaxCrlFaults  \* bound: downloads and writes that fail

AnyCrlConfig == [checkMode : {"DISABLED", "ENABLED", "ADVISORY"},
                 allowCertificatesWithoutCrlURL : BOOLEAN,
                 inMemoryCache : BOOLEAN, onDiskCache : BOOLEAN]

NoOne == "no one"

ASSUME CrlAssumption ==
    /\ CrlUrls \in [Certs -> Seq(Urls)]
    /\ ShortLived \subseteq Certs /\ Revocable \subseteq Certs
    /\ CrlConfigs \subseteq AnyCrlConfig
    /\ BadCrls \subseteq SUBSET Urls
    /\ {Life, KeepOnDisk, MaxNow, MaxCrlFaults} \subseteq Nat
    /\ Validity \in Nat \ {0}  \* a day unless it is configured
    /\ NoOne \notin Sockets

VARIABLES
    crl,        \* the configuration
    now,        \* Date.now()
    published,  \* per URL: the CRL that is there now
    memory,     \* CRL_MEMORY_CACHE
    disk,       \* the cache directory
    pending,    \* PENDING_FETCH_REQUESTS: per URL the socket that started the fetch
    fetch,      \* per socket: the fetch it started
    walk,       \* per socket: where its walk rests
    todo,       \* per socket: <<certificate, URL>> still to check
    revokedAt,  \* per URL and certificate: when a CRL first listed it
    crlFaults   \* failures so far

crlVars == <<crl, now, published, memory, disk, pending, fetch, walk, todo, revokedAt, crlFaults>>

Never == -1
NoCrl == [valid |-> FALSE, nextUpdate |-> Never, revoked |-> {}]
NoEntry == [crl |-> NoCrl, at |-> Never]
NoFetch == [pc |-> "none", url |-> "none", crl |-> NoCrl]
Resting == [pc |-> "none", on |-> NoOne, crl |-> NoCrl]

\* A CRL is valid when its signature, its issuer and its issuing distribution point
\* are the expected ones.
Crls == [valid : BOOLEAN, nextUpdate : -1 .. MaxNow + Life, revoked : SUBSET Certs]

CrlInit ==
    /\ crl \in CrlConfigs
    /\ now = 0
    /\ \E bad \in BadCrls : published =
          [u \in Urls |-> [valid |-> u \notin bad, nextUpdate |-> Life, revoked |-> {}]]
    /\ memory = [u \in Urls |-> NoEntry]
    /\ disk = [u \in Urls |-> NoEntry]
    /\ pending = [u \in Urls |-> NoOne]
    /\ fetch = [s \in Sockets |-> NoFetch]
    /\ walk = [s \in Sockets |-> Resting]
    /\ todo = [s \in Sockets |-> << >>]
    /\ revokedAt = [u \in Urls |-> [c \in Certs |-> Never]]
    /\ crlFaults = 0

isCrlValidationEnabled == crl.checkMode # "DISABLED"

CrlFault == crlFaults < MaxCrlFaults /\ crlFaults' = crlFaults + 1
NoCrlFault == UNCHANGED crlFaults

-----------------------------------------------------------------------------
(* The caches. *)

Least(a, b) == IF a < b THEN a ELSE b

\* Mutant: the memory cache keeps a CRL until its nextUpdate.
setUntilNextUpdate(list) == [crl |-> list, at |-> list.nextUpdate]

setCrlInMemory(list) == [crl |-> list, at |-> Least(now + Validity, list.nextUpdate)]
inMemory(u) == crl.inMemoryCache /\ memory[u] # NoEntry /\ memory[u].at > now

\* A file is used when it is young enough and its CRL has not expired.  One that is
\* being written may be read half: it is then no CRL.
usableOnDisk(u) ==
    /\ disk[u] # NoEntry
    /\ now - disk[u].at <= Validity
    /\ disk[u].crl.nextUpdate > now
beingWritten(u) == \E s \in Sockets : fetch[s].pc = "write" /\ fetch[s].url = u

clearExpiredCrlFromMemoryCache ==
    /\ \E u \in Urls : memory[u] # NoEntry /\ memory[u].at < now
    /\ memory' = [u \in Urls |-> IF memory[u].at < now THEN NoEntry ELSE memory[u]]
    /\ UNCHANGED <<crl, now, published, disk, pending, fetch, walk, todo, revokedAt,
                   crlFaults, socketVars>>

clearExpiredCrlFromDiskCache(u) ==
    /\ disk[u] # NoEntry /\ disk[u].at < now - KeepOnDisk
    /\ disk' = [disk EXCEPT ![u] = NoEntry]
    /\ UNCHANGED <<crl, now, published, memory, pending, fetch, walk, todo, revokedAt,
                   crlFaults, socketVars>>

-----------------------------------------------------------------------------
(* The walk through a chain. *)

\* What validateCrl does with the certificates, in order: short-lived ones and, if
\* the configuration allows it, those without a URL are skipped; "none" stands for
\* the error about a missing URL.
Points(c) ==
    CASE c \in ShortLived -> << >>
      [] c \notin ShortLived /\ CrlUrls[c] = << >> ->
            IF crl.allowCertificatesWithoutCrlURL THEN << >> ELSE << <<c, "none">> >>
      [] OTHER -> [i \in DOMAIN CrlUrls[c] |-> <<c, CrlUrls[c][i]>>]
WorkList(s) == FlattenSeq([i \in DOMAIN Chain[s] |-> Points(Chain[s][i])])

\* The end of the walk.  A destroyed socket is uncorked too, to no effect.
Allowed(s) == Uncork(s) /\ walk' = [walk EXCEPT ![s] = Resting]
Failed(s, revoked) ==
    /\ IF ~revoked /\ crl.checkMode = "ADVISORY" THEN Uncork(s) ELSE Destroy(s)
    /\ walk' = [walk EXCEPT ![s] = Resting]
    /\ todo' = [todo EXCEPT ![s] = << >>]

At(s, place, on) == walk' = [walk EXCEPT ![s] = [pc |-> place, on |-> on, crl |-> NoCrl]]

startFetch(s, u) ==
    /\ fetch' = [fetch EXCEPT ![s] = [pc |-> "download", url |-> u, crl |-> NoCrl]]
    /\ pending' = [pending EXCEPT ![u] = s]
    /\ At(s, "await", s)

\* getCrl up to its first await; an expired entry of the memory cache is deleted.
getCrl(s, u) ==
    \/ /\ pending[u] # NoOne
       /\ At(s, "await", pending[u])
       /\ UNCHANGED <<memory, pending, fetch>>
    \/ /\ pending[u] = NoOne
       /\ inMemory(u)
       /\ walk' = [walk EXCEPT ![s] = [pc |-> "got", on |-> NoOne, crl |-> memory[u].crl]]
       /\ UNCHANGED <<memory, pending, fetch>>
    \/ /\ pending[u] = NoOne
       /\ ~inMemory(u)
       /\ memory' = IF crl.inMemoryCache THEN [memory EXCEPT ![u] = NoEntry] ELSE memory
       /\ IF crl.onDiskCache THEN At(s, "disk", NoOne) /\ UNCHANGED <<pending, fetch>>
          ELSE startFetch(s, u)

\* The next distribution point, or the end of the chain.
Continue(s, list) ==
    /\ todo' = [todo EXCEPT ![s] = list]
    /\ IF list = << >>
       THEN Allowed(s) /\ UNCHANGED <<memory, pending, fetch>>
       ELSE getCrl(s, Head(list)[2]) /\ UNCHANGED sock

Advance(s, list) ==
    IF list # << >> /\ Head(list)[2] = "none"
    THEN Failed(s, FALSE) /\ UNCHANGED <<memory, pending, fetch>>
    ELSE Continue(s, list)

corkSocketAndValidateCrl(s) ==
    /\ sock[s] = "corked"
    /\ fresh' = fresh \cup {s}
    /\ IF WorkList(s) = << >> \/ Head(WorkList(s))[2] = "none"
       THEN Advance(s, WorkList(s))
       ELSE /\ sock' = [sock EXCEPT ![s] = "validating"]
            /\ todo' = [todo EXCEPT ![s] = WorkList(s)]
            /\ getCrl(s, Head(WorkList(s))[2])
    /\ NoCrlFault
    /\ UNCHANGED <<crl, now, published, disk, revokedAt>>

\* stat and readFile of getCrlFromDisk.
getCrlFromDisk(s) ==
    LET u == Head(todo[s])[2]
    IN  /\ walk[s].pc = "disk"
        /\ \/ /\ usableOnDisk(u)
              /\ walk' = [walk EXCEPT ![s] =
                             [pc |-> "got", on |-> NoOne, crl |-> disk[u].crl]]
              /\ memory' = IF crl.inMemoryCache
                           THEN [memory EXCEPT ![u] = setCrlInMemory(disk[u].crl)]
                           ELSE memory
              /\ UNCHANGED <<pending, fetch>>
           \/ /\ ~usableOnDisk(u) \/ beingWritten(u)
              /\ startFetch(s, u)
              /\ UNCHANGED memory
        /\ NoCrlFault
        /\ UNCHANGED <<crl, now, published, disk, todo, revokedAt, socketVars>>

\* The fetch of s is over: everyone who awaits it goes on, and the entry of the URL
\* in the map of pending fetches is deleted, whoever's it is.
Resolve(s, place, list) ==
    /\ walk' = [t \in Sockets |->
                   IF walk[t].pc = "await" /\ walk[t].on = s
                   THEN [pc |-> place, on |-> NoOne, crl |-> list] ELSE walk[t]]
    /\ pending' = [pending EXCEPT ![fetch[s].url] = NoOne]
    /\ fetch' = [fetch EXCEPT ![s] = NoFetch]

downloadAnswers(s) ==
    LET u == fetch[s].url
        list == published[u]
    IN  /\ fetch[s].pc = "download"
        /\ memory' = IF crl.inMemoryCache THEN [memory EXCEPT ![u] = setCrlInMemory(list)]
                     ELSE memory
        /\ IF crl.onDiskCache
           THEN /\ fetch' = [fetch EXCEPT ![s].pc = "write", ![s].crl = list]
                /\ UNCHANGED <<walk, pending>>
           ELSE Resolve(s, "got", list)
        /\ NoCrlFault
        /\ UNCHANGED <<crl, now, published, disk, todo, revokedAt, socketVars>>

\* The download fails, takes too long, is too large, or is no CRL.
downloadFails(s) ==
    /\ fetch[s].pc = "download" /\ CrlFault
    /\ Resolve(s, "failed", NoCrl)
    /\ UNCHANGED <<crl, now, published, memory, disk, todo, revokedAt, socketVars>>

writeCrlToDisk(s) ==
    /\ fetch[s].pc = "write"
    /\ disk' = [disk EXCEPT ![fetch[s].url] = [crl |-> fetch[s].crl, at |-> now]]
    /\ Resolve(s, "got", fetch[s].crl)
    /\ NoCrlFault
    /\ UNCHANGED <<crl, now, published, memory, todo, revokedAt, socketVars>>

\* The promise is returned from inside the try block and not awaited there: a write
\* that fails is not caught, and fails the fetch.
writeFails(s) ==
    /\ fetch[s].pc = "write" /\ CrlFault
    /\ Resolve(s, "failed", NoCrl)
    /\ UNCHANGED <<crl, now, published, memory, disk, todo, revokedAt, socketVars>>

getCrlThrows(s) ==
    /\ walk[s].pc = "failed"
    /\ Failed(s, FALSE)
    /\ NoCrlFault
    /\ UNCHANGED <<crl, now, published, memory, disk, pending, fetch, revokedAt, fresh>>

\* The checks of validateCrl on a CRL it got.
Trusted(list) == list.valid /\ list.nextUpdate >= now
isCertificateRevoked(c, list) == c \in list.revoked

validateCrl(s) ==
    LET c == Head(todo[s])[1]
        list == walk[s].crl
    IN  /\ walk[s].pc = "got"
        /\ \/ /\ Trusted(list) /\ ~isCertificateRevoked(c, list)
              /\ Advance(s, Tail(todo[s]))
           \/ /\ ~Trusted(list) \/ isCertificateRevoked(c, list)
              /\ Failed(s, Trusted(list))
              /\ UNCHANGED <<memory, pending, fetch>>
        /\ NoCrlFault
        /\ UNCHANGED <<crl, now, published, disk, revokedAt, fresh>>

-----------------------------------------------------------------------------
(* The issuers and the clock. *)

publishCrl(u) ==
    /\ \E added \in SUBSET {c \in Revocable \ published[u].revoked : u \in ToSet(CrlUrls[c])} :
          /\ added # {} \/ published[u].nextUpdate <= now
          /\ published' = [published EXCEPT ![u].revoked = @ \cup added,
                                            ![u].nextUpdate = now + Life]
          /\ revokedAt' = [revokedAt EXCEPT ![u] =
                 [c \in Certs |-> IF c \in added THEN now ELSE @[c]]]
    /\ UNCHANGED <<crl, now, memory, disk, pending, fetch, walk, todo, crlFaults, socketVars>>

clock ==
    /\ now < MaxNow
    /\ now' = now + 1
    /\ \A s \in Sockets : walk[s].pc \notin {"disk", "got", "failed"} /\ fetch[s].pc # "write"
    /\ UNCHANGED <<crl, published, memory, disk, pending, fetch, walk, todo, revokedAt,
                   crlFaults, socketVars>>

\* The connection ends, and a new one takes its place.
reconnect(s) ==
    /\ sock[s] \in {"open", "destroyed"}
    /\ sock' = [sock EXCEPT ![s] = "corked"]
    /\ fresh' = fresh \ {s}
    /\ UNCHANGED crlVars

WalkStep(s) == getCrlFromDisk(s) \/ getCrlThrows(s) \/ validateCrl(s)
FetchStep(s) == downloadAnswers(s) \/ downloadFails(s) \/ writeCrlToDisk(s) \/ writeFails(s)

CrlNext ==
    \/ \E s \in Sockets : corkSocketAndValidateCrl(s) \/ WalkStep(s) \/ FetchStep(s) \/ reconnect(s)
    \/ clearExpiredCrlFromMemoryCache
    \/ \E u \in Urls : clearExpiredCrlFromDiskCache(u) \/ publishCrl(u)
    \/ clock

-----------------------------------------------------------------------------
(* Properties. *)

Entries == [crl : Crls, at : -1 .. MaxNow + Life]
Places  == Urls \cup {"none"}

CrlOK ==
    /\ crl \in AnyCrlConfig
    /\ now \in 0 .. MaxNow
    /\ published \in [Urls -> Crls]
    /\ {memory, disk} \subseteq [Urls -> Entries]
    /\ pending \in [Urls -> Sockets \cup {NoOne}]
    /\ fetch \in [Sockets -> [pc : {"none", "download", "write"}, url : Places, crl : Crls]]
    /\ walk \in [Sockets -> [pc : {"none", "await", "disk", "got", "failed"},
                             on : Sockets \cup {NoOne}, crl : Crls]]
    /\ todo \in [Sockets -> Seq(Certs \X Places)]
    /\ revokedAt \in [Urls -> [Certs -> -1 .. MaxNow]]
    /\ crlFaults \in 0 .. MaxCrlFaults
    /\ \A s \in Sockets :
          /\ isCrlValidationEnabled => (sock[s] = "validating" <=> walk[s].pc # "none")
          /\ walk[s].pc = "await" => fetch[walk[s].on].pc # "none"

\* A certificate that passes a CRL was not listed in it for long: the memory cache
\* keeps a CRL for crlCacheValidityTime, and so does the disk, but a CRL that is read
\* from the disk starts a new time in memory, so that a revocation may be overlooked
\* for twice that time, and not longer.
RevocationNoticed ==
    [][\A s \in Sockets :
          /\ walk[s].pc = "got" /\ walk'[s] # walk[s]
          /\ sock'[s] # "destroyed"
          /\ crl.checkMode = "ENABLED"
          => LET point == Head(todo[s])
                 since == revokedAt[point[2]][point[1]]
             IN  since = Never \/ now - since < 2 * Validity]_<<walk, sock>>

=============================================================================
