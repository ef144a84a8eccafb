------------------------ MODULE JsonCredentialManager ------------------------
(***************************************************************************)
(* lib/authentication/secure_storage/json_credential_manager.js: cached    *)
(* credentials of all processes of a user in one JSON file, guarded by a   *)
(* lock directory that mkdir creates and rmdir removes.                    *)
(*                                                                         *)
(* A call is one write(), read() or remove(), in any process.  Every await *)
(* on the file system is a step of its own, so that calls of one process   *)
(* interleave like calls of several.                                       *)
(***************************************************************************)
EXTENDS Naturals, FiniteSets

CONSTANTS
    Calls,         \* the calls that are made
    Keys,          \* hashed keys
    Tokens,        \* tokens to store
    NoToken,       \* no token, or null
    MaxAttempts,   \* attempts to create the lock directory
    FaultSets      \* what may go wrong together: sets of FaultKinds

\* "crash": a process ends between two steps; "permissions": the file does not
\* pass getSecureHandle; "disk": truncating or writing the file fails; "slow": a
\* call holds the lock for longer than timeoutMs.
FaultKinds == {"crash", "permissions", "disk", "slow"}

ASSUME CredentialAssumption ==
    /\ Keys # {}
    /\ NoToken \notin Tokens
    /\ MaxAttempts \in Nat \ {0}
    /\ FaultSets \subseteq SUBSET FaultKinds

VARIABLES
    faults,     \* the kinds of fault that may happen from here on
    lock,       \* the call that created the lock directory, as a set of at most one
    stale,      \* the lock directory is older than timeoutMs
    file,       \* what the credential file is: missing, empty, corrupt or json
    stored,     \* what parsing the file gives for each key
    pc,         \* where each call is
    job,        \* per call: [kind, key, token]
    content,    \* per call: what it is about to write
    attempts,   \* per call: attempts made to create the lock directory
    result      \* per call: the token a read() resolves to

diskVars == <<lock, stale, file, stored>>
vars     == <<faults, lock, stale, file, stored, pc, job, content, attempts, result>>

Kinds    == {"write", "read", "remove"}
Contents == [Keys -> Tokens \cup {NoToken}]
Nothing  == [k \in Keys |-> NoToken]

\* Where a call has the lock, by what it knows.
Holding == {"open", "read", "truncate", "store", "unlock"}

\* How a call ends: done; skipped, without the lock; rejected; with its process.
Ended == {"done", "skipped", "rejected", "crashed"}

Init ==
    /\ faults \in FaultSets
    /\ lock = {}
    /\ stale = FALSE
    /\ file = "missing"
    /\ stored = Nothing
    /\ pc = [c \in Calls |-> "idle"]
    /\ job = [c \in Calls |-> [kind |-> "read", key |-> CHOOSE k \in Keys : TRUE, token |-> NoToken]]
    /\ content = [c \in Calls |-> Nothing]
    /\ attempts = [c \in Calls |-> 0]
    /\ result = [c \in Calls |-> NoToken]

Goto(c, label) == pc' = [pc EXCEPT ![c] = label]

-----------------------------------------------------------------------------
(* The calls and the lock                                                  *)

\* write(key, token), read(key) and remove(key) start with withFileLocked.
start(c, kind, key, token) ==
    /\ pc[c] = "idle"
    /\ job' = [job EXCEPT ![c] = [kind |-> kind, key |-> key, token |-> token]]
    /\ Goto(c, "stat")
    /\ UNCHANGED <<diskVars, content, attempts, result>>

\* Mutant: the age is compared the wrong way round.
statLockInverted(c) ==
    /\ pc[c] = "stat"
    /\ Goto(c, IF lock # {} /\ ~stale THEN "rmdir" ELSE "mkdir")
    /\ UNCHANGED <<diskVars, job, content, attempts, result>>

\* removeStale: looks at the age of the lock directory, if there is one.
statLock(c) ==
    /\ pc[c] = "stat"
    /\ Goto(c, IF lock # {} /\ stale THEN "rmdir" ELSE "mkdir")
    /\ UNCHANGED <<diskVars, job, content, attempts, result>>

\* removeStale: removes whatever directory is there by now.
removeStale(c) ==
    /\ pc[c] = "rmdir"
    /\ lock' = {}
    /\ stale' = FALSE
    /\ Goto(c, "mkdir")
    /\ UNCHANGED <<file, stored, job, content, attempts, result>>

\* Mutant: a directory that exists is taken for an acquired lock.
lockFileShared(c) ==
    /\ pc[c] = "mkdir"
    /\ attempts' = [attempts EXCEPT ![c] = @ + 1]
    /\ lock' = {c}
    /\ Goto(c, "open")
    /\ UNCHANGED <<stale, file, stored, job, content, result>>

\* Mutant: attempts are not counted.
lockFileForever(c) ==
    /\ pc[c] = "mkdir"
    /\ lock = {}
    /\ lock' = {c}
    /\ Goto(c, "open")
    /\ UNCHANGED <<stale, file, stored, job, content, attempts, result>>

\* lockFile: mkdir fails when the directory exists.
lockFile(c) ==
    /\ pc[c] = "mkdir"
    /\ attempts' = [attempts EXCEPT ![c] = @ + 1]
    /\ \/ /\ lock = {}
          /\ lock' = {c}
          /\ Goto(c, "open")
       \/ /\ lock # {}
          /\ Goto(c, IF attempts[c] + 1 < MaxAttempts THEN "mkdir" ELSE "skipped")
          /\ UNCHANGED lock
    /\ UNCHANGED <<stale, file, stored, job, content, result>>

\* unlockFile: rmdir, of whatever directory is there; it rejects if there is none.
unlockFile(c) ==
    /\ pc[c] = "unlock"
    /\ lock' = {}
    /\ stale' = FALSE
    /\ Goto(c, IF lock # {} THEN "done" ELSE "rejected")
    /\ UNCHANGED <<file, stored, job, content, attempts, result>>

-----------------------------------------------------------------------------
(* What is done under the lock                                             *)

\* getSecureHandle: a write creates the file, the others do without it.
open(c) ==
    /\ pc[c] = "open"
    /\ \/ /\ file = "missing"
          /\ job[c].kind = "write"
          /\ file' = "empty"
          /\ Goto(c, "read")
       \/ /\ file = "missing"
          /\ job[c].kind # "write"
          /\ Goto(c, "unlock")
          /\ UNCHANGED file
       \/ /\ file # "missing"
          /\ Goto(c, "read")
          /\ UNCHANGED file
    /\ UNCHANGED <<lock, stale, stored, job, content, attempts, result>>

\* getSecureHandle throws, and withFileLocked does not unlock.
openRefused(c) ==
    /\ "permissions" \in faults
    /\ pc[c] = "open"
    /\ file # "missing"
    /\ Goto(c, "rejected")
    /\ UNCHANGED <<diskVars, job, content, attempts, result>>

\* What readJsonCredentialFile may return: what the file holds, or nothing if it
\* cannot be read.  A file that does not parse reads like an empty one.
Seen == {stored} \cup {s \in {Nothing} : "disk" \in faults}

\* Mutant: every write starts from an empty map.
modifyEmpty(c) ==
    /\ pc[c] = "read"
    /\ job[c].kind # "read"
    /\ content' = [content EXCEPT ![c] = [Nothing EXCEPT ![job[c].key] = job[c].token]]
    /\ Goto(c, "truncate")
    /\ UNCHANGED <<diskVars, job, attempts, result>>

\* write() sets its key, remove() sets it to null if it has a token.
modify(c) ==
    /\ pc[c] = "read"
    /\ job[c].kind # "read"
    /\ \E seen \in Seen :
          \/ /\ job[c].kind = "write" \/ seen[job[c].key] # NoToken
             /\ content' = [content EXCEPT ![c] = [seen EXCEPT ![job[c].key] = job[c].token]]
             /\ Goto(c, "truncate")
          \/ /\ job[c].kind = "remove" /\ seen[job[c].key] = NoToken
             /\ Goto(c, "unlock")
             /\ UNCHANGED content
    /\ UNCHANGED <<diskVars, job, attempts, result>>

\* read() takes its key's token.
lookup(c) ==
    /\ pc[c] = "read"
    /\ job[c].kind = "read"
    /\ \E seen \in Seen : result' = [result EXCEPT ![c] = seen[job[c].key]]
    /\ Goto(c, "unlock")
    /\ UNCHANGED <<diskVars, job, content, attempts>>

truncate(c) ==
    /\ pc[c] = "truncate"
    /\ file' = "empty"
    /\ stored' = Nothing
    /\ Goto(c, "store")
    /\ UNCHANGED <<lock, stale, job, content, attempts, result>>

\* fileHandle.write(..., 0).  On top of what another call has written meanwhile, a
\* shorter text leaves the end of the longer one behind, which does not parse.
writeContent(c) ==
    /\ pc[c] = "store"
    /\ \/ /\ file' = "json"
          /\ stored' = content[c]
       \/ /\ file \in {"json", "corrupt"}
          /\ file' = "corrupt"
          /\ stored' = Nothing
    /\ Goto(c, "unlock")
    /\ UNCHANGED <<lock, stale, job, content, attempts, result>>

\* Truncating or writing fails: the error is logged, the call goes on to unlock.
diskFails(c) ==
    /\ "disk" \in faults
    /\ pc[c] \in {"truncate", "store"}
    /\ Goto(c, "unlock")
    /\ UNCHANGED <<diskVars, job, content, attempts, result>>

-----------------------------------------------------------------------------
(* The environment                                                         *)

crash(c) ==
    /\ "crash" \in faults
    /\ pc[c] \notin Ended \cup {"idle"}
    /\ Goto(c, "crashed")
    /\ UNCHANGED <<diskVars, job, content, attempts, result>>

\* timeoutMs pass.  The lock of a call that goes on grows that old only if the
\* call is slow.
lockGrowsOld ==
    /\ lock # {}
    /\ ~stale
    /\ "slow" \in faults \/ \A c \in lock : pc[c] \in Ended
    /\ stale' = TRUE
    /\ UNCHANGED <<lock, file, stored, pc, job, content, attempts, result>>

Step(c) ==
    \/ statLock(c)
    \/ removeStale(c)
    \/ lockFile(c)
    \/ open(c)
    \/ openRefused(c)
    \/ modify(c)
    \/ lookup(c)
    \/ truncate(c)
    \/ writeContent(c)
    \/ diskFails(c)
    \/ unlockFile(c)

Next ==
    /\ \/ \E c \in Calls :
             \/ \E key \in Keys : \/ \E token \in Tokens : start(c, "write", key, token)
                                  \/ start(c, "read", key, NoToken)
                                  \/ start(c, "remove", key, NoToken)
             \/ Step(c)
             \/ crash(c)
       \/ lockGrowsOld
    /\ UNCHANGED faults

Spec == Init /\ [][Next]_vars

\* The file system answers, and promises are resumed.
FairSpec == Spec /\ \A c \in Calls : WF_vars(Step(c) /\ UNCHANGED faults)

-----------------------------------------------------------------------------
(* Properties                                                              *)

TypeOK ==
    /\ faults \in FaultSets
    /\ lock \subseteq Calls
    /\ stale \in BOOLEAN
    /\ file \in {"missing", "empty", "corrupt", "json"}
    /\ stored \in Contents
    /\ pc \in [Calls -> {"idle", "stat", "rmdir", "mkdir"} \cup Holding \cup Ended]
    /\ job \in [Calls -> [kind : Kinds, key : Keys, token : Tokens \cup {NoToken}]]
    /\ content \in [Calls -> Contents]
    /\ attempts \in [Calls -> 0..MaxAttempts]
    /\ result \in [Calls -> Tokens \cup {NoToken}]

\* Every call still comes to its unlockFile, and in time.
Mild == faults \subseteq {"disk"}

\* Two calls never work on the file at the same time, unless one leaves its lock
\* behind or holds it for longer than timeoutMs.
MutualExclusion ==
    Mild => \A c, d \in Calls : pc[c] \in Holding /\ pc[d] \in Holding => c = d

\* What the file means.  A call that has truncated the file has done its job, as
\* far as the calls that wait for the lock can see.
Writer == {c \in Calls : pc[c] = "store"}

Store == INSTANCE CredentialStore WITH
    store <- IF Writer = {} THEN stored ELSE content[CHOOSE c \in Writer : TRUE],
    reliable <- faults = {}

\* The file is a map changed one key at a time: no write or removal undoes another,
\* in whatever order the calls read, truncate and write the file.
ImplementsStore == Store!Spec

\* Every call comes to an end, also when the lock is never released, or its own
\* lock is taken away.
EveryCallEnds == \A c \in Calls : pc[c] = "stat" ~> pc[c] \in Ended

\* A lock left behind by a crash or an error is gone once a call has found it stale.
StaleLockRemoved ==
    \A c \in Calls : (pc[c] = "stat" /\ stale) ~> (~stale \/ pc[c] = "crashed")

=============================================================================
