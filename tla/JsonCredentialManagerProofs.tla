--------------------- MODULE JsonCredentialManagerProofs ---------------------
(***************************************************************************)
(* The lock of JsonCredentialManager excludes as long as no call leaves it *)
(* behind or holds it for longer than timeoutMs, and the file is the map   *)
(* it stands for, for any number of calls, keys and tokens.                *)
(***************************************************************************)
EXTENDS JsonCredentialManager, TLAPS

\* A call works on the file iff the lock directory is its own; no directory is
\* ever stale, so nobody removes one that is not his.
LockInv ==
    /\ stale = FALSE
    /\ \A c \in Calls : pc[c] \notin {"rmdir", "rejected", "crashed"}
    /\ \A c \in Calls : pc[c] \in Holding <=> c \in lock
    /\ \A c, d \in lock : c = d

\* A call at "mkdir" has an attempt left.
AttemptsInv ==
    \A c \in Calls : /\ pc[c] \in {"idle", "stat", "rmdir"} => attempts[c] = 0
                     /\ pc[c] = "mkdir" => attempts[c] < MaxAttempts

\* Between reading the file and truncating it a call holds the change of one key
\* of what is still stored; the file it writes to is the one it has emptied.
ContentInv ==
    \A c \in Calls :
        /\ pc[c] = "truncate" => content[c] = [stored EXCEPT ![job[c].key] = job[c].token]
        /\ pc[c] = "store" => file = "empty"

\* The labels a call may be at.
Labels == {"idle", "stat", "rmdir", "mkdir"} \cup Holding \cup Ended

IInv == TypeOK /\ AttemptsInv /\ (Mild => LockInv)

\* What a call writes is only certain when nothing goes wrong.
ReliableInv == faults = {} => ContentInv

\* The invariants hold when no call has started and no lock is taken.
LEMMA InitIInv == Init => IInv /\ ContentInv
<1> SUFFICES ASSUME Init PROVE IInv /\ ContentInv
  OBVIOUS
<1>1. Nothing \in Contents
  BY DEF Nothing, Contents
<1>2. (CHOOSE k \in Keys : TRUE) \in Keys
  BY CredentialAssumption
<1>3. job \in [Calls -> [kind : Kinds, key : Keys, token : Tokens \cup {NoToken}]]
  BY <1>2 DEF Init, Kinds
<1>4. attempts \in [Calls -> 0..MaxAttempts]
  BY CredentialAssumption DEF Init
<1>5. pc \in [Calls -> Labels]
  BY DEF Init, Labels
<1>6. TypeOK
  BY <1>1, <1>3, <1>4, <1>5 DEF Init, TypeOK, Labels
<1>7. LockInv /\ AttemptsInv /\ ContentInv
  BY DEF Init, LockInv, AttemptsInv, ContentInv, Holding
<1> QED
  BY <1>6, <1>7 DEF IInv

\* Every step keeps the types and the count of the attempts, whatever the faults.
LEMMA TypeStep == TypeOK /\ AttemptsInv /\ [Next]_vars => TypeOK' /\ AttemptsInv'
<1> SUFFICES ASSUME TypeOK, AttemptsInv, [Next]_vars PROVE TypeOK' /\ AttemptsInv'
  OBVIOUS
<1> USE CredentialAssumption DEF TypeOK, AttemptsInv, Holding, Ended, Goto, diskVars
<1>0. Nothing \in Contents
  BY DEF Nothing, Contents
<1>1. CASE UNCHANGED vars
  BY <1>1 DEF vars
<1>2. CASE lockGrowsOld /\ UNCHANGED faults
  BY <1>2 DEF lockGrowsOld
<1>3. ASSUME UNCHANGED faults,
             NEW c \in Calls, NEW key \in Keys, NEW token \in Tokens \cup {NoToken},
             NEW kind \in Kinds, start(c, kind, key, token)
      PROVE  TypeOK' /\ AttemptsInv'
  <2>1. [kind |-> kind, key |-> key, token |-> token]
           \in [kind : Kinds, key : Keys, token : Tokens \cup {NoToken}]
    OBVIOUS
  <2>2. job' \in [Calls -> [kind : Kinds, key : Keys, token : Tokens \cup {NoToken}]]
    BY <1>3, <2>1 DEF start
  <2>3. /\ UNCHANGED <<diskVars, content, attempts, result>>
        /\ pc' = [pc EXCEPT ![c] = "stat"]
        /\ pc[c] = "idle"
    BY <1>3 DEF start
  <2>4. TypeOK'
    <3>1. pc' \in [Calls -> {"idle", "stat", "rmdir", "mkdir"} \cup Holding \cup Ended]
      BY <2>3
    <3> QED
      BY <1>3, <2>2, <2>3, <3>1
  <2>5. AttemptsInv'
    BY <2>3
  <2> QED
    BY <2>4, <2>5
<1>4. ASSUME UNCHANGED faults, NEW c \in Calls, Step(c) \/ crash(c)
      PROVE  TypeOK' /\ AttemptsInv'
  <2>1. CASE statLock(c)
    BY <1>4, <2>1 DEF statLock
  <2>2. CASE removeStale(c)
    <3>1. pc' = [pc EXCEPT ![c] = "mkdir"] /\ pc[c] = "rmdir" /\ attempts' = attempts
      BY <1>4, <2>2 DEF removeStale
    <3>2. AttemptsInv'
      BY <3>1
    <3>3. TypeOK'
      BY <1>4, <2>2 DEF removeStale
    <3> QED
      BY <3>2, <3>3
  <2>3. CASE lockFile(c)
    BY <1>4, <2>3 DEF lockFile
  <2>4. CASE open(c)
    BY <1>4, <2>4 DEF open
  <2>5. CASE openRefused(c)
    BY <1>4, <2>5 DEF openRefused
  <2>6. CASE modify(c)
    <3>1. PICK seen \in Contents :
             \/ /\ content' = [content EXCEPT ![c] = [seen EXCEPT ![job[c].key] = job[c].token]]
                /\ Goto(c, "truncate")
             \/ Goto(c, "unlock") /\ UNCHANGED content
      BY <1>0, <2>6 DEF modify, Seen
    <3>2. job[c].key \in Keys /\ job[c].token \in Tokens \cup {NoToken}
      OBVIOUS
    <3>3. [seen EXCEPT ![job[c].key] = job[c].token] \in Contents
      BY <3>2 DEF Contents
    <3>4. content' \in [Calls -> Contents]
      BY <3>1, <3>3
    <3>5. UNCHANGED <<diskVars, job, attempts, result>> /\ pc[c] = "read"
      BY <1>4, <2>6 DEF modify
    <3> QED
      BY <1>4, <3>1, <3>4, <3>5
  <2>7. CASE lookup(c)
    <3>1. PICK seen \in Contents : result' = [result EXCEPT ![c] = seen[job[c].key]]
      BY <1>0, <2>7 DEF lookup, Seen
    <3>2. job[c].key \in Keys
      OBVIOUS
    <3>3. seen[job[c].key] \in Tokens \cup {NoToken}
      BY <3>2 DEF Contents
    <3>4. result' \in [Calls -> Tokens \cup {NoToken}]
      BY <3>1, <3>3
    <3> QED
      BY <1>4, <2>7, <3>4 DEF lookup
  <2>8. CASE truncate(c)
    BY <1>0, <1>4, <2>8 DEF truncate
  <2>9. CASE writeContent(c)
    BY <1>0, <1>4, <2>9 DEF writeContent
  <2>10. CASE diskFails(c)
    BY <1>4, <2>10 DEF diskFails
  <2>11. CASE unlockFile(c)
    BY <1>4, <2>11 DEF unlockFile
  <2>12. CASE crash(c)
    BY <1>4, <2>12 DEF crash
  <2> QED
    BY <1>4, <2>1, <2>2, <2>3, <2>4, <2>5, <2>6, <2>7, <2>8, <2>9, <2>10, <2>11, <2>12 DEF Step
<1> QED
  BY <1>1, <1>2, <1>3, <1>4 DEF Next, Kinds

\* Every step keeps the lock and its holder together: mkdir succeeds only where
\* there is no directory, and the only rmdir is the holder's own unlockFile.
LEMMA LockStep == IInv /\ [Next]_vars => (Mild => LockInv)'
<1> SUFFICES ASSUME IInv, [Next]_vars, Mild PROVE LockInv'
  BY DEF Mild, Next, vars
<1> USE DEF IInv, TypeOK, LockInv, Holding, Ended, Goto, diskVars
<1>1. CASE UNCHANGED vars
  BY <1>1 DEF vars
<1>2. CASE lockGrowsOld
  <2>1. PICK c \in lock : TRUE
    BY <1>2 DEF lockGrowsOld
  <2>2. "slow" \notin faults
    BY DEF Mild
  <2>3. pc[c] \in Ended /\ pc[c] \in Holding
    BY <1>2, <2>1, <2>2 DEF lockGrowsOld
  <2> QED
    BY <2>3
<1>3. ASSUME NEW c \in Calls, NEW key, NEW token, NEW kind, start(c, kind, key, token)
      PROVE  LockInv'
  BY <1>3 DEF start
<1>4. ASSUME UNCHANGED faults, NEW c \in Calls, Step(c) \/ crash(c)
      PROVE  LockInv'
  <2>0. "crash" \notin faults /\ "permissions" \notin faults
    BY DEF Mild
  <2>1. CASE statLock(c)
    BY <2>1 DEF statLock
  <2>2. CASE removeStale(c)
    BY <2>2 DEF removeStale
  <2>3. CASE lockFile(c)
    BY <2>3 DEF lockFile
  <2>4. CASE open(c)
    BY <2>4 DEF open
  <2>5. CASE openRefused(c)
    BY <2>0, <2>5 DEF openRefused
  <2>6. CASE modify(c)
    BY <2>6 DEF modify
  <2>7. CASE lookup(c)
    BY <2>7 DEF lookup
  <2>8. CASE truncate(c)
    BY <2>8 DEF truncate
  <2>9. CASE writeContent(c)
    BY <2>9 DEF writeContent
  <2>10. CASE diskFails(c)
    BY <2>10 DEF diskFails
  <2>11. CASE unlockFile(c)
    BY <2>11 DEF unlockFile
  <2>12. CASE crash(c)
    BY <2>0, <2>12 DEF crash
  <2> QED
    BY <1>4, <2>1, <2>2, <2>3, <2>4, <2>5, <2>6, <2>7, <2>8, <2>9, <2>10, <2>11, <2>12 DEF Step
<1> QED
  BY <1>1, <1>2, <1>3, <1>4 DEF Next

\* Two calls never work on the file at the same time, for any number of calls, when
\* disk errors are all that goes wrong.
THEOREM LockExcludes == Spec => []MutualExclusion
<1>1. Init => IInv
  BY InitIInv
<1>2. IInv /\ [Next]_vars => IInv'
  BY TypeStep, LockStep DEF IInv
<1>3. IInv => MutualExclusion
  BY DEF IInv, LockInv, MutualExclusion
<1> QED
  BY <1>1, <1>2, <1>3, PTL DEF Spec

\* Attempts stay within their bound and every call at one of its awaits, whatever
\* goes wrong.
THEOREM Types == Spec => []TypeOK
<1>1. Init => TypeOK /\ AttemptsInv
  BY InitIInv DEF IInv
<1> QED
  BY <1>1, TypeStep, PTL DEF Spec

\* While the lock excludes, what a call has read stays what is stored until the
\* call itself truncates the file.
LEMMA ContentStep == IInv /\ IInv' /\ ReliableInv /\ [Next]_vars => ReliableInv'
<1> SUFFICES ASSUME IInv, IInv', faults = {}, faults' = {}, ContentInv, [Next]_vars
             PROVE  ContentInv'
  BY DEF ReliableInv, Next, vars
<1> USE DEF Mild, IInv, TypeOK, LockInv, ContentInv, Holding, Ended, Goto, diskVars
<1>1. CASE UNCHANGED vars
  BY <1>1 DEF vars
<1>2. CASE lockGrowsOld
  BY <1>2 DEF lockGrowsOld
<1>3. ASSUME NEW c \in Calls, NEW key, NEW token, NEW kind, start(c, kind, key, token)
      PROVE  ContentInv'
  BY <1>3 DEF start
<1>4. ASSUME UNCHANGED faults, NEW c \in Calls, Step(c) \/ crash(c)
      PROVE  ContentInv'
  <2>1. CASE statLock(c)
    BY <2>1 DEF statLock
  <2>2. CASE removeStale(c)
    BY <2>2 DEF removeStale
  <2>3. CASE lockFile(c)
    BY <2>3 DEF lockFile
  <2>4. CASE open(c)
    BY <2>4 DEF open
  <2>5. CASE openRefused(c)
    BY <2>5 DEF openRefused
  <2>6. CASE modify(c)
    BY <2>6 DEF modify, Seen
  <2>7. CASE lookup(c)
    BY <2>7 DEF lookup
  <2>8. CASE truncate(c)
    BY <2>8 DEF truncate
  <2>9. CASE writeContent(c)
    BY <2>9 DEF writeContent
  <2>10. CASE diskFails(c)
    BY <2>10 DEF diskFails
  <2>11. CASE unlockFile(c)
    BY <2>11 DEF unlockFile
  <2>12. CASE crash(c)
    BY <2>12 DEF crash
  <2> QED
    BY <1>4, <2>1, <2>2, <2>3, <2>4, <2>5, <2>6, <2>7, <2>8, <2>9, <2>10, <2>11, <2>12 DEF Step
<1> QED
  BY <1>1, <1>2, <1>3, <1>4 DEF Next

\* The map the file stands for, as the refinement has it.
Meaning == IF Writer = {} THEN stored ELSE content[CHOOSE c \in Writer : TRUE]

\* A step that leaves the writers, what is stored and what they write alone leaves
\* the map alone.
LEMMA MeaningUnchanged ==
    ASSUME Writer' = Writer, stored' = stored, \A c \in Writer : content'[c] = content[c]
    PROVE  Meaning' = Meaning
<1>1. CASE Writer = {}
  BY <1>1 DEF Meaning
<1>2. CASE Writer # {}
  <2>1. (CHOOSE c \in Writer : TRUE) \in Writer
    BY <1>2
  <2> QED
    BY <1>2, <2>1 DEF Meaning
<1> QED
  BY <1>1, <1>2

\* After any step the file still stands for a map from keys to tokens.
LEMMA MeaningType == TypeOK' => Meaning' \in Contents
<1> SUFFICES ASSUME TypeOK' PROVE Meaning' \in Contents
  OBVIOUS
<1>1. CASE Writer' = {}
  BY <1>1 DEF Meaning, TypeOK, Contents
<1>2. CASE Writer' # {}
  <2>1. (CHOOSE c \in Writer' : TRUE) \in Calls
    BY <1>2 DEF Writer
  <2>2. Meaning' = content'[CHOOSE c \in Writer' : TRUE]
    BY <1>2 DEF Meaning
  <2> QED
    BY <2>1, <2>2 DEF TypeOK, Contents
<1> QED
  BY <1>1, <1>2

\* The file is a map changed one key at a time: when nothing goes wrong, each
\* truncation is a Write or a Remove of the abstract store, all else a stutter.
THEOREM FileImplementsStore == Spec => ImplementsStore
<1>1. Init => Store!Init
  BY DEF Init, Store!Init, Nothing, Writer
<1>2. IInv /\ ContentInv /\ [Next]_vars /\ faults = {}
         => (\E k \in Keys : Store!Remove(k) \/ \E t \in Tokens : Store!Write(k, t))
               \/ UNCHANGED Meaning
  <2> SUFFICES ASSUME IInv, ContentInv, [Next]_vars, faults = {}
               PROVE  (\E k \in Keys : Store!Remove(k) \/ \E t \in Tokens : Store!Write(k, t))
                          \/ UNCHANGED Meaning
    OBVIOUS
  <2> USE DEF Mild, IInv, TypeOK, LockInv, ContentInv, Holding, Ended, Goto, diskVars
  <2>1. CASE UNCHANGED vars
    <3>1. Writer' = Writer
      BY <2>1 DEF vars, Writer
    <3> QED
      BY <2>1, <3>1, MeaningUnchanged DEF vars
  <2>2. CASE lockGrowsOld
    <3>1. Writer' = Writer
      BY <2>2 DEF lockGrowsOld, Writer
    <3> QED
      BY <2>2, <3>1, MeaningUnchanged DEF lockGrowsOld
  <2>3. ASSUME NEW c \in Calls, NEW key, NEW token, NEW kind, start(c, kind, key, token)
        PROVE  UNCHANGED Meaning
    <3>1. Writer' = Writer
      BY <2>3 DEF start, Writer
    <3> QED
      BY <2>3, <3>1, MeaningUnchanged DEF start
  <2>4. ASSUME NEW c \in Calls,
               \/ statLock(c) \/ removeStale(c) \/ lockFile(c) \/ open(c)
               \/ lookup(c) \/ unlockFile(c)
        PROVE  UNCHANGED Meaning
    <3>1. Writer' = Writer
      BY <2>4 DEF statLock, removeStale, lockFile, open, lookup, unlockFile, Writer
    <3>2. UNCHANGED <<stored, content>>
      BY <2>4 DEF statLock, removeStale, lockFile, open, lookup, unlockFile
    <3> QED
      BY <3>1, <3>2, MeaningUnchanged
  <2>5. ASSUME NEW c \in Calls, modify(c)
        PROVE  UNCHANGED Meaning
    <3>1. Writer' = Writer
      BY <2>5 DEF modify, Writer
    <3>2. stored' = stored /\ \A d \in Writer : content'[d] = content[d]
      BY <2>5 DEF modify, Writer
    <3> QED
      BY <3>1, <3>2, MeaningUnchanged
  <2>6. ASSUME NEW c \in Calls, truncate(c)
        PROVE  \E k \in Keys : Store!Remove(k) \/ \E t \in Tokens : Store!Write(k, t)
    <3>1. Writer = {}
      BY <2>6 DEF truncate, Writer
    <3>2. Writer' = {c}
      BY <2>6, <3>1 DEF truncate, Writer
    <3>3. Meaning = stored /\ Meaning' = content[c]
      BY <2>6, <3>1, <3>2 DEF truncate, Meaning
    <3>4. content[c] = [stored EXCEPT ![job[c].key] = job[c].token]
      BY <2>6 DEF truncate
    <3>5. job[c].key \in Keys /\ job[c].token \in Tokens \cup {NoToken}
      OBVIOUS
    <3>6. CASE job[c].token = NoToken
      BY <3>3, <3>4, <3>5, <3>6 DEF Store!Remove, Meaning
    <3>7. CASE job[c].token \in Tokens
      <4>1. Store!Write(job[c].key, job[c].token)
        BY <3>3, <3>4 DEF Store!Write, Meaning
      <4> QED
        BY <3>5, <3>7, <4>1, Zenon
    <3> QED
      BY <3>5, <3>6, <3>7
  <2>7. ASSUME NEW c \in Calls, writeContent(c)
        PROVE  UNCHANGED Meaning
    <3>1. Writer = {c}
      BY <2>7 DEF writeContent, Writer
    <3>2. Writer' = {}
      BY <2>7, <3>1 DEF writeContent, Writer
    <3>3. stored' = content[c]
      BY <2>7 DEF writeContent
    <3> QED
      BY <3>1, <3>2, <3>3 DEF Meaning
  <2>8. ASSUME NEW c \in Calls
        PROVE  ~openRefused(c) /\ ~diskFails(c) /\ ~crash(c)
    BY DEF openRefused, diskFails, crash
  <2> QED
    BY <2>1, <2>2, <2>3, <2>4, <2>5, <2>6, <2>7, <2>8 DEF Next, Step
<1>3. IInv /\ IInv' /\ ReliableInv /\ [Next]_vars => [Store!Next]_<<Meaning, faults = {}>>
  <2> SUFFICES ASSUME IInv, IInv', ReliableInv, [Next]_vars
               PROVE  [Store!Next]_<<Meaning, faults = {}>>
    OBVIOUS
  <2>1. faults' = faults
    BY DEF Next, vars
  <2>2. CASE faults = {}
    BY <1>2, <2>1, <2>2 DEF ReliableInv, Store!Next, Meaning
  <2>3. CASE faults # {}
    <3>1. Store!Fault
      BY <2>3, MeaningType DEF IInv, Contents, Store!Fault, Meaning
    <3> QED
      BY <2>1, <3>1 DEF Store!Next
  <2> QED
    BY <2>2, <2>3
<1>4. IInv /\ ReliableInv /\ [Next]_vars => (IInv /\ ReliableInv)'
  BY TypeStep, LockStep, ContentStep DEF IInv
<1>5. Init => IInv /\ ReliableInv
  BY InitIInv DEF ReliableInv
<1> QED
  BY <1>1, <1>3, <1>4, <1>5, PTL DEF Spec, ImplementsStore, Store!Spec, Meaning

=============================================================================
