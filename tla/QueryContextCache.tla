-------------------------- MODULE QueryContextCache --------------------------
(***************************************************************************)
(* lib/queryContextCache.js: the per-session cache of query contexts.      *)
(* Every query request carries the cache's elements (getQueryContextDTO),  *)
(* every response may carry elements to merge into it                      *)
(* (deserializeQueryContext).  Three structures hold the same element      *)
(* objects: idMap, priorityMap and treeSet, a Set kept sorted by priority. *)
(*                                                                         *)
(* An element object is modelled by its value: MapsAgree below shows that  *)
(* two structures never hold different objects for one id.                 *)
(*                                                                         *)
(* deserializeQueryContext is synchronous.  Its two loops, over the        *)
(* entries of the response and over the elements beyond the capacity, are  *)
(* one action per iteration; no other operation starts while busy holds.   *)
(***************************************************************************)
EXTENDS Naturals, FiniteSets, SequencesExt

CONSTANTS
    Ids,            \* ids of query contexts
    Priorities,     \* priorities, 0 first
    Timestamps,     \* read timestamps
    Capacity,       \* parameter QUERY_CONTEXT_CACHE_SIZE
    MaxEntries,     \* bound: entries of one response
    Mismatch,       \* an entry of a response whose context is not a string
    Throws          \* an entry that is no object at all

ASSUME NumbersAssumption ==
    /\ Priorities \subseteq Nat
    /\ Timestamps \subseteq Nat
    /\ Capacity \in Nat
    /\ MaxEntries \in Nat

\* The server's context of an id is identified with the read timestamp it was
\* taken at, so that a context is only right beside its own timestamp.
QueryContextElement ==
    [id : Ids, timestamp : Timestamps, priority : Priorities, context : Timestamps]

\* What the server sends: contexts that belong to their timestamps.
ServerElement == {e \in QueryContextElement : e.context = e.timestamp}

\* The other entries a response may hold.
BadEntry == {Mismatch, Throws}

ASSUME BadEntriesAssumption ==
    /\ Mismatch \notin QueryContextElement
    /\ Throws \notin QueryContextElement
    /\ Mismatch # Throws

VARIABLES
    cache,     \* [idMap, priorityMap, treeSet]
    entries,   \* the entries of the response still to be merged
    busy       \* deserializeQueryContext is running

vars == <<cache, entries, busy>>

-----------------------------------------------------------------------------
(* The operations on the three structures, as functions of their contents. *)

emptyMap   == [key \in {} |-> {}]
emptyCache == [idMap |-> emptyMap, priorityMap |-> emptyMap, treeSet |-> <<>>]

\* Map.set and Map.delete
MapSet(map, key, value) ==
    [k \in DOMAIN map \cup {key} |-> IF k = key THEN value ELSE map[k]]
MapDelete(map, key) == Restrict(map, DOMAIN map \ {key})

\* Adding at the end and sorting again, with a stable sort, puts an element behind
\* those whose priority is not greater.
AddSorted(seq, qce) ==
    InsertAt(seq, Cardinality({i \in DOMAIN seq : seq[i].priority <= qce.priority}) + 1, qce)

addQCE(c, qce) ==
    [idMap       |-> MapSet(c.idMap, qce.id, qce),
     priorityMap |-> MapSet(c.priorityMap, qce.priority, qce),
     treeSet     |-> AddSorted(c.treeSet, qce)]

\* Mutant: the entry of the priority stays behind.
removeKeepingPriority(c, qce) ==
    [idMap       |-> MapDelete(c.idMap, qce.id),
     priorityMap |-> c.priorityMap,
     treeSet     |-> RemoveFirst(c.treeSet, qce)]

removeQCE(c, qce) ==
    [idMap       |-> MapDelete(c.idMap, qce.id),
     priorityMap |-> MapDelete(c.priorityMap, qce.priority),
     treeSet     |-> RemoveFirst(c.treeSet, qce)]

replaceQCE(c, oldQCE, newQCE) == addQCE(removeQCE(c, oldQCE), newQCE)

\* Assigning to the fields of an element object changes it wherever it is held.
overwrite(c, qce, newQCE) ==
    LET updated == [qce EXCEPT !.timestamp = newQCE.timestamp, !.context = newQCE.context]
        Update(e) == IF e = qce THEN updated ELSE e
    IN  [idMap       |-> [k \in DOMAIN c.idMap |-> Update(c.idMap[k])],
         priorityMap |-> [k \in DOMAIN c.priorityMap |-> Update(c.priorityMap[k])],
         treeSet     |-> [i \in DOMAIN c.treeSet |-> Update(c.treeSet[i])]]

\* Mutant: a change of priority is taken over without looking at the timestamp.
mergeAnyPriority(c, newQCE) ==
    LET qce == c.idMap[newQCE.id]
    IN  IF newQCE.timestamp > qce.timestamp /\ qce.priority = newQCE.priority
        THEN overwrite(c, qce, newQCE)
        ELSE IF qce.priority # newQCE.priority
        THEN replaceQCE(c, qce, newQCE)
        ELSE c

\* An element whose id is cached.
mergeKnownId(c, newQCE) ==
    LET qce == c.idMap[newQCE.id]
    IN  IF newQCE.timestamp > qce.timestamp /\ qce.priority = newQCE.priority
        THEN overwrite(c, qce, newQCE)
        ELSE IF newQCE.timestamp >= qce.timestamp /\ qce.priority # newQCE.priority
        THEN replaceQCE(c, qce, newQCE)
        ELSE c

\* An element whose id is not cached.
mergeNewId(c, newQCE) ==
    IF newQCE.priority \in DOMAIN c.priorityMap
    THEN replaceQCE(c, c.priorityMap[newQCE.priority], newQCE)
    ELSE addQCE(c, newQCE)

merge(c, newQCE) ==
    IF newQCE.id \in DOMAIN c.idMap THEN mergeKnownId(c, newQCE) ELSE mergeNewId(c, newQCE)

-----------------------------------------------------------------------------

Init ==
    /\ cache = emptyCache
    /\ entries = <<>>
    /\ busy = FALSE

\* SnowflakeService.destroy, or a response without a query context.
clearCache ==
    /\ ~busy
    /\ cache' = emptyCache
    /\ UNCHANGED <<entries, busy>>

Responses == UNION {[1..n -> ServerElement \cup BadEntry] : n \in 0..MaxEntries}

\* A response with a query context arrives.
deserializeQueryContext(response) ==
    /\ ~busy
    /\ busy' = TRUE
    /\ entries' = response
    /\ UNCHANGED cache

\* The loop over the entries: merge the next one.
mergeNext ==
    /\ busy
    /\ entries # <<>>
    /\ Head(entries) \in QueryContextElement
    /\ cache' = merge(cache, Head(entries))
    /\ entries' = Tail(entries)
    /\ UNCHANGED busy

\* The next entry has a context of the wrong type: clear the cache and return.
rejectEntry ==
    /\ busy
    /\ entries # <<>>
    /\ Head(entries) = Mismatch
    /\ cache' = emptyCache
    /\ entries' = <<>>
    /\ busy' = FALSE

\* The next entry makes the loop throw: clear the cache, go on to the capacity.
entryThrows ==
    /\ busy
    /\ entries # <<>>
    /\ Head(entries) = Throws
    /\ cache' = emptyCache
    /\ entries' = <<>>
    /\ UNCHANGED busy

\* checkCacheCapacity: the loop that pops the last element of the sorted set.
evictLast ==
    /\ busy
    /\ entries = <<>>
    /\ Len(cache.treeSet) > Capacity
    /\ cache' = removeQCE(cache, Last(cache.treeSet))
    /\ UNCHANGED <<entries, busy>>

\* Mutant: one element too many is kept.
deserializedOneMore ==
    /\ busy
    /\ entries = <<>>
    /\ Len(cache.treeSet) <= Capacity + 1
    /\ busy' = FALSE
    /\ UNCHANGED <<cache, entries>>

deserialized ==
    /\ busy
    /\ entries = <<>>
    /\ Len(cache.treeSet) <= Capacity
    /\ busy' = FALSE
    /\ UNCHANGED <<cache, entries>>

Next ==
    \/ clearCache
    \/ \E response \in Responses : deserializeQueryContext(response)
    \/ mergeNext
    \/ rejectEntry
    \/ entryThrows
    \/ evictLast
    \/ deserialized

Spec == Init /\ [][Next]_vars

-----------------------------------------------------------------------------
(* Properties                                                              *)

Elements(c) == Range(c.treeSet)

WellTyped(c) ==
    /\ c = [idMap |-> c.idMap, priorityMap |-> c.priorityMap, treeSet |-> c.treeSet]
    /\ c.idMap = [i \in DOMAIN c.idMap |-> c.idMap[i]]
    /\ DOMAIN c.idMap \subseteq Ids
    /\ c.priorityMap = [p \in DOMAIN c.priorityMap |-> c.priorityMap[p]]
    /\ DOMAIN c.priorityMap \subseteq Priorities
    /\ c.treeSet \in Seq(QueryContextElement)

TypeOK ==
    /\ WellTyped(cache)
    /\ entries \in Seq(ServerElement \cup BadEntry)
    /\ busy \in BOOLEAN

OneElementPerId(c) ==
    \A i, j \in DOMAIN c.treeSet : c.treeSet[i].id = c.treeSet[j].id => i = j

IdMapAgrees(c) ==
    /\ \A e \in Elements(c) : e.id \in DOMAIN c.idMap /\ c.idMap[e.id] = e
    /\ \A i \in DOMAIN c.idMap : c.idMap[i] \in Elements(c) /\ c.idMap[i].id = i

PriorityMapAgrees(c) ==
    \A p \in DOMAIN c.priorityMap :
        c.priorityMap[p] \in Elements(c) /\ c.priorityMap[p].priority = p

Sorted(c) ==
    \A i, j \in DOMAIN c.treeSet : i < j => c.treeSet[i].priority <= c.treeSet[j].priority

ContextsMatch(c) == \A e \in Elements(c) : e.context = e.timestamp

\* The elements sent to the server are those found by id, one for each id, and an
\* element found by its priority is one of them: no merge, replacement or
\* eviction leaves an element reachable one way only.
MapsAgree == OneElementPerId(cache) /\ IdMapAgrees(cache) /\ PriorityMapAgrees(cache)

\* The elements go out, and are evicted, in the order of their priorities.
SortedByPriority == Sorted(cache)

\* Between two responses the cache holds no more elements than its capacity.
WithinCapacity == ~busy => Len(cache.treeSet) <= Capacity

\* Whatever the order of the responses, the context kept for an id is the one the
\* server gave with the timestamp kept for it.
ContextOfTimestamp == ContextsMatch(cache)

\* A response that arrives late does not bring back an older context: as long as
\* an id stays in the cache its timestamp does not go back.
NeverOlder ==
    [][\A i \in DOMAIN cache.idMap \cap DOMAIN cache'.idMap :
          cache'.idMap[i].timestamp >= cache.idMap[i].timestamp]_vars

=============================================================================
