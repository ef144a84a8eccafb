----------------------- MODULE QueryContextCacheProofs -----------------------
(***************************************************************************)
(* Proofs about QueryContextCache, for any ids, priorities, timestamps,    *)
(* capacity and responses.                                                 *)
(***************************************************************************)
EXTENDS QueryContextCache, SequenceTheorems, FiniteSetTheorems, TLAPS

-----------------------------------------------------------------------------
(* Intervals and sequences                                                 *)

\* The number of elements of an initial interval.
LEMMA IntervalCardinality ==
    ASSUME NEW n \in Nat
    PROVE  IsFiniteSet(1..n) /\ Cardinality(1..n) = n
<1>1. 1 \in Int /\ n \in Int
  OBVIOUS
<1>2. IsFiniteSet(1..n) /\ Cardinality(1..n) = IF 1 > n THEN 0 ELSE n - 1 + 1
  BY <1>1, FS_Interval
<1> QED
  BY <1>2

\* Inserting an element at a position shifts what stands there and behind it.
LEMMA InsertAtProperties ==
    ASSUME NEW S, NEW s \in Seq(S), NEW e \in S, NEW n \in 1..(Len(s) + 1)
    PROVE  /\ InsertAt(s, n, e) \in Seq(S)
           /\ Len(InsertAt(s, n, e)) = Len(s) + 1
           /\ \A i \in 1..(Len(s) + 1) :
                 InsertAt(s, n, e)[i] = IF i < n THEN s[i] ELSE IF i = n THEN e ELSE s[i - 1]
<1> DEFINE before == SubSeq(s, 1, n - 1)
           after  == SubSeq(s, n, Len(s))
<1>1. Len(s) \in Nat /\ \A i \in 1..Len(s) : s[i] \in S
  BY LenProperties, ElementOfSeq
<1>2. /\ before \in Seq(S)
      /\ Len(before) = n - 1
      /\ \A i \in 1..(n - 1) : before[i] = s[i]
  <2>1. \A i \in 1..(n - 1) : s[i] \in S
    BY <1>1
  <2> QED
    BY <1>1, <2>1, SubSeqProperties
<1>3. /\ after \in Seq(S)
      /\ Len(after) = Len(s) - n + 1
      /\ \A i \in 1..(Len(s) - n + 1) : after[i] = s[n + i - 1]
  <2>1. \A i \in n..Len(s) : s[i] \in S
    BY <1>1
  <2> QED
    BY <1>1, <2>1, SubSeqProperties
<1>4. /\ <<e>> \in Seq(S)
      /\ Len(<<e>>) = 1
      /\ <<e>>[1] = e
  OBVIOUS
<1> DEFINE front == before \o <<e>>
<1> HIDE DEF before, after
<1>5. /\ front \in Seq(S)
      /\ Len(front) = n
      /\ \A i \in 1..n : front[i] = IF i < n THEN s[i] ELSE e
  BY <1>1, <1>2, <1>4, ConcatProperties
<1> HIDE DEF front
<1>6. /\ front \o after \in Seq(S)
      /\ Len(front \o after) = Len(s) + 1
      /\ \A i \in 1..(Len(s) + 1) :
            (front \o after)[i] = IF i <= n THEN front[i] ELSE after[i - n]
  <2>1. /\ front \o after \in Seq(S)
        /\ Len(front \o after) = Len(front) + Len(after)
        /\ \A i \in 1..(Len(front) + Len(after)) :
              (front \o after)[i] = IF i <= Len(front) THEN front[i] ELSE after[i - Len(front)]
    BY <1>3, <1>5, ConcatProperties
  <2>2. Len(front) + Len(after) = Len(s) + 1
    BY <1>1, <1>3, <1>5
  <2> QED
    BY <1>5, <2>1, <2>2
<1>7. InsertAt(s, n, e) = front \o after
  BY DEF InsertAt, front, before, after
<1> QED
  BY <1>1, <1>3, <1>5, <1>6, <1>7

\* Removing a position closes the gap.
LEMMA RemoveAtProperties ==
    ASSUME NEW S, NEW s \in Seq(S), NEW n \in 1..Len(s)
    PROVE  /\ RemoveAt(s, n) \in Seq(S)
           /\ Len(RemoveAt(s, n)) = Len(s) - 1
           /\ \A i \in 1..(Len(s) - 1) :
                 RemoveAt(s, n)[i] = IF i < n THEN s[i] ELSE s[i + 1]
<1> DEFINE before == SubSeq(s, 1, n - 1)
           after  == SubSeq(s, n + 1, Len(s))
<1>1. Len(s) \in Nat /\ \A i \in 1..Len(s) : s[i] \in S
  BY LenProperties, ElementOfSeq
<1>2. /\ before \in Seq(S)
      /\ Len(before) = n - 1
      /\ \A i \in 1..(n - 1) : before[i] = s[i]
  <2>1. \A i \in 1..(n - 1) : s[i] \in S
    BY <1>1
  <2> QED
    BY <1>1, <2>1, SubSeqProperties
<1>3. /\ after \in Seq(S)
      /\ Len(after) = Len(s) - n
      /\ \A i \in 1..(Len(s) - n) : after[i] = s[n + i]
  <2>1. \A i \in (n + 1)..Len(s) : s[i] \in S
    BY <1>1
  <2> QED
    BY <1>1, <2>1, SubSeqProperties
<1> HIDE DEF before, after
<1>4. /\ before \o after \in Seq(S)
      /\ Len(before \o after) = Len(s) - 1
      /\ \A i \in 1..(Len(s) - 1) :
            (before \o after)[i] = IF i <= n - 1 THEN before[i] ELSE after[i - (n - 1)]
  <2>1. /\ before \o after \in Seq(S)
        /\ Len(before \o after) = Len(before) + Len(after)
        /\ \A i \in 1..(Len(before) + Len(after)) :
              (before \o after)[i] = IF i <= Len(before) THEN before[i] ELSE after[i - Len(before)]
    BY <1>2, <1>3, ConcatProperties
  <2>2. Len(before) + Len(after) = Len(s) - 1
    BY <1>1, <1>2, <1>3
  <2> QED
    BY <1>2, <2>1, <2>2
<1>5. RemoveAt(s, n) = before \o after
  BY DEF RemoveAt, before, after
<1> QED
  BY <1>1, <1>2, <1>3, <1>4, <1>5

\* Deleting the element at a position of a sequence without repetitions.
LEMMA RemoveFirstIsRemoveAt ==
    ASSUME NEW S, NEW s \in Seq(S), NEW n \in 1..Len(s),
           \A i, j \in 1..Len(s) : s[i] = s[j] => i = j
    PROVE  RemoveFirst(s, s[n]) = RemoveAt(s, n)
<1> DEFINE I == {i \in 1..Len(s) : s[i] = s[n]}
<1>1. I = {n}
  OBVIOUS
<1>2. Min(I) = n
  BY <1>1 DEF Min
<1>3. SelectInSeq(s, LAMBDA v : v = s[n]) = n
  BY <1>1, <1>2 DEF SelectInSeq
<1> QED
  BY <1>3 DEF RemoveFirst

-----------------------------------------------------------------------------
(* The sorted set                                                          *)

TreeOK(t) ==
    /\ t \in Seq(QueryContextElement)
    /\ \A i, j \in 1..Len(t) : t[i].id = t[j].id => i = j
    /\ \A i, j \in 1..Len(t) : i < j => t[i].priority <= t[j].priority

\* The elements of a sequence are the values at its positions.
LEMMA SeqElements ==
    ASSUME NEW S, NEW s \in Seq(S)
    PROVE  /\ Len(s) \in Nat
           /\ DOMAIN s = 1..Len(s)
           /\ \A x \in Range(s) : \E i \in 1..Len(s) : x = s[i]
           /\ \A i \in 1..Len(s) : s[i] \in Range(s) /\ s[i] \in S
<1>1. Len(s) \in Nat /\ DOMAIN s = 1..Len(s)
  BY LenProperties
<1>2. \A x \in Range(s) : \E i \in DOMAIN s : x = s[i]
  BY DEF Range
<1>3. \A i \in DOMAIN s : s[i] \in Range(s)
  BY DEF Range
<1>4. \A i \in 1..Len(s) : s[i] \in S
  BY ElementOfSeq
<1> QED
  BY <1>1, <1>2, <1>3, <1>4

\* Priorities are natural numbers.
LEMMA PriorityIsNat == \A e \in QueryContextElement : e.priority \in Nat
BY NumbersAssumption DEF QueryContextElement

\* Set.delete of an element that the sorted set holds.
LEMMA TreeRemove ==
    ASSUME NEW t, TreeOK(t), NEW e \in Range(t)
    PROVE  /\ TreeOK(RemoveFirst(t, e))
           /\ Range(RemoveFirst(t, e)) = Range(t) \ {e}
           /\ Len(RemoveFirst(t, e)) = Len(t) - 1
<1>1. /\ t \in Seq(QueryContextElement)
      /\ Len(t) \in Nat
      /\ \A x \in Range(t) : \E i \in 1..Len(t) : x = t[i]
      /\ \A i \in 1..Len(t) : t[i] \in Range(t)
      /\ \A i, j \in 1..Len(t) : t[i] = t[j] => i = j
  <2>1. t \in Seq(QueryContextElement)
    BY DEF TreeOK
  <2>2. \A i, j \in 1..Len(t) : t[i] = t[j] => i = j
    BY DEF TreeOK
  <2> QED
    BY <2>1, <2>2, SeqElements
<1>2. PICK n \in 1..Len(t) : t[n] = e
  BY <1>1
<1> DEFINE r == RemoveAt(t, n)
<1>3. RemoveFirst(t, e) = r
  BY <1>1, <1>2, RemoveFirstIsRemoveAt
<1>4. /\ r \in Seq(QueryContextElement)
      /\ Len(r) = Len(t) - 1
      /\ \A i \in 1..(Len(t) - 1) : r[i] = IF i < n THEN t[i] ELSE t[i + 1]
  BY <1>1, RemoveAtProperties
<1> HIDE DEF r
<1> DEFINE at(i) == IF i < n THEN i ELSE i + 1
<1>5. /\ \A i \in 1..Len(r) : at(i) \in 1..Len(t) /\ at(i) # n /\ r[i] = t[at(i)]
      /\ \A i, j \in 1..Len(r) : at(i) = at(j) => i = j
      /\ \A i, j \in 1..Len(r) : i < j => at(i) < at(j)
  BY <1>1, <1>4
<1> HIDE DEF at
<1>6. TreeOK(r)
  <2>1. \A i, j \in 1..Len(r) : r[i].id = r[j].id => i = j
    <3> SUFFICES ASSUME NEW i \in 1..Len(r), NEW j \in 1..Len(r), r[i].id = r[j].id
                 PROVE  i = j
      OBVIOUS
    <3>1. t[at(i)].id = t[at(j)].id
      BY <1>5
    <3> QED
      BY <1>5, <3>1 DEF TreeOK
  <2>2. \A i, j \in 1..Len(r) : i < j => r[i].priority <= r[j].priority
    <3> SUFFICES ASSUME NEW i \in 1..Len(r), NEW j \in 1..Len(r), i < j
                 PROVE  r[i].priority <= r[j].priority
      OBVIOUS
    <3>1. t[at(i)].priority <= t[at(j)].priority
      BY <1>5 DEF TreeOK
    <3> QED
      BY <1>5, <3>1
  <2> QED
    BY <1>4, <2>1, <2>2 DEF TreeOK
<1>7. /\ \A x \in Range(r) : \E i \in 1..(Len(t) - 1) : x = r[i]
      /\ \A i \in 1..(Len(t) - 1) : r[i] \in Range(r)
  BY <1>4, SeqElements
<1>8. \A x \in Range(r) : x \in Range(t) /\ x # e
  <2> SUFFICES ASSUME NEW i \in 1..Len(r)
               PROVE  r[i] \in Range(t) /\ r[i] # e
    BY <1>4, <1>7
  <2> QED
    BY <1>1, <1>2, <1>5
<1>9. \A x \in Range(t) : x # e => x \in Range(r)
  <2> SUFFICES ASSUME NEW k \in 1..Len(t), t[k] # e
               PROVE  t[k] \in Range(r)
    BY <1>1
  <2>1. CASE k < n
    BY <1>1, <1>4, <1>7, <2>1, SMTT(20)
  <2>2. CASE k > n
    <3>1. k - 1 \in 1..(Len(t) - 1) /\ r[k - 1] = t[k]
      BY <1>1, <1>4, <2>2
    <3> QED
      BY <1>7, <3>1
  <2> QED
    BY <1>1, <1>2, <2>1, <2>2
<1> QED
  BY <1>3, <1>4, <1>6, <1>8, <1>9

\* In a sorted set the elements whose priority is at most p are the first ones.
LEMMA SortedPrefix ==
    ASSUME NEW t, TreeOK(t), NEW p \in Nat
    PROVE  LET k == Cardinality({i \in DOMAIN t : t[i].priority <= p})
           IN  /\ k \in 0..Len(t)
               /\ \A i \in 1..Len(t) : t[i].priority <= p <=> i <= k
<1> DEFINE P == {i \in 1..Len(t) : t[i].priority <= p}
           k == Cardinality(P)
<1>1. /\ Len(t) \in Nat
      /\ DOMAIN t = 1..Len(t)
      /\ \A i \in 1..Len(t) : t[i].priority \in Nat
  BY SeqElements, PriorityIsNat DEF TreeOK
<1>2. /\ IsFiniteSet(1..Len(t))
      /\ Cardinality(1..Len(t)) = Len(t)
  BY <1>1, IntervalCardinality
<1>3. /\ IsFiniteSet(P)
      /\ k \in Nat
      /\ k <= Len(t)
  <2>1. P \subseteq 1..Len(t)
    OBVIOUS
  <2> QED
    BY <1>2, <2>1, FS_Subset, FS_CardinalityType
<1>4. ASSUME NEW i \in 1..Len(t), t[i].priority <= p
      PROVE  i <= k
  <2>1. 1..i \subseteq P
    BY <1>1, <1>4 DEF TreeOK
  <2>2. Cardinality(1..i) = i
    BY <1>1, IntervalCardinality
  <2> QED
    BY <1>3, <2>1, <2>2, FS_Subset
<1>5. ASSUME NEW i \in 1..Len(t), ~(t[i].priority <= p)
      PROVE  ~(i <= k)
  <2>1. P \subseteq 1..(i - 1)
    BY <1>1, <1>5 DEF TreeOK
  <2>2. IsFiniteSet(1..(i - 1)) /\ Cardinality(1..(i - 1)) = i - 1
    <3>1. i - 1 \in Nat
      BY <1>1
    <3> QED
      BY <3>1, IntervalCardinality
  <2>3. k <= i - 1
    BY <2>1, <2>2, FS_Subset
  <2> HIDE DEF k
  <2>4. i \in Nat /\ k \in Nat
    BY <1>1, <1>3
  <2> QED
    BY <2>3, <2>4
<1>6. {i \in DOMAIN t : t[i].priority <= p} = P
  BY <1>1
<1>7. k \in 0..Len(t) /\ \A i \in 1..Len(t) : t[i].priority <= p <=> i <= k
  BY <1>1, <1>3, <1>4, <1>5
<1> QED
  BY <1>6, <1>7, Zenon

\* Adding an element of a new id to the sorted set and sorting again.
LEMMA TreeAdd ==
    ASSUME NEW t, TreeOK(t), NEW e \in QueryContextElement,
           \A x \in Range(t) : x.id # e.id
    PROVE  /\ TreeOK(AddSorted(t, e))
           /\ Range(AddSorted(t, e)) = Range(t) \cup {e}
<1> DEFINE k == Cardinality({i \in DOMAIN t : t[i].priority <= e.priority})
           n == k + 1
           a == InsertAt(t, n, e)
<1>1. /\ t \in Seq(QueryContextElement)
      /\ Len(t) \in Nat
      /\ \A x \in Range(t) : \E i \in 1..Len(t) : x = t[i]
      /\ \A i \in 1..Len(t) : t[i] \in Range(t)
      /\ \A i \in 1..Len(t) : t[i].priority \in Nat
      /\ e.priority \in Nat
  <2>1. t \in Seq(QueryContextElement)
    BY DEF TreeOK
  <2>2. \A i \in 1..Len(t) : t[i] \in QueryContextElement
    BY <2>1, SeqElements
  <2> QED
    BY <2>1, <2>2, SeqElements, PriorityIsNat
<1>2. /\ k \in 0..Len(t)
      /\ \A i \in 1..Len(t) : t[i].priority <= e.priority <=> i <= k
  BY <1>1, SortedPrefix
<1> HIDE DEF k
<1>3. /\ n \in 1..(Len(t) + 1)
      /\ \A i \in 1..Len(t) : t[i].priority <= e.priority <=> i < n
  BY <1>1, <1>2
<1>4. AddSorted(t, e) = a
  BY DEF AddSorted, k
<1> HIDE DEF n
<1>5. /\ a \in Seq(QueryContextElement)
      /\ Len(a) = Len(t) + 1
      /\ \A i \in 1..(Len(t) + 1) :
            a[i] = IF i < n THEN t[i] ELSE IF i = n THEN e ELSE t[i - 1]
  BY <1>1, <1>3, InsertAtProperties
<1> HIDE DEF a
<1> DEFINE at(i) == IF i < n THEN i ELSE i - 1
<1>6. /\ n \in 1..Len(a) /\ a[n] = e
      /\ \A i \in 1..Len(a) : i # n => at(i) \in 1..Len(t) /\ a[i] = t[at(i)]
      /\ \A i, j \in 1..Len(a) : i # n /\ j # n /\ at(i) = at(j) => i = j
      /\ \A i, j \in 1..Len(a) : i # n /\ j # n /\ i < j => at(i) < at(j)
      /\ \A i \in 1..Len(a) : i # n => (at(i) < n <=> i < n)
  BY <1>1, <1>3, <1>5
<1> HIDE DEF at
<1>7. \A i, j \in 1..Len(a) : a[i].id = a[j].id => i = j
  <2> SUFFICES ASSUME NEW i \in 1..Len(a), NEW j \in 1..Len(a), a[i].id = a[j].id
               PROVE  i = j
    OBVIOUS
  <2>1. \A m \in 1..Len(a) : m # n => a[m].id # e.id
    BY <1>1, <1>6
  <2>2. CASE i = n \/ j = n
    BY <1>6, <2>1, <2>2
  <2>3. CASE i # n /\ j # n
    <3>1. t[at(i)].id = t[at(j)].id
      BY <1>6, <2>3
    <3> QED
      BY <1>6, <2>3, <3>1 DEF TreeOK
  <2> QED
    BY <2>2, <2>3
<1>8. \A i, j \in 1..Len(a) : i < j => a[i].priority <= a[j].priority
  <2> SUFFICES ASSUME NEW i \in 1..Len(a), NEW j \in 1..Len(a), i < j
               PROVE  a[i].priority <= a[j].priority
    OBVIOUS
  <2>1. CASE i # n /\ j # n
    <3>1. t[at(i)].priority <= t[at(j)].priority
      BY <1>6, <2>1 DEF TreeOK
    <3> QED
      BY <1>6, <2>1, <3>1
  <2>2. CASE i = n
    <3>1. j # n /\ ~(at(j) < n)
      BY <1>3, <1>5, <1>6, <2>2
    <3>2. ~(t[at(j)].priority <= e.priority)
      BY <1>3, <1>6, <3>1
    <3>3. e.priority <= t[at(j)].priority
      BY <1>1, <1>6, <3>1, <3>2
    <3> QED
      BY <1>6, <2>2, <3>1, <3>3
  <2>3. CASE j = n
    <3>1. i # n /\ at(i) < n
      BY <1>3, <1>5, <1>6, <2>3
    <3>2. t[at(i)].priority <= e.priority
      BY <1>3, <1>6, <3>1
    <3> QED
      BY <1>6, <2>3, <3>1, <3>2
  <2> QED
    BY <2>1, <2>2, <2>3
<1>9. /\ \A x \in Range(a) : \E i \in 1..Len(a) : x = a[i]
      /\ \A i \in 1..Len(a) : a[i] \in Range(a)
  BY <1>5, SeqElements
<1>10. \A x \in Range(a) : x \in Range(t) \cup {e}
  <2> SUFFICES ASSUME NEW i \in 1..Len(a)
               PROVE  a[i] \in Range(t) \cup {e}
    BY <1>9
  <2> QED
    BY <1>1, <1>6
<1>11. e \in Range(a)
  BY <1>6, <1>9
<1>12. \A x \in Range(t) : x \in Range(a)
  <2> SUFFICES ASSUME NEW m \in 1..Len(t)
               PROVE  t[m] \in Range(a)
    BY <1>1
  <2>1. CASE m < n
    <3>1. m \in 1..Len(a) /\ a[m] = t[m]
      BY <1>1, <1>3, <1>5, <2>1
    <3> QED
      BY <1>9, <3>1
  <2>2. CASE ~(m < n)
    <3>1. m + 1 \in 1..Len(a) /\ a[m + 1] = t[m]
      BY <1>1, <1>3, <1>5, <2>2
    <3> QED
      BY <1>9, <3>1
  <2> QED
    BY <2>1, <2>2
<1> QED
  BY <1>4, <1>5, <1>7, <1>8, <1>10, <1>11, <1>12 DEF TreeOK

-----------------------------------------------------------------------------
(* The three structures                                                    *)

Consistent(c) ==
    /\ WellTyped(c)
    /\ OneElementPerId(c)
    /\ IdMapAgrees(c)
    /\ PriorityMapAgrees(c)
    /\ Sorted(c)
    /\ ContextsMatch(c)

\* The sorted set of a consistent cache, and the types of its elements.
LEMMA ConsistentTree ==
    ASSUME NEW c, Consistent(c)
    PROVE  /\ TreeOK(c.treeSet)
           /\ Elements(c) \subseteq QueryContextElement
           /\ \A e \in Elements(c) : e.id \in Ids /\ e.priority \in Priorities
<1>1. c.treeSet \in Seq(QueryContextElement)
  BY DEF Consistent, WellTyped
<1>2. DOMAIN c.treeSet = 1..Len(c.treeSet)
  BY <1>1, SeqElements
<1>3. TreeOK(c.treeSet)
  BY <1>1, <1>2 DEF Consistent, OneElementPerId, Sorted, TreeOK
<1>4. Elements(c) \subseteq QueryContextElement
  BY <1>1, SeqElements DEF Elements
<1> QED
  BY <1>3, <1>4 DEF QueryContextElement

\* What a sorted set that is in order says of a cache that holds it.
LEMMA TreeConsistent ==
    ASSUME NEW c, TreeOK(c.treeSet)
    PROVE  OneElementPerId(c) /\ Sorted(c)
<1>1. DOMAIN c.treeSet = 1..Len(c.treeSet)
  BY SeqElements DEF TreeOK
<1> QED
  BY <1>1 DEF TreeOK, OneElementPerId, Sorted

\* removeQCE takes an element out of all three structures.
LEMMA RemoveConsistent ==
    ASSUME NEW c, Consistent(c), NEW qce \in Elements(c)
    PROVE  /\ Consistent(removeQCE(c, qce))
           /\ Elements(removeQCE(c, qce)) = Elements(c) \ {qce}
           /\ Len(removeQCE(c, qce).treeSet) = Len(c.treeSet) - 1
           /\ DOMAIN removeQCE(c, qce).idMap = DOMAIN c.idMap \ {qce.id}
           /\ \A i \in DOMAIN c.idMap \ {qce.id} : removeQCE(c, qce).idMap[i] = c.idMap[i]
<1> DEFINE d == removeQCE(c, qce)
<1>1. /\ TreeOK(c.treeSet)
      /\ \A e \in Elements(c) : e \in QueryContextElement
  BY ConsistentTree
<1>2. /\ d.idMap = MapDelete(c.idMap, qce.id)
      /\ d.priorityMap = MapDelete(c.priorityMap, qce.priority)
      /\ d.treeSet = RemoveFirst(c.treeSet, qce)
      /\ d = [idMap |-> d.idMap, priorityMap |-> d.priorityMap, treeSet |-> d.treeSet]
  BY DEF removeQCE
<1> HIDE DEF d
<1>3. /\ TreeOK(d.treeSet)
      /\ Elements(d) = Elements(c) \ {qce}
      /\ Len(d.treeSet) = Len(c.treeSet) - 1
  BY <1>1, <1>2, TreeRemove DEF Elements
<1>4. /\ DOMAIN d.idMap = DOMAIN c.idMap \ {qce.id}
      /\ d.idMap = [i \in DOMAIN d.idMap |-> d.idMap[i]]
      /\ \A i \in DOMAIN d.idMap : d.idMap[i] = c.idMap[i]
  BY <1>2 DEF MapDelete, Restrict
<1>5. /\ DOMAIN d.priorityMap = DOMAIN c.priorityMap \ {qce.priority}
      /\ d.priorityMap = [p \in DOMAIN d.priorityMap |-> d.priorityMap[p]]
      /\ \A p \in DOMAIN d.priorityMap : d.priorityMap[p] = c.priorityMap[p]
  BY <1>2 DEF MapDelete, Restrict
<1>6. WellTyped(d)
  BY <1>2, <1>3, <1>4, <1>5 DEF Consistent, WellTyped, TreeOK
<1>7. OneElementPerId(d) /\ Sorted(d)
  BY <1>3, TreeConsistent
<1>8. IdMapAgrees(d)
  <2>1. \A e \in Elements(d) : e.id # qce.id
    BY <1>3 DEF Consistent, IdMapAgrees
  <2> QED
    BY <1>3, <1>4, <2>1 DEF Consistent, IdMapAgrees
<1>9. PriorityMapAgrees(d)
  BY <1>3, <1>5 DEF Consistent, PriorityMapAgrees
<1>10. ContextsMatch(d)
  BY <1>3 DEF Consistent, ContextsMatch
<1> QED
  BY <1>3, <1>4, <1>6, <1>7, <1>8, <1>9, <1>10 DEF Consistent, d

\* addQCE puts an element of a new id into all three structures.
LEMMA AddConsistent ==
    ASSUME NEW c, Consistent(c), NEW qce \in ServerElement, qce.id \notin DOMAIN c.idMap
    PROVE  /\ Consistent(addQCE(c, qce))
           /\ DOMAIN addQCE(c, qce).idMap = DOMAIN c.idMap \cup {qce.id}
           /\ addQCE(c, qce).idMap[qce.id] = qce
           /\ \A i \in DOMAIN c.idMap : addQCE(c, qce).idMap[i] = c.idMap[i]
<1> DEFINE d == addQCE(c, qce)
<1>1. /\ TreeOK(c.treeSet)
      /\ \A e \in Elements(c) : e \in QueryContextElement
      /\ qce \in QueryContextElement /\ qce.context = qce.timestamp
      /\ qce.id \in Ids /\ qce.priority \in Priorities
  BY ConsistentTree DEF ServerElement, QueryContextElement
<1>2. /\ d.idMap = MapSet(c.idMap, qce.id, qce)
      /\ d.priorityMap = MapSet(c.priorityMap, qce.priority, qce)
      /\ d.treeSet = AddSorted(c.treeSet, qce)
      /\ d = [idMap |-> d.idMap, priorityMap |-> d.priorityMap, treeSet |-> d.treeSet]
  BY DEF addQCE
<1> HIDE DEF d
<1>3. /\ TreeOK(d.treeSet)
      /\ Elements(d) = Elements(c) \cup {qce}
  <2>1. \A x \in Range(c.treeSet) : x.id # qce.id
    BY DEF Consistent, IdMapAgrees, Elements
  <2> QED
    BY <1>1, <1>2, <2>1, TreeAdd DEF Elements
<1>4. /\ DOMAIN d.idMap = DOMAIN c.idMap \cup {qce.id}
      /\ d.idMap = [i \in DOMAIN d.idMap |-> d.idMap[i]]
      /\ d.idMap[qce.id] = qce
      /\ \A i \in DOMAIN c.idMap : d.idMap[i] = c.idMap[i]
  BY <1>2 DEF MapSet
<1>5. /\ DOMAIN d.priorityMap = DOMAIN c.priorityMap \cup {qce.priority}
      /\ d.priorityMap = [p \in DOMAIN d.priorityMap |-> d.priorityMap[p]]
      /\ \A p \in DOMAIN d.priorityMap :
            d.priorityMap[p] = IF p = qce.priority THEN qce ELSE c.priorityMap[p]
  BY <1>2 DEF MapSet
<1>6. WellTyped(d)
  BY <1>1, <1>2, <1>3, <1>4, <1>5 DEF Consistent, WellTyped, TreeOK
<1>7. OneElementPerId(d) /\ Sorted(d)
  BY <1>3, TreeConsistent
<1>8. IdMapAgrees(d)
  BY <1>3, <1>4 DEF Consistent, IdMapAgrees
<1>9. PriorityMapAgrees(d)
  BY <1>3, <1>5 DEF Consistent, PriorityMapAgrees
<1>10. ContextsMatch(d)
  BY <1>1, <1>3 DEF Consistent, ContextsMatch
<1> QED
  BY <1>4, <1>6, <1>7, <1>8, <1>9, <1>10 DEF Consistent, d

\* Overwriting the fields of a cached element, in all three structures at once.
LEMMA OverwriteConsistent ==
    ASSUME NEW c, Consistent(c), NEW new \in ServerElement,
           new.id \in DOMAIN c.idMap, c.idMap[new.id].priority = new.priority
    PROVE  /\ Consistent(overwrite(c, c.idMap[new.id], new))
           /\ DOMAIN overwrite(c, c.idMap[new.id], new).idMap = DOMAIN c.idMap
           /\ \A i \in DOMAIN c.idMap :
                 overwrite(c, c.idMap[new.id], new).idMap[i] =
                    IF i = new.id THEN new ELSE c.idMap[i]
<1> DEFINE qce == c.idMap[new.id]
           d == overwrite(c, qce, new)
           Update(e) == IF e = qce THEN new ELSE e
<1>1. /\ TreeOK(c.treeSet)
      /\ \A e \in Elements(c) : e \in QueryContextElement
      /\ qce \in Elements(c)
      /\ qce.id = new.id
      /\ new \in QueryContextElement /\ new.context = new.timestamp
  BY ConsistentTree DEF Consistent, IdMapAgrees, ServerElement
<1>2. [qce EXCEPT !.timestamp = new.timestamp, !.context = new.context] = new
  BY <1>1 DEF QueryContextElement
<1>3. /\ d.idMap = [k \in DOMAIN c.idMap |-> Update(c.idMap[k])]
      /\ d.priorityMap = [k \in DOMAIN c.priorityMap |-> Update(c.priorityMap[k])]
      /\ d.treeSet = [i \in DOMAIN c.treeSet |-> Update(c.treeSet[i])]
      /\ d = [idMap |-> d.idMap, priorityMap |-> d.priorityMap, treeSet |-> d.treeSet]
  BY <1>2 DEF overwrite
<1>4. /\ \A e \in Elements(c) : Update(e) \in QueryContextElement
      /\ \A e \in Elements(c) : Update(e).id = e.id /\ Update(e).priority = e.priority
  BY <1>1
<1> HIDE DEF d
<1>5. /\ c.treeSet \in Seq(QueryContextElement)
      /\ Len(c.treeSet) \in Nat
      /\ DOMAIN c.treeSet = 1..Len(c.treeSet)
      /\ \A x \in Elements(c) : \E i \in 1..Len(c.treeSet) : x = c.treeSet[i]
      /\ \A i \in 1..Len(c.treeSet) : c.treeSet[i] \in Elements(c)
  BY <1>1, SeqElements DEF TreeOK, Elements
<1>6. /\ d.treeSet \in Seq(QueryContextElement)
      /\ Len(d.treeSet) = Len(c.treeSet)
      /\ \A i \in 1..Len(c.treeSet) : d.treeSet[i] = Update(c.treeSet[i])
  <2>1. d.treeSet \in [1..Len(c.treeSet) -> QueryContextElement]
    BY <1>3, <1>4, <1>5
  <2>2. d.treeSet \in Seq(QueryContextElement)
    BY <1>5, <2>1, SeqDef
  <2>3. DOMAIN d.treeSet = 1..Len(d.treeSet) /\ Len(d.treeSet) \in Nat
    BY <2>2, SeqElements
  <2>4. Len(d.treeSet) = Len(c.treeSet)
    BY <1>5, <2>1, <2>3
  <2> QED
    BY <1>3, <1>5, <2>2, <2>4
<1>7. TreeOK(d.treeSet)
  <2>1. \A i \in 1..Len(c.treeSet) : /\ d.treeSet[i].id = c.treeSet[i].id
                                     /\ d.treeSet[i].priority = c.treeSet[i].priority
    BY <1>4, <1>5, <1>6
  <2> QED
    BY <1>1, <1>6, <2>1 DEF TreeOK
<1>8. /\ \A x \in Elements(d) : \E e \in Elements(c) : x = Update(e)
      /\ \A e \in Elements(c) : Update(e) \in Elements(d)
  <2>1. /\ \A x \in Elements(d) : \E i \in 1..Len(d.treeSet) : x = d.treeSet[i]
        /\ \A i \in 1..Len(d.treeSet) : d.treeSet[i] \in Elements(d)
    BY <1>6, SeqElements DEF Elements
  <2>2. \A x \in Elements(d) : \E e \in Elements(c) : x = Update(e)
    <3> SUFFICES ASSUME NEW x \in Elements(d) PROVE \E e \in Elements(c) : x = Update(e)
      OBVIOUS
    <3>1. PICK i \in 1..Len(c.treeSet) : x = d.treeSet[i]
      BY <1>6, <2>1
    <3>2. x = Update(c.treeSet[i]) /\ c.treeSet[i] \in Elements(c)
      BY <1>5, <1>6, <3>1
    <3> HIDE DEF Update
    <3> QED
      BY <3>2
  <2>3. \A e \in Elements(c) : Update(e) \in Elements(d)
    <3> SUFFICES ASSUME NEW e \in Elements(c) PROVE Update(e) \in Elements(d)
      OBVIOUS
    <3>1. PICK i \in 1..Len(c.treeSet) : e = c.treeSet[i]
      BY <1>5
    <3>2. Update(e) = d.treeSet[i] /\ d.treeSet[i] \in Elements(d)
      BY <1>6, <2>1, <3>1
    <3> HIDE DEF Update
    <3> QED
      BY <3>2
  <2> QED
    BY <2>2, <2>3
<1>9. \A i \in DOMAIN c.idMap : d.idMap[i] = IF i = new.id THEN new ELSE c.idMap[i]
  BY <1>1, <1>3 DEF Consistent, IdMapAgrees
<1>10. WellTyped(d)
  BY <1>3, <1>6 DEF Consistent, WellTyped
<1>11. OneElementPerId(d) /\ Sorted(d)
  BY <1>7, TreeConsistent
<1>12. IdMapAgrees(d)
  <2>1. DOMAIN d.idMap = DOMAIN c.idMap /\ \A i \in DOMAIN c.idMap : d.idMap[i] = Update(c.idMap[i])
    BY <1>3
  <2>2. ASSUME NEW x \in Elements(d)
        PROVE  x.id \in DOMAIN d.idMap /\ d.idMap[x.id] = x
    <3>1. PICK e \in Elements(c) : x = Update(e)
      BY <1>8
    <3>2. e.id \in DOMAIN c.idMap /\ c.idMap[e.id] = e
      BY DEF Consistent, IdMapAgrees
    <3> QED
      BY <1>4, <2>1, <3>1, <3>2
  <2>3. ASSUME NEW i \in DOMAIN d.idMap
        PROVE  d.idMap[i] \in Elements(d) /\ d.idMap[i].id = i
    <3>1. c.idMap[i] \in Elements(c) /\ c.idMap[i].id = i
      BY <2>1 DEF Consistent, IdMapAgrees
    <3> QED
      BY <1>4, <1>8, <2>1, <3>1
  <2> QED
    BY <2>2, <2>3 DEF IdMapAgrees
<1>13. PriorityMapAgrees(d)
  <2>1. DOMAIN d.priorityMap = DOMAIN c.priorityMap
        /\ \A p \in DOMAIN c.priorityMap : d.priorityMap[p] = Update(c.priorityMap[p])
    BY <1>3
  <2> QED
    BY <1>4, <1>8, <2>1 DEF Consistent, PriorityMapAgrees
<1>14. ContextsMatch(d)
  BY <1>1, <1>8 DEF Consistent, ContextsMatch
<1> QED
  BY <1>3, <1>9, <1>10, <1>11, <1>12, <1>13, <1>14 DEF Consistent, d

\* Two timestamps of cached elements can be compared.
LEMMA TimestampIsNat == \A e \in QueryContextElement : e.timestamp \in Nat
BY NumbersAssumption DEF QueryContextElement

\* replaceQCE, of the element with the same id or of another one in favour of a
\* new id, keeps the structures consistent and changes no third element.
LEMMA ReplaceConsistent ==
    ASSUME NEW c, Consistent(c), NEW old \in Elements(c), NEW new \in ServerElement,
           new.id \in DOMAIN c.idMap => new.id = old.id
    PROVE  /\ Consistent(replaceQCE(c, old, new))
           /\ \A i \in DOMAIN c.idMap \cap DOMAIN replaceQCE(c, old, new).idMap :
                 replaceQCE(c, old, new).idMap[i] = IF i = new.id THEN new ELSE c.idMap[i]
<1> DEFINE d == removeQCE(c, old)
<1>1. /\ Consistent(d)
      /\ DOMAIN d.idMap = DOMAIN c.idMap \ {old.id}
      /\ \A i \in DOMAIN c.idMap \ {old.id} : d.idMap[i] = c.idMap[i]
  BY RemoveConsistent
<1> HIDE DEF d
<1>2. new.id \notin DOMAIN d.idMap
  BY <1>1
<1>3. /\ Consistent(addQCE(d, new))
      /\ DOMAIN addQCE(d, new).idMap = DOMAIN d.idMap \cup {new.id}
      /\ addQCE(d, new).idMap[new.id] = new
      /\ \A i \in DOMAIN d.idMap : addQCE(d, new).idMap[i] = d.idMap[i]
  BY <1>1, <1>2, AddConsistent
<1>4. replaceQCE(c, old, new) = addQCE(d, new)
  BY DEF replaceQCE, d
<1> QED
  BY <1>1, <1>3, <1>4

\* merge keeps the structures consistent, and brings back no older timestamp for
\* an id that stays in the cache.
LEMMA MergeConsistent ==
    ASSUME NEW c, Consistent(c), NEW new \in ServerElement
    PROVE  /\ Consistent(merge(c, new))
           /\ \A i \in DOMAIN c.idMap \cap DOMAIN merge(c, new).idMap :
                 merge(c, new).idMap[i].timestamp >= c.idMap[i].timestamp
<1>1. /\ new \in QueryContextElement
      /\ new.timestamp \in Nat
      /\ \A i \in DOMAIN c.idMap : /\ c.idMap[i] \in Elements(c)
                                   /\ c.idMap[i].id = i
                                   /\ c.idMap[i].timestamp \in Nat
  BY ConsistentTree, TimestampIsNat DEF Consistent, IdMapAgrees, ServerElement
<1>2. CASE new.id \in DOMAIN c.idMap
  <2> DEFINE qce == c.idMap[new.id]
  <2>1. merge(c, new) = mergeKnownId(c, new)
    BY <1>2 DEF merge
  <2>2. CASE new.timestamp > qce.timestamp /\ qce.priority = new.priority
    <3>1. merge(c, new) = overwrite(c, qce, new)
      BY <2>1, <2>2 DEF mergeKnownId
    <3> QED
      BY <1>1, <1>2, <2>2, <3>1, OverwriteConsistent
  <2>3. CASE new.timestamp >= qce.timestamp /\ qce.priority # new.priority
    <3>1. merge(c, new) = replaceQCE(c, qce, new)
      BY <2>1, <2>3 DEF mergeKnownId
    <3> QED
      BY <1>1, <1>2, <2>3, <3>1, ReplaceConsistent
  <2>4. CASE /\ ~(new.timestamp > qce.timestamp /\ qce.priority = new.priority)
             /\ ~(new.timestamp >= qce.timestamp /\ qce.priority # new.priority)
    <3>1. merge(c, new) = c
      BY <2>1, <2>4 DEF mergeKnownId
    <3> QED
      BY <1>1, <3>1
  <2> QED
    BY <2>2, <2>3, <2>4
<1>3. CASE new.id \notin DOMAIN c.idMap
  <2>1. merge(c, new) = mergeNewId(c, new)
    BY <1>3 DEF merge
  <2>2. CASE new.priority \in DOMAIN c.priorityMap
    <3>1. c.priorityMap[new.priority] \in Elements(c)
      BY <2>2 DEF Consistent, PriorityMapAgrees
    <3>2. merge(c, new) = replaceQCE(c, c.priorityMap[new.priority], new)
      BY <2>1, <2>2 DEF mergeNewId
    <3> QED
      BY <1>1, <1>3, <3>1, <3>2, ReplaceConsistent
  <2>3. CASE new.priority \notin DOMAIN c.priorityMap
    <3>1. merge(c, new) = addQCE(c, new)
      BY <2>1, <2>3 DEF mergeNewId
    <3> QED
      BY <1>1, <1>3, <3>1, AddConsistent
  <2> QED
    BY <2>2, <2>3
<1> QED
  BY <1>2, <1>3

-----------------------------------------------------------------------------
(* The specification                                                       *)

Inv ==
    /\ TypeOK
    /\ Consistent(cache)
    /\ WithinCapacity

\* The empty cache is consistent.
LEMMA EmptyConsistent == Consistent(emptyCache) /\ Len(emptyCache.treeSet) = 0
<1>1. /\ emptyCache.treeSet = <<>>
      /\ emptyCache.treeSet \in Seq(QueryContextElement)
      /\ DOMAIN emptyCache.treeSet = {}
      /\ Elements(emptyCache) = {}
      /\ DOMAIN emptyCache.idMap = {}
      /\ DOMAIN emptyCache.priorityMap = {}
  BY DEF emptyCache, emptyMap, Elements, Range
<1>2. WellTyped(emptyCache)
  BY <1>1 DEF WellTyped, emptyCache, emptyMap
<1>3. OneElementPerId(emptyCache) /\ Sorted(emptyCache)
  BY <1>1 DEF OneElementPerId, Sorted
<1>4. IdMapAgrees(emptyCache) /\ PriorityMapAgrees(emptyCache) /\ ContextsMatch(emptyCache)
  BY <1>1 DEF IdMapAgrees, PriorityMapAgrees, ContextsMatch
<1> QED
  BY <1>1, <1>2, <1>3, <1>4 DEF Consistent

\* The entries of a response are entries.
LEMMA ResponsesAreSequences ==
    \A response \in Responses : response \in Seq(ServerElement \cup BadEntry)
BY NumbersAssumption, SeqDef DEF Responses

\* The constructor establishes the invariant.
LEMMA InitInv == Init => Inv
<1> SUFFICES ASSUME Init PROVE Inv
  OBVIOUS
<1>1. cache = emptyCache /\ entries = <<>> /\ busy = FALSE
  BY DEF Init
<1>2. Consistent(cache)
  BY <1>1, EmptyConsistent
<1>3. WellTyped(cache)
  BY <1>2 DEF Consistent
<1>4. entries \in Seq(ServerElement \cup BadEntry)
  BY <1>1, EmptySeq
<1>5. Len(cache.treeSet) <= Capacity
  BY <1>1, EmptyConsistent, NumbersAssumption
<1>6. busy \in BOOLEAN
  BY <1>1
<1>7. TypeOK
  BY <1>3, <1>4, <1>6 DEF TypeOK
<1>8. WithinCapacity
  BY <1>5 DEF WithinCapacity
<1> QED
  BY <1>2, <1>7, <1>8 DEF Inv

\* Every step keeps the invariant and lets no timestamp go back.
LEMMA StepPreservesInv ==
    ASSUME Inv, [Next]_vars
    PROVE  /\ Inv'
           /\ \A i \in DOMAIN cache.idMap \cap DOMAIN cache'.idMap :
                 cache'.idMap[i].timestamp >= cache.idMap[i].timestamp
<1> USE DEF Inv, TypeOK, WithinCapacity
<1>1. /\ cache.treeSet \in Seq(QueryContextElement)
      /\ Len(cache.treeSet) \in Nat
      /\ \A i \in DOMAIN cache.idMap : cache.idMap[i].timestamp \in Nat
  <2>1. cache.treeSet \in Seq(QueryContextElement)
    BY DEF WellTyped
  <2>2. \A i \in DOMAIN cache.idMap : cache.idMap[i] \in QueryContextElement
    BY ConsistentTree DEF Consistent, IdMapAgrees
  <2> QED
    BY <2>1, <2>2, SeqElements, TimestampIsNat
<1>2. \A c : Consistent(c) => WellTyped(c)
  BY DEF Consistent
<1>3. /\ Consistent(emptyCache) /\ WellTyped(emptyCache)
      /\ Len(emptyCache.treeSet) <= Capacity
      /\ DOMAIN emptyCache.idMap = {}
  BY <1>2, EmptyConsistent, NumbersAssumption DEF emptyCache, emptyMap
<1>4. CASE clearCache
  BY <1>3, <1>4 DEF clearCache
<1>5. ASSUME NEW response \in Responses, deserializeQueryContext(response)
      PROVE  /\ Inv'
             /\ \A i \in DOMAIN cache.idMap \cap DOMAIN cache'.idMap :
                   cache'.idMap[i].timestamp >= cache.idMap[i].timestamp
  BY <1>1, <1>5, ResponsesAreSequences DEF deserializeQueryContext
<1>6. CASE mergeNext
  <2>1. /\ Head(entries) \in ServerElement
        /\ Tail(entries) \in Seq(ServerElement \cup BadEntry)
    <3>1. Head(entries) \in ServerElement \cup BadEntry
      BY <1>6, HeadTailProperties DEF mergeNext
    <3>2. Head(entries) \notin BadEntry
      BY <1>6, BadEntriesAssumption DEF mergeNext, BadEntry
    <3> QED
      BY <1>6, <3>1, <3>2, HeadTailProperties DEF mergeNext
  <2> QED
    BY <1>2, <1>6, <2>1, MergeConsistent DEF mergeNext
<1>7. CASE rejectEntry
  BY <1>3, <1>7, EmptySeq DEF rejectEntry
<1>8. CASE entryThrows
  BY <1>3, <1>8, EmptySeq DEF entryThrows
<1>9. CASE evictLast
  <2> DEFINE qce == Last(cache.treeSet)
  <2>1. qce \in Elements(cache)
    <3>1. Len(cache.treeSet) \in 1..Len(cache.treeSet)
      BY <1>1, <1>9, NumbersAssumption DEF evictLast
    <3> QED
      BY <1>1, <3>1, SeqElements DEF Last, Elements
  <2>2. cache' = removeQCE(cache, qce)
    BY <1>9 DEF evictLast
  <2> HIDE DEF qce
  <2>3. /\ Consistent(cache')
        /\ DOMAIN cache'.idMap \subseteq DOMAIN cache.idMap
        /\ \A i \in DOMAIN cache'.idMap : cache'.idMap[i] = cache.idMap[i]
    BY <2>1, <2>2, RemoveConsistent
  <2> QED
    BY <1>1, <1>2, <1>9, <2>3 DEF evictLast
<1>10. CASE deserialized
  <2>1. cache' = cache /\ entries' = entries /\ busy' = FALSE
    BY <1>10 DEF deserialized
  <2>2. TypeOK' /\ Consistent(cache)'
    BY <2>1
  <2>3. WithinCapacity'
    BY <1>10, <2>1 DEF deserialized
  <2> QED
    BY <1>1, <2>1, <2>2, <2>3
<1>11. CASE UNCHANGED vars
  BY <1>1, <1>11 DEF vars
<1> QED
  BY <1>4, <1>5, <1>6, <1>7, <1>8, <1>9, <1>10, <1>11 DEF Next

\* Whatever responses arrive, the structures of the cache have their types, agree
\* with each other and stay sorted, contexts keep their timestamps, and between
\* responses the capacity is respected.
THEOREM CacheCorrect ==
    Spec => [](TypeOK /\ MapsAgree /\ SortedByPriority /\ ContextOfTimestamp /\ WithinCapacity)
<1>1. Init => Inv
  BY InitInv
<1>2. Inv /\ [Next]_vars => Inv'
  BY StepPreservesInv
<1>3. Inv => TypeOK /\ MapsAgree /\ SortedByPriority /\ ContextOfTimestamp /\ WithinCapacity
  BY DEF Inv, Consistent, MapsAgree, SortedByPriority, ContextOfTimestamp
<1> QED
  BY <1>1, <1>2, <1>3, PTL DEF Spec

\* Whatever a response brings, the cache is back within its capacity after it.
THEOREM CapacityKept == Spec => []WithinCapacity
  BY CacheCorrect, PTL

\* In every order of responses, the timestamp of an id never goes back while the
\* id stays in the cache.
THEOREM TimestampsNeverGoBack == Spec => NeverOlder
<1> DEFINE Newer == \A i \in DOMAIN cache.idMap \cap DOMAIN cache'.idMap :
                        cache'.idMap[i].timestamp >= cache.idMap[i].timestamp
<1>1. Init => Inv
  BY InitInv
<1>2. Inv /\ [Next]_vars => Inv'
  BY StepPreservesInv
<1>3. Inv /\ [Next]_vars => [Newer]_vars
  BY StepPreservesInv
<1> QED
  BY <1>1, <1>2, <1>3, PTL DEF Spec, NeverOlder

=============================================================================
