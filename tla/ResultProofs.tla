---------------------------- MODULE ResultProofs ----------------------------
(***************************************************************************)
(* The rows of a result, for results of any size.                          *)
(*                                                                         *)
(* The search of ChunkSearch finds the chunks of every window whose start  *)
(* was asked for before its end.                                           *)
(*                                                                         *)
(* The streams of RowStreams push the rows of their windows in order, drop *)
(* the chunks they have read and absorb 403s.  RowsInv is inductive:       *)
(* each stream waits for one thing at a time (WaitInv), what it waits for  *)
(* finds it in the state that the callback expects (CallInv), the rows it  *)
(* has pushed are a beginning of its window (PushedInv), and its buffer,   *)
(* its index and the callback that is due tell where in that window the    *)
(* next row is (Position); a chunk is loaded once at a time (LoadInv),     *)
(* holds its own rows (Own), and is in memory only while some stream is    *)
(* going to read or to drop it (Held).                                     *)
(***************************************************************************)
EXTENDS ChunkSearch, RowStreams, WellFoundedInduction, FiniteSetTheorems, SequenceTheorems, TLAPS

-----------------------------------------------------------------------------
(* The search for the chunks of a window                                   *)

\* The options give a start that is not after the end.
Ordered == \A w \in Requests : w.start <= w.end

Indices == 0..(Len(chunks) - 1)

\* What init makes of such options: rows in order, or a window behind the last row,
\* or one before the first.
Sensible ==
    \/ window.start <= window.end
    \/ window.end = RowsIn(chunks) - 1 /\ window.start >= RowsIn(chunks)
    \/ window.end < 0 /\ window.start = 0

InputInv ==
    /\ chunks \in Arrays
    /\ request \in Requests
    /\ window \in [start : Nat, end : Int]
    /\ window = ClipTo(request, chunks)

\* No chunk to the left of the bounds overlaps, and one between them does.
SearchInv ==
    pc = "search" =>
        /\ \A i \in 0..(left - 1) : ~Overlaps(i)
        /\ \E i \in left..right : Overlaps(i)
        /\ found = <<>>

\* found is the run of overlapping chunks from the first one up to the index.
Run(m) ==
    /\ m \in Indices
    /\ \A i \in 0..(m - 1) : ~Overlaps(i)
    /\ index \in m..Len(chunks)
    /\ \A i \in m..(index - 1) : Overlaps(i)
    /\ Len(found) = index - m
    /\ \A n \in 1..Len(found) : found[n] = m + n - 1

CollectInv == pc = "collect" => \E m \in Indices : Run(m) /\ (index = m => Overlaps(m))

DoneInv ==
    pc = "done" =>
        \/ Len(chunks) = 0 /\ found = <<>>
        \/ /\ \E m \in Indices : Run(m) /\ m < index
           /\ index \in Indices => ~Overlaps(index)

IInv == SearchOK /\ InputInv /\ SearchInv /\ CollectInv /\ DoneInv /\ NeverThrows

-----------------------------------------------------------------------------
(* Chunk arrays and windows                                                *)

\* What ArraysAssumption says of the array at hand.
LEMMA ArrayFacts ==
    ASSUME chunks \in Arrays
    PROVE  /\ chunks \in Seq([first : Nat, last : Nat])
           /\ Len(chunks) \in Nat
           /\ \A i \in Indices : chunks[i + 1] \in [first : Nat, last : Nat]
           /\ \A i \in Indices : chunks[i + 1].first <= chunks[i + 1].last
           /\ \A i, j \in Indices : i < j => chunks[i + 1].last < chunks[j + 1].first
           /\ \A r \in 0..(RowsIn(chunks) - 1) :
                 \E i \in Indices : r \in chunks[i + 1].first..chunks[i + 1].last
<1>1. /\ chunks \in Seq([first : Nat, last : Nat])
      /\ \A i \in 1..Len(chunks) : chunks[i].first <= chunks[i].last
      /\ \A i, j \in 1..Len(chunks) : i < j => chunks[i].last < chunks[j].first
      /\ \A r \in 0..(RowsIn(chunks) - 1) :
            \E i \in 1..Len(chunks) : r \in chunks[i].first..chunks[i].last
  BY ArraysAssumption
<1>2. Len(chunks) \in Nat
  BY <1>1
<1>3. \A i \in Indices : i + 1 \in 1..Len(chunks)
  BY <1>2 DEF Indices
<1>4. ASSUME NEW i \in Indices
      PROVE  chunks[i + 1] \in [first : Nat, last : Nat]
  <2>1. i + 1 \in 1..Len(chunks)
    BY <1>3
  <2>2. chunks \in Seq([first : Nat, last : Nat])
    BY <1>1
  <2> QED
    BY <2>1, <2>2, ElementOfSeq
<1>5. ASSUME NEW r \in 0..(RowsIn(chunks) - 1)
      PROVE  \E i \in Indices : r \in chunks[i + 1].first..chunks[i + 1].last
  <2>1. PICK k \in 1..Len(chunks) : r \in chunks[k].first..chunks[k].last
    BY <1>1
  <2>2. k - 1 \in Indices /\ (k - 1) + 1 = k
    BY <1>2 DEF Indices
  <2> QED
    BY <2>1, <2>2
<1>6. \A i, j \in Indices : i < j => chunks[i + 1].last < chunks[j + 1].first
  BY <1>1, <1>2, <1>3 DEF Indices
<1> QED
  BY <1>1, <1>2, <1>3, <1>4, <1>5, <1>6

\* A non-empty array ends at the last row.
LEMMA LastRow ==
    ASSUME chunks \in Arrays, Len(chunks) # 0
    PROVE  /\ RowsIn(chunks) \in Nat \ {0}
           /\ \A i \in Indices : chunks[i + 1].last < RowsIn(chunks)
           /\ \A i \in Indices : chunks[i + 1].last = RowsIn(chunks) - 1 => i = Len(chunks) - 1
<1>1. Len(chunks) - 1 \in Indices /\ (Len(chunks) - 1) + 1 = Len(chunks)
  BY ArrayFacts DEF Indices
<1>2. chunks # <<>>
  OBVIOUS
<1>3. RowsIn(chunks) = chunks[Len(chunks)].last + 1
  BY <1>2 DEF RowsIn
<1>4. chunks[Len(chunks)].last \in Nat
  BY <1>1, ArrayFacts
<1>5. ASSUME NEW i \in Indices, i # Len(chunks) - 1
      PROVE  chunks[i + 1].last < chunks[Len(chunks)].last
  <2>1. i < Len(chunks) - 1
    BY <1>5, ArrayFacts DEF Indices
  <2>2. chunks[i + 1].last < chunks[(Len(chunks) - 1) + 1].first
    BY <1>1, <2>1, ArrayFacts
  <2>3. chunks[(Len(chunks) - 1) + 1].first <= chunks[(Len(chunks) - 1) + 1].last
    BY <1>1, ArrayFacts
  <2>4. chunks[i + 1].last \in Nat /\ chunks[Len(chunks)].first \in Nat
    BY <1>1, ArrayFacts
  <2> QED
    BY <1>1, <1>4, <2>2, <2>3, <2>4
<1>6. \A i \in Indices : chunks[i + 1].last \in Nat
  BY ArrayFacts
<1> QED
  BY <1>1, <1>3, <1>4, <1>5, <1>6

\* Options in order make a sensible window.
LEMMA OrderedIsSensible ==
    ASSUME Ordered, InputInv
    PROVE  Sensible
<1>1. request.start \in Int /\ request.end \in Int /\ request.start <= request.end
  BY RequestsAssumption DEF Ordered, InputInv
<1>2. RowsIn(chunks) \in Nat
  <2>1. CASE Len(chunks) = 0
    <3>1. chunks = <<>>
      BY <2>1, ArrayFacts DEF InputInv
    <3> QED
      BY <3>1 DEF RowsIn
  <2>2. CASE Len(chunks) # 0
    BY <2>2, LastRow DEF InputInv
  <2> QED
    BY <2>1, <2>2
<1> QED
  BY <1>1, <1>2 DEF InputInv, Sensible, ClipTo

\* A sensible window of a non-empty array overlaps with some chunk.
LEMMA SomeOverlap ==
    ASSUME InputInv, Sensible, Len(chunks) # 0
    PROVE  \E i \in Indices : Overlaps(i)
<1>1. RowsIn(chunks) \in Nat \ {0}
  BY LastRow DEF InputInv
<1>2. window.end \in Int /\ window.end <= RowsIn(chunks) - 1
  <2>1. request.end \in Int
    BY RequestsAssumption DEF InputInv
  <2> QED
    BY <1>1, <2>1 DEF InputInv, ClipTo
<1>3. CASE window.end >= 0
  <2>1. PICK i \in Indices : window.end \in chunks[i + 1].first..chunks[i + 1].last
    BY <1>1, <1>2, <1>3, ArrayFacts, SMTT(30) DEF InputInv
  <2> QED
    BY <2>1 DEF Overlaps
<1>4. CASE window.end < 0
  <2>1. window.start = 0
    BY <1>1, <1>2, <1>4 DEF Sensible, InputInv
  <2>2. PICK i \in Indices : window.start \in chunks[i + 1].first..chunks[i + 1].last
    BY <1>1, <2>1, ArrayFacts DEF InputInv
  <2> QED
    BY <2>2 DEF Overlaps
<1> QED
  BY <1>2, <1>3, <1>4

-----------------------------------------------------------------------------
(* Where the overlapping chunks are                                        *)

\* Overlapping, for rows in order.
LEMMA OverlapsInOrder ==
    ASSUME InputInv, window.start <= window.end, NEW i \in Indices
    PROVE  Overlaps(i) <=> /\ chunks[i + 1].first <= window.end
                           /\ chunks[i + 1].last >= window.start
<1>1. /\ chunks[i + 1].first \in Nat
      /\ chunks[i + 1].last \in Nat
      /\ chunks[i + 1].first <= chunks[i + 1].last
  BY ArrayFacts DEF InputInv
<1>2. window.start \in Nat /\ window.end \in Int
  BY DEF InputInv
<1> QED
  BY <1>1, <1>2 DEF Overlaps

\* Behind the last row, only the last chunk counts as overlapping.
LEMMA OverlapsBehind ==
    ASSUME InputInv, NEW i \in Indices, Overlaps(i),
           window.end = RowsIn(chunks) - 1, window.start >= RowsIn(chunks)
    PROVE  i = Len(chunks) - 1
<1>1. Len(chunks) # 0
  BY ArrayFacts DEF Indices, InputInv
<1>2. /\ chunks[i + 1].first \in Nat
      /\ chunks[i + 1].last \in Nat
      /\ chunks[i + 1].first <= chunks[i + 1].last
      /\ chunks[i + 1].last < RowsIn(chunks)
      /\ RowsIn(chunks) \in Nat
  BY <1>1, ArrayFacts, LastRow DEF InputInv
<1>3. window.start \in Nat /\ window.end \in Int
  BY DEF InputInv
<1>4. chunks[i + 1].last = RowsIn(chunks) - 1
  BY <1>2, <1>3 DEF Overlaps
<1> QED
  BY <1>1, <1>4, LastRow DEF InputInv

\* Before the first row, only the chunk with row 0 counts as overlapping.
LEMMA OverlapsBefore ==
    ASSUME InputInv, NEW i \in Indices, Overlaps(i), window.end < 0, window.start = 0
    PROVE  chunks[i + 1].first = 0
<1>1. /\ chunks[i + 1].first \in Nat
      /\ chunks[i + 1].last \in Nat
  BY ArrayFacts DEF InputInv
<1>2. window.end \in Int
  BY DEF InputInv
<1> QED
  BY <1>1, <1>2 DEF Overlaps

\* A window that starts behind a chunk has nothing to its left.
LEMMA NothingLeft ==
    ASSUME InputInv, Sensible, NEW m \in Indices, ~Overlaps(m),
           window.start > chunks[m + 1].last, NEW i \in 0..m
    PROVE  ~Overlaps(i)
<1> SUFFICES ASSUME Overlaps(i) PROVE FALSE
  OBVIOUS
<1>1. i \in Indices /\ i < m
  <2>1. i # m
    OBVIOUS
  <2> QED
    BY <2>1, ArrayFacts DEF Indices, InputInv
<1>2. /\ chunks[i + 1].last \in Nat /\ chunks[m + 1].first \in Nat /\ chunks[m + 1].last \in Nat
      /\ chunks[i + 1].last < chunks[m + 1].first
      /\ chunks[m + 1].first <= chunks[m + 1].last
  BY <1>1, ArrayFacts DEF InputInv
<1>3. window.start \in Nat /\ window.end \in Int
  BY DEF InputInv
<1>4. CASE window.start <= window.end
  <2>1. chunks[i + 1].last >= window.start
    BY <1>1, <1>4, OverlapsInOrder
  <2> QED
    BY <1>2, <1>3, <2>1
<1>5. CASE window.end = RowsIn(chunks) - 1 /\ window.start >= RowsIn(chunks)
  <2>1. i = Len(chunks) - 1
    BY <1>1, <1>5, OverlapsBehind
  <2> QED
    BY <1>1, <2>1, ArrayFacts DEF Indices, InputInv
<1>6. CASE window.end < 0 /\ window.start = 0
  BY <1>2, <1>6
<1> QED
  BY <1>4, <1>5, <1>6 DEF Sensible

\* Any other window that misses a chunk has nothing to its right.
LEMMA NothingRight ==
    ASSUME InputInv, Sensible, NEW m \in Indices, ~Overlaps(m),
           window.start <= chunks[m + 1].last, NEW i \in Indices, i >= m
    PROVE  ~Overlaps(i)
<1> SUFFICES ASSUME Overlaps(i) PROVE FALSE
  OBVIOUS
<1>1. m < i
  <2>1. i # m
    OBVIOUS
  <2> QED
    BY <2>1, ArrayFacts DEF Indices, InputInv
<1>2. /\ chunks[m + 1].last \in Nat /\ chunks[m + 1].first \in Nat
      /\ chunks[i + 1].first \in Nat
      /\ chunks[m + 1].first <= chunks[m + 1].last
      /\ chunks[m + 1].last < chunks[i + 1].first
  BY <1>1, ArrayFacts DEF InputInv
<1>3. window.start \in Nat /\ window.end \in Int
  BY DEF InputInv
<1>4. CASE window.start <= window.end
  <2>1. chunks[i + 1].first <= window.end
    BY <1>4, OverlapsInOrder
  <2>2. ~(chunks[m + 1].first <= window.end)
    BY <1>4, OverlapsInOrder
  <2> QED
    BY <1>2, <1>3, <2>1, <2>2
<1>5. CASE window.end = RowsIn(chunks) - 1 /\ window.start >= RowsIn(chunks)
  <2>1. Len(chunks) # 0
    BY ArrayFacts DEF Indices, InputInv
  <2>2. chunks[m + 1].last < RowsIn(chunks) /\ RowsIn(chunks) \in Nat
    BY <2>1, LastRow DEF InputInv
  <2> QED
    BY <1>2, <1>3, <1>5, <2>2
<1>6. CASE window.end < 0 /\ window.start = 0
  <2>1. chunks[i + 1].first = 0
    BY <1>6, OverlapsBefore
  <2> QED
    BY <1>2, <2>1
<1> QED
  BY <1>4, <1>5, <1>6 DEF Sensible

\* The overlapping chunks are neighbours.
LEMMA NoGap ==
    ASSUME InputInv, Sensible, NEW i \in Indices, NEW j \in Indices, NEW k \in Indices,
           i <= j, j <= k, Overlaps(i), Overlaps(k)
    PROVE  Overlaps(j)
<1> SUFFICES ASSUME ~Overlaps(j) PROVE FALSE
  OBVIOUS
<1>1. window.start \in Nat /\ chunks[j + 1].last \in Nat
  BY ArrayFacts DEF InputInv
<1>2. CASE window.start > chunks[j + 1].last
  <2>1. i \in 0..j
    BY ArrayFacts DEF Indices, InputInv
  <2> QED
    BY <1>2, <2>1, NothingLeft
<1>3. CASE window.start <= chunks[j + 1].last
  BY <1>3, NothingRight
<1> QED
  BY <1>1, <1>2, <1>3

-----------------------------------------------------------------------------
(* The bounds                                                              *)

TypeInv == SearchOK /\ InputInv

\* The call of findOverlappingChunks starts inside the array.
LEMMA TypeInit == SearchInit => TypeInv
<1> SUFFICES ASSUME SearchInit PROVE TypeInv
  OBVIOUS
<1>1. Len(chunks) \in Nat
  BY ArrayFacts DEF SearchInit
<1>2. SearchOK
  BY <1>1 DEF SearchInit, SearchOK, LastIndex
<1>3. window \in [start : Nat, end : Int]
  <2>1. request.start \in Int /\ request.end \in Int
    BY RequestsAssumption DEF SearchInit
  <2>2. RowsIn(chunks) \in Int
    <3>1. CASE Len(chunks) = 0
      <4>1. chunks = <<>>
        BY <3>1, ArrayFacts DEF SearchInit
      <4> QED
        BY <4>1 DEF RowsIn
    <3>2. CASE Len(chunks) # 0
      BY <3>2, LastRow DEF SearchInit
    <3> QED
      BY <3>1, <3>2
  <2>3. window = ClipTo(request, chunks)
    BY DEF SearchInit
  <2> QED
    BY <2>1, <2>2, <2>3 DEF ClipTo
<1> QED
  BY <1>2, <1>3 DEF TypeInv, InputInv, SearchInit

\* The middle lies between the bounds, strictly unless there are two chunks or one.
LEMMA MiddleBetween ==
    ASSUME TypeInv, pc = "search"
    PROVE  /\ Middle \in Indices
           /\ Middle \in left..right
           /\ ~TwoOrFewer => left < Middle /\ Middle < right
           /\ TwoOrFewer => left \in Indices /\ right \in Indices /\ right \in left..(left + 1)
<1>1. left \in 0..right /\ right \in 0..(Len(chunks) - 1) /\ Len(chunks) \in Nat
  BY ArrayFacts DEF TypeInv, SearchOK, InputInv
<1> QED
  BY <1>1 DEF Middle, TwoOrFewer, Indices

\* No step of the search or of the collection leaves the array.
LEMMA TypeNext == TypeInv /\ [SearchNext]_searchVars => TypeInv'
<1> SUFFICES ASSUME TypeInv, [SearchNext]_searchVars PROVE TypeInv'
  OBVIOUS
<1> USE DEF TypeInv
<1>1. UNCHANGED <<chunks, request, window>>
  BY DEF SearchNext, searchVars, checkTwo, goRight, goLeft, middleIsFirst, collect, collected
<1>2. InputInv'
  BY <1>1 DEF InputInv, ClipTo, RowsIn
<1>3. Len(chunks) \in Nat
  BY ArrayFacts DEF InputInv
<1>4. SearchOK'
  <2>1. CASE checkTwo
    BY <1>1, <1>3, <2>1, MiddleBetween DEF checkTwo, SearchOK, Indices
  <2>2. CASE goRight
    BY <1>1, <1>3, <2>2, MiddleBetween DEF goRight, SearchOK, Indices
  <2>3. CASE goLeft
    BY <1>1, <1>3, <2>3, MiddleBetween DEF goLeft, SearchOK, Indices
  <2>4. CASE middleIsFirst
    BY <1>1, <1>3, <2>4, MiddleBetween DEF middleIsFirst, SearchOK, Indices
  <2>5. CASE collect
    <3>1. found' \in Seq(0..(Len(chunks) - 1))
      BY <2>5 DEF collect, SearchOK
    <3> QED
      BY <1>1, <1>3, <2>5, <3>1 DEF collect, SearchOK
  <2>6. CASE collected
    BY <1>1, <1>3, <2>6 DEF collected, SearchOK
  <2>7. CASE UNCHANGED searchVars
    BY <2>7 DEF searchVars, SearchOK
  <2> QED
    BY <2>1, <2>2, <2>3, <2>4, <2>5, <2>6, <2>7 DEF SearchNext
<1> QED
  BY <1>2, <1>4

\* The bounds and the index of findFirstOverlappingChunk stay inside the array.
THEOREM SearchTypes == SearchSpec => []SearchOK
<1>1. SearchInit => TypeInv
  BY TypeInit
<1>2. TypeInv /\ [SearchNext]_searchVars => TypeInv'
  BY TypeNext
<1>3. TypeInv => SearchOK
  BY DEF TypeInv
<1> QED
  BY <1>1, <1>2, <1>3, PTL DEF SearchSpec

\* helper always calls itself with fewer chunks: its recursion ends for every array
\* and every window.
THEOREM RecursionEnds == SearchSpec => BoundsShrink
<1>1. TypeInv /\ [SearchNext]_searchVars
        => [pc = "search" /\ pc' = "search" => right' - left' < right - left]_searchVars
  <2> SUFFICES ASSUME TypeInv, SearchNext, pc = "search", pc' = "search"
               PROVE  right' - left' < right - left
    BY DEF searchVars
  <2>1. goRight \/ goLeft
    BY DEF SearchNext, checkTwo, middleIsFirst, collect, collected
  <2>2. left \in Nat /\ right \in Nat
    BY ArrayFacts DEF TypeInv, SearchOK, InputInv
  <2>3. left < Middle /\ Middle < right /\ Middle \in Int
    BY <2>1, <2>2, MiddleBetween DEF goRight, goLeft
  <2> QED
    BY <2>1, <2>2, <2>3 DEF goRight, goLeft
<1>2. SearchInit => TypeInv
  BY TypeInit
<1>3. TypeInv /\ [SearchNext]_searchVars => TypeInv'
  BY TypeNext
<1> QED
  BY <1>1, <1>2, <1>3, PTL DEF SearchSpec, BoundsShrink

-----------------------------------------------------------------------------
(* What is found                                                           *)

\* Initially all chunks are between the bounds, and one of them overlaps.
LEMMA InvInit ==
    ASSUME Ordered, SearchInit
    PROVE  IInv
<1>1. SearchOK /\ InputInv
  BY TypeInit DEF TypeInv
<1>2. Sensible
  BY <1>1, OrderedIsSensible
<1>3. Len(chunks) \in Nat
  BY <1>1, ArrayFacts DEF InputInv
<1>4. SearchInv
  <2>1. CASE Len(chunks) = 0
    BY <2>1 DEF SearchInv, SearchInit
  <2>2. CASE Len(chunks) # 0
    <3>1. PICK i \in Indices : Overlaps(i)
      BY <1>1, <1>2, <2>2, SomeOverlap
    <3>2. i \in left..right /\ left = 0
      BY <1>3, <3>1 DEF SearchInit, Indices, LastIndex
    <3> QED
      BY <3>1, <3>2 DEF SearchInv, SearchInit
  <2> QED
    BY <2>1, <2>2
<1> QED
  BY <1>1, <1>3, <1>4 DEF IInv, CollectInv, DoneInv, NeverThrows, SearchInit

\* The search hands over the first overlapping chunk.
LEMMA FirstFound ==
    ASSUME IInv, Sensible, checkTwo \/ middleIsFirst
    PROVE  /\ index' \in Indices
           /\ Overlaps(index')
           /\ \A i \in 0..(index' - 1) : ~Overlaps(i)
           /\ found = <<>>
<1>1. TypeInv /\ InputInv /\ pc = "search"
  BY DEF IInv, TypeInv, checkTwo, middleIsFirst
<1>2. PICK o \in left..right : Overlaps(o)
  BY <1>1 DEF IInv, SearchInv
<1>3. \A i \in 0..(left - 1) : ~Overlaps(i)
  BY <1>1 DEF IInv, SearchInv
<1>4. left \in Nat /\ right \in Nat
  BY <1>1, ArrayFacts DEF TypeInv, SearchOK, InputInv
<1>5. found = <<>>
  BY <1>1 DEF IInv, SearchInv
<1>6. CASE checkTwo
  <2>1. left \in Indices /\ right \in Indices /\ right \in left..(left + 1)
    BY <1>1, <1>6, MiddleBetween DEF checkTwo
  <2>2. CASE Overlaps(left)
    BY <1>3, <1>5, <1>6, <2>1, <2>2 DEF checkTwo
  <2>3. CASE ~Overlaps(left)
    <3>1. o = right /\ left # right /\ right = left + 1
      BY <1>2, <1>4, <2>1, <2>3
    <3>2. index' = right /\ Overlaps(right)
      BY <1>2, <1>6, <2>3, <3>1 DEF checkTwo
    <3>3. \A i \in 0..(right - 1) : i \in 0..(left - 1) \/ i = left
      BY <1>4, <3>1
    <3> QED
      BY <1>3, <1>5, <2>1, <2>3, <3>2, <3>3
  <2> QED
    BY <2>2, <2>3
<1>7. CASE middleIsFirst
  <2>1. Middle \in Indices /\ left < Middle /\ Middle \in Nat
    BY <1>1, <1>7, MiddleBetween, ArrayFacts DEF middleIsFirst, Indices, InputInv
  <2>2. index' = Middle /\ Overlaps(Middle) /\ ~Overlaps(Middle - 1)
    BY <1>4, <1>7, <2>1 DEF middleIsFirst, IsFirst
  <2>3. ASSUME NEW i \in 0..(Middle - 1)
        PROVE  ~Overlaps(i)
    <3>1. i \in Indices /\ Middle - 1 \in Indices /\ i <= Middle - 1 /\ Middle - 1 <= Middle
      BY <1>1, <1>4, <2>1, ArrayFacts, SMTT(20) DEF Indices, InputInv
    <3> QED
      BY <1>1, <2>1, <2>2, <3>1, NoGap
  <2> QED
    BY <1>5, <2>1, <2>2, <2>3
<1> QED
  BY <1>6, <1>7

\* Every step keeps the first overlapping chunk between the bounds, and collects a run.
LEMMA InvNext ==
    ASSUME Ordered, IInv, [SearchNext]_searchVars
    PROVE  IInv'
<1>1. TypeInv /\ InputInv /\ SearchOK
  BY DEF IInv, TypeInv
<1>2. SearchOK' /\ InputInv'
  BY <1>1, TypeNext DEF TypeInv
<1>3. Sensible
  BY <1>1, OrderedIsSensible
<1>4. Len(chunks) \in Nat
  BY <1>1, ArrayFacts DEF InputInv
<1>5. UNCHANGED <<chunks, window>>
  BY DEF SearchNext, searchVars, checkTwo, goRight, goLeft, middleIsFirst, collect, collected
<1>6. \A i : Overlaps(i)' <=> Overlaps(i)
  BY <1>5 DEF Overlaps
<1>7. Indices' = Indices
  BY <1>5 DEF Indices
<1>8. CASE checkTwo \/ middleIsFirst
  <2>1. /\ index' \in Indices
        /\ Overlaps(index')
        /\ \A i \in 0..(index' - 1) : ~Overlaps(i)
        /\ found = <<>>
    BY <1>3, <1>8, FirstFound
  <2>2. pc' = "collect" /\ found' = found
    BY <1>8 DEF checkTwo, middleIsFirst
  <2>3. PICK m \in Indices : m = index'
    BY <2>1
  <2>4. Run(m)'
    <3>1. m \in Nat /\ m \in m..Len(chunks) /\ m < Len(chunks)
      BY <1>4 DEF Indices
    <3>2. Len(found') = 0
      BY <2>1, <2>2
    <3> QED
      BY <1>4, <1>5, <1>6, <1>7, <2>1, <2>3, <3>1, <3>2 DEF Run
  <2>5. CollectInv'
    BY <1>6, <1>7, <2>1, <2>3, <2>4 DEF CollectInv
  <2> QED
    BY <1>2, <2>2, <2>5 DEF IInv, SearchInv, DoneInv, NeverThrows
<1>9. CASE goRight
  <2>1. pc = "search" /\ pc' = "search" /\ left' = Middle /\ right' = right /\ found' = found
    BY <1>9 DEF goRight
  <2>2. Middle \in Indices /\ left < Middle /\ Middle < right
    BY <1>1, <1>9, MiddleBetween DEF goRight
  <2>3. \A i \in 0..Middle : ~Overlaps(i)
    BY <1>1, <1>3, <1>9, <2>2, NothingLeft DEF goRight
  <2>4. PICK o \in left..right : Overlaps(o)
    BY <2>1 DEF IInv, SearchInv
  <2>5. left \in Nat /\ right \in Nat /\ Middle \in Nat
    BY <1>1, <1>4, <2>1, <2>2 DEF SearchOK, Indices
  <2>6. o \in Middle..right
    BY <2>3, <2>4, <2>5
  <2>7. SearchInv'
    <3>1. \A i \in 0..(Middle - 1) : ~Overlaps(i)
      BY <2>3, <2>5
    <3> QED
      BY <1>6, <2>1, <2>4, <2>6, <3>1 DEF IInv, SearchInv
  <2> QED
    BY <1>2, <2>1, <2>7 DEF IInv, CollectInv, DoneInv, NeverThrows
<1>10. CASE goLeft
  <2>1. pc = "search" /\ pc' = "search" /\ left' = left /\ right' = Middle /\ found' = found
    BY <1>10 DEF goLeft
  <2>2. Middle \in Indices /\ left < Middle /\ Middle < right
    BY <1>1, <1>10, MiddleBetween DEF goLeft
  <2>3. left \in Nat /\ right \in Indices /\ Middle \in Nat
    BY <1>1, <1>4, <2>1, <2>2 DEF SearchOK, Indices
  <2>4. \E o \in left..Middle : Overlaps(o)
    <3>1. CASE Overlaps(Middle)
      BY <2>2, <2>3, <3>1
    <3>2. CASE ~Overlaps(Middle)
      <4>1. window.start <= chunks[Middle + 1].last
        BY <1>10, <3>2 DEF goLeft
      <4>2. PICK o \in left..right : Overlaps(o)
        BY <2>1 DEF IInv, SearchInv
      <4>3. o \in Indices
        BY <1>4, <2>3, <4>2 DEF Indices
      <4>4. ~(o >= Middle)
        BY <1>1, <1>3, <2>2, <3>2, <4>1, <4>2, <4>3, NothingRight
      <4> QED
        BY <1>4, <2>3, <4>2, <4>3, <4>4 DEF Indices
    <3> QED
      BY <3>1, <3>2
  <2>5. SearchInv'
    BY <1>6, <2>1, <2>4 DEF IInv, SearchInv
  <2> QED
    BY <1>2, <2>1, <2>5 DEF IInv, CollectInv, DoneInv, NeverThrows
<1>11. CASE collect
  <2>1. PICK m \in Indices : Run(m)
    BY <1>11 DEF collect, IInv, CollectInv
  <2>2. /\ pc' = "collect" /\ index \in Indices /\ Overlaps(index)
        /\ found' = Append(found, index) /\ index' = index + 1
    BY <1>11 DEF collect, Indices
  <2>3. found \in Seq(0..(Len(chunks) - 1))
    BY <1>1 DEF SearchOK
  <2>4. /\ Len(found') = Len(found) + 1
        /\ \A n \in 1..Len(found') : found'[n] = IF n = Len(found) + 1 THEN index ELSE found[n]
    BY <2>2, <2>3, SMTT(20) DEF Indices
  <2>5. m \in Nat /\ index \in Nat /\ Len(found) \in Nat
    BY <1>4, <2>2, <2>3 DEF Indices
  <2>6. index' \in m..Len(chunks) /\ Len(found') = index' - m
    BY <1>4, <2>1, <2>2, <2>4, <2>5 DEF Run, Indices
  <2>7. \A i \in m..(index' - 1) : Overlaps(i)
    BY <2>1, <2>2, <2>5 DEF Run
  <2>8. ASSUME NEW n \in 1..Len(found')
        PROVE  found'[n] = m + n - 1
    <3>1. Len(found) = index - m
      BY <2>1 DEF Run
    <3>2. CASE n = Len(found) + 1
      BY <2>4, <2>5, <3>1, <3>2
    <3>3. CASE n # Len(found) + 1
      <4>1. n \in 1..Len(found)
        BY <2>4, <2>5, <3>3
      <4> QED
        BY <2>1, <2>4, <3>3, <4>1 DEF Run
    <3> QED
      BY <3>2, <3>3
  <2>9. Run(m)'
    BY <1>5, <1>6, <1>7, <2>1, <2>6, <2>7, <2>8 DEF Run
  <2>10. index' # m
    BY <2>1, <2>2, <2>5 DEF Run
  <2>11. CollectInv'
    BY <1>7, <2>9, <2>10 DEF CollectInv
  <2> QED
    BY <1>2, <2>2, <2>11 DEF IInv, SearchInv, DoneInv, NeverThrows
<1>12. CASE collected
  <2>1. PICK m \in Indices : Run(m) /\ (index = m => Overlaps(m))
    BY <1>12 DEF collected, IInv, CollectInv
  <2>2. index \in Nat /\ m \in Nat /\ m <= index
    BY <1>4, <2>1 DEF Run, Indices
  <2>3. pc' = "done" /\ index' = index /\ found' = found
    BY <1>12, <2>2 DEF collected
  <2>4. index \in Indices => ~Overlaps(index)
    BY <1>12 DEF collected, Indices
  <2>5. m < index
    BY <2>1, <2>2, <2>4
  <2>6. Run(m)'
    BY <1>5, <1>6, <1>7, <2>1, <2>3 DEF Run
  <2>7. DoneInv'
    BY <1>6, <1>7, <2>3, <2>4, <2>5, <2>6 DEF DoneInv
  <2> QED
    BY <1>2, <2>3, <2>7 DEF IInv, SearchInv, CollectInv, NeverThrows
<1>13. CASE UNCHANGED searchVars
  <2>1. UNCHANGED <<pc, left, right, index, found>>
    BY <1>13 DEF searchVars
  <2>2. ASSUME NEW m
        PROVE  Run(m)' <=> Run(m)
    BY <1>5, <1>6, <1>7, <2>1 DEF Run
  <2>3. SearchInv' /\ CollectInv' /\ DoneInv' /\ NeverThrows'
    BY <1>5, <1>6, <1>7, <2>1, <2>2 DEF IInv, SearchInv, CollectInv, DoneInv, NeverThrows
  <2> QED
    BY <1>2, <2>3 DEF IInv
<1> QED
  BY <1>8, <1>9, <1>10, <1>11, <1>12, <1>13 DEF SearchNext

\* What is collected is what overlaps.
LEMMA InvFinds ==
    ASSUME IInv
    PROVE  FindsOverlapping
<1> SUFFICES ASSUME pc = "done", window.start <= window.end PROVE FindsOverlapping
  BY DEF FindsOverlapping
<1>1. InputInv /\ Sensible
  BY DEF IInv, Sensible
<1>2. Len(chunks) \in Nat
  BY <1>1, ArrayFacts DEF InputInv
<1>3. CASE Len(chunks) = 0 /\ found = <<>>
  BY <1>3 DEF FindsOverlapping
<1>4. CASE /\ \E m \in Indices : Run(m) /\ m < index
           /\ index \in Indices => ~Overlaps(index)
  <2>1. PICK m \in Indices : Run(m) /\ m < index
    BY <1>4
  <2>2. m \in Nat /\ index \in Nat /\ Len(found) \in Nat /\ index <= Len(chunks)
    BY <1>2, <2>1 DEF Run, Indices
  <2>3. \A i, j \in 1..Len(found) : i < j => found[i] < found[j]
    BY <2>1, <2>2 DEF Run
  <2>4. Overlaps(m)
    BY <2>1, <2>2 DEF Run
  <2>5. ASSUME NEW i \in Indices
        PROVE  Overlaps(i) <=> i \in m..(index - 1)
    <3>1. i \in Nat /\ i < Len(chunks)
      BY <1>2 DEF Indices
    <3>2. CASE i < m
      BY <2>1, <2>2, <3>1, <3>2 DEF Run
    <3>3. CASE i \in m..(index - 1)
      BY <2>1, <3>3 DEF Run
    <3>4. CASE i >= index
      <4>1. index \in Indices /\ m <= index /\ index <= i
        BY <1>2, <2>1, <2>2, <3>1, <3>4 DEF Indices
      <4>2. ~Overlaps(i)
        BY <1>1, <1>4, <2>1, <2>4, <4>1, NoGap
      <4> QED
        BY <2>2, <3>1, <3>4, <4>2
    <3> QED
      BY <2>2, <3>1, <3>2, <3>3, <3>4
  <2>6. ASSUME NEW i \in Indices
        PROVE  (\E n \in 1..Len(found) : found[n] = i) <=> i \in m..(index - 1)
    <3>1. ASSUME NEW n \in 1..Len(found), found[n] = i PROVE i \in m..(index - 1)
      BY <2>1, <2>2, <3>1 DEF Run
    <3>2. ASSUME i \in m..(index - 1) PROVE \E n \in 1..Len(found) : found[n] = i
      <4>1. i - m + 1 \in 1..Len(found)
        BY <2>1, <2>2, <3>2 DEF Run
      <4>2. found[i - m + 1] = m + (i - m + 1) - 1
        BY <2>1, <4>1 DEF Run
      <4>3. found[i - m + 1] = i
        BY <2>2, <3>2, <4>2
      <4> QED
        BY <4>1, <4>3
    <3> QED
      BY <3>1, <3>2
  <2>7. ASSUME NEW i \in Indices
        PROVE  (\E n \in 1..Len(found) : found[n] = i)
                  <=> chunks[i + 1].first <= window.end /\ chunks[i + 1].last >= window.start
    BY <1>1, <2>5, <2>6, OverlapsInOrder
  <2> QED
    BY <2>3, <2>7 DEF FindsOverlapping, Indices
<1> QED
  BY <1>3, <1>4 DEF IInv, DoneInv

\* For options whose start is not after their end, findOverlappingChunks returns the
\* chunks with rows of the window, all of them and in order, and never throws.
THEOREM SearchCorrect ==
    ASSUME Ordered
    PROVE  SearchSpec => [](FindsOverlapping /\ NeverThrows)
<1>1. SearchInit => IInv
  BY InvInit
<1>2. IInv /\ [SearchNext]_searchVars => IInv'
  BY InvNext
<1>3. IInv => FindsOverlapping /\ NeverThrows
  BY InvFinds DEF IInv
<1> QED
  BY <1>1, <1>2, <1>3, PTL DEF SearchSpec

-----------------------------------------------------------------------------
(* Rows and chunks                                                         *)

\* The index of the last chunk.
LastChunk == Len(RemoteRows) + Shift

\* A set of naturals has a least element: the library's well-foundedness of <, without
\* an operator parameter.
LEMMA LeastNatural ==
    ASSUME NEW T, T \subseteq Nat, T # {}
    PROVE  \E x \in T : \A y \in T : x <= y
<1>1. IsWellFoundedOn(OpToRel(<, Nat), Nat)
  BY NatLessThanWellFounded
<1>2. OpToRel(<, Nat) = {ss \in Nat \X Nat : ss[1] < ss[2]}
  BY DEF OpToRel
<1> PICK R : R = {ss \in Nat \X Nat : ss[1] < ss[2]}
  OBVIOUS
<1>3. IsWellFoundedOn(R, Nat)
  BY <1>1, <1>2
<1>4. PICK x \in T : \A y \in T : ~(<<y, x>> \in R)
  BY <1>3, WFMin
<1>5. ASSUME NEW y \in T PROVE x <= y
  <2>1. y < x => <<y, x>> \in R
    <3>1. <<y, x>> \in Nat \X Nat
      OBVIOUS
    <3>2. <<y, x>>[1] = y /\ <<y, x>>[2] = x
      OBVIOUS
    <3> QED BY ONLY <3>1, <3>2, R = {ss \in Nat \X Nat : ss[1] < ss[2]}
  <2>2. ~(y < x)
    BY <1>4, <2>1
  <2>3. x \in Nat /\ y \in Nat
    OBVIOUS
  <2> QED
    BY ONLY <2>2, <2>3
<1> QED
  BY <1>5

\* Induction over the naturals, with a set for the statement.
LEMMA Induction ==
    ASSUME NEW S, 0 \in S, \A n \in Nat : n \in S => n + 1 \in S
    PROVE  \A n \in Nat : n \in S
<1> SUFFICES ASSUME Nat \ S # {} PROVE FALSE
  OBVIOUS
<1>1. PICK x \in Nat \ S : \A y \in Nat \ S : x <= y
  <2>1. Nat \ S \subseteq Nat
    OBVIOUS
  <2> QED
    BY <2>1, LeastNatural
<1>2. x # 0 /\ x - 1 \in Nat
  BY <1>1
<1>3. x - 1 \in S
  BY <1>1, <1>2
<1> QED
  BY <1>1, <1>2, <1>3

\* The recursion of RowsBefore has a solution.
LEMMA RowsBeforeExists ==
    \E f \in [1..(Len(RemoteRows) + 1) -> Nat] :
        f = [i \in 1..(Len(RemoteRows) + 1) |-> IF i <= 1 THEN 0 ELSE f[i - 1] + RemoteRows[i - 1]]
<1> DEFINE Sol(f, n) == /\ f \in [1..(n + 1) -> Nat]
                        /\ \A i \in 1..(n + 1) :
                              f[i] = IF i <= 1 THEN 0 ELSE f[i - 1] + RemoteRows[i - 1]
           S == {n \in Nat : n <= Len(RemoteRows) => \E f : Sol(f, n)}
<1>1. Len(RemoteRows) \in Nat /\ \A i \in 1..Len(RemoteRows) : RemoteRows[i] \in Nat \ {0}
  BY ResultAssumption
<1>2. 0 \in S
  <2>1. Sol([i \in 1..1 |-> 0], 0)
    OBVIOUS
  <2> QED
    BY <2>1
<1>3. ASSUME NEW n \in Nat, n \in S
      PROVE  n + 1 \in S
  <2>0. CASE ~(n + 1 <= Len(RemoteRows))
    BY <2>0
  <2> SUFFICES ASSUME n + 1 <= Len(RemoteRows)
               PROVE  n + 1 \in S
    BY <2>0
  <2>1. PICK f : Sol(f, n)
    BY <1>1, <1>3
  <2> DEFINE g == [i \in 1..(n + 2) |-> IF i = n + 2 THEN f[n + 1] + RemoteRows[n + 1] ELSE f[i]]
  <2>2. g \in [1..((n + 1) + 1) -> Nat]
    <3>1. f[n + 1] \in Nat /\ RemoteRows[n + 1] \in Nat
      BY <1>1, <2>1
    <3>2. (n + 1) + 1 = n + 2
      OBVIOUS
    <3>3. ASSUME NEW i \in 1..(n + 2) PROVE g[i] \in Nat
      <4>1. CASE i = n + 2
        BY <4>1, <3>1
      <4>2. CASE i # n + 2
        <5>1. i \in 1..(n + 1)
          BY <4>2
        <5> QED
          BY <5>1, <4>2, <2>1
      <4> QED BY <4>1, <4>2
    <3> QED
      BY <3>2, <3>3
  <2>3. ASSUME NEW i \in 1..((n + 1) + 1)
        PROVE  g[i] = IF i <= 1 THEN 0 ELSE g[i - 1] + RemoteRows[i - 1]
    <3>1. CASE i = n + 2
      BY <3>1
    <3>2. CASE i # n + 2
      <4>1. i \in 1..(n + 1) /\ (i > 1 => i - 1 \in 1..(n + 1) /\ i - 1 # n + 2)
        BY <3>2
      <4> QED
        BY <3>2, <4>1, <2>1
    <3> QED BY <3>1, <3>2
  <2>4. Sol(g, n + 1)
    BY <2>2, <2>3
  <2> HIDE DEF Sol, g
  <2> QED
    BY <2>4
<1> HIDE DEF S
<1>4. Len(RemoteRows) \in S
  BY <1>1, <1>2, <1>3, Induction
<1>5. PICK f : Sol(f, Len(RemoteRows))
  BY <1>4, <1>1 DEF S
<1>6. f = [i \in 1..(Len(RemoteRows) + 1) |-> IF i <= 1 THEN 0 ELSE f[i - 1] + RemoteRows[i - 1]]
  BY <1>5
<1> QED
  BY <1>5, <1>6

\* What the recursion of RowsBefore computes: the sum of the row counts so far.
LEMMA RowsBeforeFacts ==
    /\ Len(RemoteRows) \in Nat
    /\ \A i \in 1..Len(RemoteRows) : RemoteRows[i] \in Nat \ {0}
    /\ RowsBefore[1] = 0
    /\ \A i \in 1..Len(RemoteRows) : RowsBefore[i + 1] = RowsBefore[i] + RemoteRows[i]
<1>1. Len(RemoteRows) \in Nat /\ \A i \in 1..Len(RemoteRows) : RemoteRows[i] \in Nat \ {0}
  BY ResultAssumption
<1>2. RowsBefore = [i \in 1..(Len(RemoteRows) + 1) |->
                      IF i <= 1 THEN 0 ELSE RowsBefore[i - 1] + RemoteRows[i - 1]]
  BY RowsBeforeExists DEF RowsBefore
<1>3. RowsBefore[1] = 0
  BY <1>1, <1>2
<1>4. ASSUME NEW i \in 1..Len(RemoteRows)
      PROVE  RowsBefore[i + 1] = RowsBefore[i] + RemoteRows[i]
  <2>1. i + 1 \in 1..(Len(RemoteRows) + 1) /\ ~(i + 1 <= 1) /\ (i + 1) - 1 = i
    BY <1>1
  <2> QED
    BY <1>2, <2>1
<1> QED
  BY <1>1, <1>3, <1>4

\* RowsBefore counts rows.
LEMMA RowsBeforeNat == \A i \in 1..(Len(RemoteRows) + 1) : RowsBefore[i] \in Nat
<1> DEFINE S == {n \in Nat : n <= Len(RemoteRows) => RowsBefore[n + 1] \in Nat}
<1>1. 0 \in S
  BY RowsBeforeFacts
<1>2. ASSUME NEW n \in Nat, n \in S
      PROVE  n + 1 \in S
  <2>1. CASE ~(n + 1 <= Len(RemoteRows))
    BY <2>1
  <2>2. CASE n + 1 <= Len(RemoteRows)
    <3>1. n + 1 \in 1..Len(RemoteRows) /\ RowsBefore[n + 1] \in Nat
      BY <1>2, <2>2, RowsBeforeFacts
    <3>2. RowsBefore[(n + 1) + 1] = RowsBefore[n + 1] + RemoteRows[n + 1] /\ RemoteRows[n + 1] \in Nat
      BY <3>1, RowsBeforeFacts
    <3> QED
      BY <3>1, <3>2
  <2> QED
    BY <2>1, <2>2
<1> HIDE DEF S
<1>3. \A n \in Nat : n \in S
  BY <1>1, <1>2, Induction
<1>4. ASSUME NEW i \in 1..(Len(RemoteRows) + 1)
      PROVE  RowsBefore[i] \in Nat
  <2>1. i - 1 \in Nat /\ i - 1 <= Len(RemoteRows) /\ (i - 1) + 1 = i
    BY RowsBeforeFacts
  <2>2. RowsBefore[(i - 1) + 1] \in Nat
    BY <1>3, <2>1 DEF S
  <2> QED
    BY <2>1, <2>2
<1> QED
  BY <1>4

\* The chunks of a result are not empty and follow each other without a gap.
LEMMA ChunkFacts ==
    ASSUME scenario \in Scenarios
    PROVE  /\ LastChunk \in Nat
           /\ Chunks = 1..LastChunk
           /\ StartIndex(1) = 0
           /\ \A k \in 1..(LastChunk + 1) : StartIndex(k) \in Nat
           /\ \A k \in Chunks : /\ RowCount(k) \in Nat \ {0}
                                /\ StartIndex(k + 1) = StartIndex(k) + RowCount(k)
                                /\ EndIndex(k) = StartIndex(k + 1) - 1
                                /\ EndIndex(k) \in Nat
           /\ Returned = StartIndex(LastChunk + 1)
           /\ Returned \in Nat
           /\ Shift \in {0, 1}
           /\ scenario.inline \in Nat
<1>1. scenario.inline \in Nat
  BY ScenarioAssumption
<1>2. Shift \in {0, 1} /\ (Shift = 1 => scenario.inline > 0) /\ (Shift = 0 => scenario.inline = 0)
  BY <1>1 DEF Shift
<1>3. LastChunk \in Nat /\ Chunks = 1..LastChunk
  BY <1>2, RowsBeforeFacts DEF LastChunk, Chunks
<1>4. StartIndex(1) = 0
  BY <1>1, <1>2, RowsBeforeFacts DEF StartIndex
<1>5. ASSUME NEW k \in 1..(LastChunk + 1)
      PROVE  StartIndex(k) \in Nat
  <2>1. CASE k <= Shift
    BY <2>1 DEF StartIndex
  <2>2. CASE ~(k <= Shift)
    <3>1. k - Shift \in 1..(Len(RemoteRows) + 1)
      BY <2>2, <1>2, RowsBeforeFacts DEF LastChunk
    <3> QED
      BY <3>1, <2>2, <1>1, RowsBeforeNat DEF StartIndex
  <2> QED
    BY <2>1, <2>2
<1>6. ASSUME NEW k \in Chunks
      PROVE  /\ RowCount(k) \in Nat \ {0}
             /\ StartIndex(k + 1) = StartIndex(k) + RowCount(k)
  <2>1. CASE k <= Shift
    <3>1. k = 1 /\ Shift = 1 /\ (k + 1) - Shift = 1 /\ ~(k + 1 <= Shift)
      BY <2>1, <1>2, <1>3
    <3>2. StartIndex(k + 1) = scenario.inline + RowsBefore[1]
      BY <3>1 DEF StartIndex
    <3>3. StartIndex(k) = 0 /\ RowCount(k) = scenario.inline
      BY <2>1 DEF StartIndex, RowCount
    <3> QED
      BY <3>1, <3>2, <3>3, <1>1, <1>2, RowsBeforeFacts
  <2>2. CASE ~(k <= Shift)
    <3> DEFINE i == k - Shift
    <3>1. i \in 1..Len(RemoteRows) /\ (k + 1) - Shift = i + 1 /\ ~(k + 1 <= Shift)
      BY <2>2, <1>2, <1>3, RowsBeforeFacts DEF LastChunk
    <3>2. i \in 1..(Len(RemoteRows) + 1)
      BY <3>1, RowsBeforeFacts
    <3>3. StartIndex(k) = scenario.inline + RowsBefore[i] /\ RowCount(k) = RemoteRows[i]
      BY <2>2 DEF StartIndex, RowCount
    <3>4. StartIndex(k + 1) = scenario.inline + RowsBefore[i + 1]
      BY <3>1 DEF StartIndex
    <3> HIDE DEF i
    <3>5. RowsBefore[i + 1] = RowsBefore[i] + RemoteRows[i] /\ RemoteRows[i] \in Nat \ {0}
      BY <3>1, RowsBeforeFacts
    <3>6. RowsBefore[i] \in Nat
      BY <3>2, RowsBeforeNat
    <3> QED
      BY ONLY <3>3, <3>4, <3>5, <3>6, <1>1
  <2> QED
    BY <2>1, <2>2
<1>7. ASSUME NEW k \in Chunks
      PROVE  EndIndex(k) = StartIndex(k + 1) - 1 /\ EndIndex(k) \in Nat
  <2>1. k \in 1..(LastChunk + 1)
    BY <1>3
  <2>2. StartIndex(k) \in Nat
    BY <2>1, <1>5
  <2> QED
    BY <1>6, <2>2 DEF EndIndex
<1>8. Returned = StartIndex(LastChunk + 1)
  BY DEF Returned, LastChunk
<1>9. LastChunk + 1 \in 1..(LastChunk + 1)
  BY <1>3
<1> QED
  BY <1>1, <1>2, <1>3, <1>4, <1>5, <1>6, <1>7, <1>8, <1>9

\* Later chunks start at later rows.
LEMMA StartsGrow ==
    ASSUME scenario \in Scenarios
    PROVE  \A j, k \in 1..(LastChunk + 1) : j < k => StartIndex(j) < StartIndex(k)
<1> DEFINE S == {d \in Nat : \A j \in Chunks : j + d + 1 <= LastChunk + 1 =>
                                                StartIndex(j) < StartIndex(j + d + 1)}
<1>1. ASSUME NEW j \in Chunks
      PROVE  /\ StartIndex(j) \in Nat
             /\ StartIndex(j + 1) \in Nat
             /\ StartIndex(j) < StartIndex(j + 1)
  <2>1. j \in 1..(LastChunk + 1) /\ j + 1 \in 1..(LastChunk + 1)
    BY ChunkFacts
  <2>2. StartIndex(j) \in Nat /\ StartIndex(j + 1) \in Nat
    BY <2>1, ChunkFacts
  <2>3. StartIndex(j + 1) = StartIndex(j) + RowCount(j) /\ RowCount(j) \in Nat \ {0}
    BY ChunkFacts
  <2> QED
    BY <2>2, <2>3
<1>2. 0 \in S
  <2>1. \A j \in Chunks : j + 0 + 1 = j + 1
    BY ChunkFacts
  <2> QED
    BY <1>1, <2>1
<1>3. ASSUME NEW d \in Nat, d \in S
      PROVE  d + 1 \in S
  <2> SUFFICES ASSUME NEW j \in Chunks, j + (d + 1) + 1 <= LastChunk + 1
               PROVE  StartIndex(j) < StartIndex(j + (d + 1) + 1)
    OBVIOUS
  <2>1. j + d + 1 <= LastChunk + 1 /\ j + d + 1 \in Chunks /\ (j + d + 1) + 1 = j + (d + 1) + 1
    BY ChunkFacts, SMTT(30)
  <2>2. StartIndex(j) < StartIndex(j + d + 1)
    BY <2>1, <1>3
  <2>3. StartIndex(j + d + 1) < StartIndex((j + d + 1) + 1)
    BY <2>1, <1>1
  <2>4. StartIndex(j) \in Nat /\ StartIndex(j + d + 1) \in Nat /\ StartIndex((j + d + 1) + 1) \in Nat
    BY <2>1, <1>1
  <2> QED
    BY <2>1, <2>2, <2>3, <2>4
<1> HIDE DEF S
<1>4. \A d \in Nat : d \in S
  BY <1>2, <1>3, Induction
<1>5. ASSUME NEW j \in 1..(LastChunk + 1), NEW k \in 1..(LastChunk + 1), j < k
      PROVE  StartIndex(j) < StartIndex(k)
  <2>1. k - j - 1 \in Nat /\ j + (k - j - 1) + 1 = k /\ j \in Chunks /\ k <= LastChunk + 1
    BY <1>5, ChunkFacts
  <2> DEFINE d == k - j - 1
  <2>2. d \in S
    BY <2>1, <1>4
  <2>3. j + d + 1 <= LastChunk + 1 => StartIndex(j) < StartIndex(j + d + 1)
    BY <2>1, <2>2 DEF S
  <2> QED
    BY <2>1, <2>3
<1> QED
  BY <1>5

\* No row of the result is between two chunks.
LEMMA EveryRowInAChunk ==
    ASSUME scenario \in Scenarios, NEW r \in Nat, r < Returned
    PROVE  \E k \in Chunks : StartIndex(k) <= r /\ r <= EndIndex(k)
<1> DEFINE T == {k \in 1..(LastChunk + 1) : r < StartIndex(k)}
<1>1. LastChunk + 1 \in T
  BY ChunkFacts
<1>2. T \subseteq Nat /\ T # {}
  BY <1>1, ChunkFacts
<1> HIDE DEF T
<1>3. PICK x \in T : \A y \in T : x <= y
  BY <1>2, LeastNatural
<1>4. x \in 1..(LastChunk + 1) /\ r < StartIndex(x)
  BY DEF T
<1>5. x # 1
  BY <1>4, ChunkFacts
<1>6. x - 1 \in Chunks /\ x - 1 \in 1..(LastChunk + 1) /\ (x - 1) + 1 = x /\ x - 1 \in Nat
  BY <1>4, <1>5, ChunkFacts
<1>7. x - 1 \notin T
  BY <1>3, <1>4, <1>6
<1>8. ~(r < StartIndex(x - 1)) /\ StartIndex(x - 1) \in Nat
  BY <1>6, <1>7, ChunkFacts DEF T
<1>9. EndIndex(x - 1) = StartIndex(x) - 1 /\ StartIndex(x) \in Nat
  BY <1>4, <1>6, ChunkFacts
<1> QED
  BY <1>4, <1>6, <1>8, <1>9

\* The three cases of overlapsWithWindow say that chunk and window have a row in common.
LEMMA OverlapFacts ==
    ASSUME scenario \in Scenarios, NEW w, w.start \in Int, w.end \in Int, w.start <= w.end,
           NEW k \in Chunks
    PROVE  k \in Overlapping(w) <=> StartIndex(k) <= w.end /\ w.start <= EndIndex(k)
<1>1. StartIndex(k) \in Nat /\ EndIndex(k) \in Nat /\ StartIndex(k) <= EndIndex(k)
  <2>1. k \in 1..(LastChunk + 1)
    BY ChunkFacts
  <2> QED
    BY <2>1, ChunkFacts
<1>2. overlapsWithWindow(k, w) <=> StartIndex(k) <= w.end /\ w.start <= EndIndex(k)
  BY <1>1 DEF overlapsWithWindow
<1> QED
  BY <1>2 DEF Overlapping

-----------------------------------------------------------------------------
(* Queues of callbacks                                                     *)

\* The elements of q that are in X, and that there is at most one of them.
Within(q, X) == {q[i] : i \in DOMAIN q} \cap X
Single(q, X) == \A i, j \in DOMAIN q : q[i] \in X /\ q[j] \in X => i = j

\* The first row of window w that is not in a chunk before chunk k.
From(k, w) ==
    IF StartIndex(k) < w.start THEN w.start
    ELSE IF StartIndex(k) > w.end + 1 THEN w.end + 1 ELSE StartIndex(k)

\* Within and Single in terms of the elements of a sequence.
LEMMA WithinFacts ==
    ASSUME NEW S, NEW q \in Seq(S), NEW X
    PROVE  /\ \A c : c \in Within(q, X) <=> c \in X /\ \E i \in 1..Len(q) : q[i] = c
           /\ Single(q, X) <=> \A i, j \in 1..Len(q) : q[i] \in X /\ q[j] \in X => i = j
<1>1. DOMAIN q = 1..Len(q)
  BY LenProperties
<1> QED
  BY <1>1 DEF Within, Single

\* Within and Single of the empty sequence,
LEMMA WithinEmpty ==
    ASSUME NEW X
    PROVE  Within(<<>>, X) = {} /\ Single(<<>>, X)
BY DEF Within, Single

\* of a sequence to which an element is appended,
LEMMA WithinAppend ==
    ASSUME NEW S, NEW q \in Seq(S), NEW c \in S, NEW X
    PROVE  /\ Within(Append(q, c), X) = Within(q, X) \cup ({c} \cap X)
           /\ Single(q, X) /\ (c \in X => Within(q, X) = {}) => Single(Append(q, c), X)
<1>0. PICK p : p = Append(q, c)
  OBVIOUS
<1>1. /\ Len(q) \in Nat
      /\ p \in Seq(S)
      /\ Len(p) = Len(q) + 1
      /\ \A i \in 1..Len(q) : p[i] = q[i]
      /\ p[Len(q) + 1] = c
  BY <1>0, AppendProperties, LenProperties
<1>2. /\ \A d : d \in Within(p, X) <=> d \in X /\ \E i \in 1..Len(p) : p[i] = d
      /\ Single(p, X) <=> \A i, j \in 1..Len(p) : p[i] \in X /\ p[j] \in X => i = j
  BY <1>1, WithinFacts
<1>3. /\ \A d : d \in Within(q, X) <=> d \in X /\ \E i \in 1..Len(q) : q[i] = d
      /\ Single(q, X) <=> \A i, j \in 1..Len(q) : q[i] \in X /\ q[j] \in X => i = j
  BY WithinFacts
<1>4. \A i \in 1..Len(p) : i \in 1..Len(q) \/ i = Len(q) + 1
  BY <1>1
<1>5. \A i \in 1..Len(q) : i \in 1..Len(p)
  BY <1>1
<1>6. Len(q) + 1 \in 1..Len(p)
  BY <1>1
<1>7. ASSUME NEW d PROVE d \in Within(p, X) <=> d \in Within(q, X) \cup ({c} \cap X)
  BY <1>1, <1>2, <1>3, <1>4, <1>5, <1>6
<1>8. ASSUME Single(q, X), c \in X => Within(q, X) = {}
      PROVE  Single(p, X)
  <2> SUFFICES ASSUME NEW i \in 1..Len(p), NEW j \in 1..Len(p), p[i] \in X, p[j] \in X
               PROVE  i = j
    BY <1>2
  <2>1. CASE i \in 1..Len(q) /\ j \in 1..Len(q)
    BY <2>1, <1>1, <1>3, <1>8
  <2>2. CASE i = Len(q) + 1 \/ j = Len(q) + 1
    <3>1. CASE c \in X
      <4>1. \A m \in 1..Len(q) : q[m] \notin X
        BY <3>1, <1>3, <1>8
      <4> QED
        BY <4>1, <1>1, <1>4
    <3>2. CASE c \notin X
      BY <3>2, <2>2, <1>1
    <3> QED BY <3>1, <3>2
  <2> QED
    BY <2>1, <2>2, <1>4
<1>9. Within(p, X) = Within(q, X) \cup ({c} \cap X)
  BY <1>7
<1> QED
  BY <1>0, <1>8, <1>9

\* of two sequences in a row,
LEMMA WithinConcat ==
    ASSUME NEW S, NEW p \in Seq(S), NEW q \in Seq(S), NEW X
    PROVE  /\ Within(p \o q, X) = Within(p, X) \cup Within(q, X)
           /\ Single(p, X) /\ Single(q, X) /\ (Within(p, X) = {} \/ Within(q, X) = {})
                 => Single(p \o q, X)
<1>0. PICK r : r = p \o q
  OBVIOUS
<1>1. /\ Len(p) \in Nat /\ Len(q) \in Nat
      /\ r \in Seq(S)
      /\ Len(r) = Len(p) + Len(q)
      /\ \A i \in 1 .. Len(p) + Len(q) : r[i] = IF i <= Len(p) THEN p[i] ELSE q[i - Len(p)]
  BY <1>0, ConcatProperties, LenProperties
<1>2. /\ \A d : d \in Within(p, X) <=> d \in X /\ \E i \in 1..Len(p) : p[i] = d
      /\ Single(p, X) <=> \A i, j \in 1..Len(p) : p[i] \in X /\ p[j] \in X => i = j
  BY WithinFacts
<1>3. /\ \A d : d \in Within(q, X) <=> d \in X /\ \E i \in 1..Len(q) : q[i] = d
      /\ Single(q, X) <=> \A i, j \in 1..Len(q) : q[i] \in X /\ q[j] \in X => i = j
  BY WithinFacts
<1>4. /\ \A d : d \in Within(r, X) <=> d \in X /\ \E i \in 1..Len(r) : r[i] = d
      /\ Single(r, X) <=> \A i, j \in 1..Len(r) : r[i] \in X /\ r[j] \in X => i = j
  BY <1>1, WithinFacts
<1>5. ASSUME NEW i \in 1..Len(r)
      PROVE  \/ i \in 1..Len(p) /\ r[i] = p[i]
             \/ i - Len(p) \in 1..Len(q) /\ r[i] = q[i - Len(p)]
  BY <1>1
<1>6. ASSUME NEW i \in 1..Len(p)
      PROVE  i \in 1..Len(r) /\ r[i] = p[i]
  BY <1>1
<1>7. ASSUME NEW i \in 1..Len(q)
      PROVE  i + Len(p) \in 1..Len(r) /\ r[i + Len(p)] = q[i]
  <2>1. i + Len(p) \in 1..(Len(p) + Len(q)) /\ ~(i + Len(p) <= Len(p)) /\ (i + Len(p)) - Len(p) = i
    BY <1>1
  <2> QED
    BY <2>1, <1>1
<1>8. ASSUME NEW d PROVE d \in Within(r, X) <=> d \in Within(p, X) \cup Within(q, X)
  <2>1. d \in Within(r, X) => d \in Within(p, X) \cup Within(q, X)
    <3>1. ASSUME NEW i \in 1..Len(r), r[i] = d, d \in X
          PROVE  d \in Within(p, X) \cup Within(q, X)
      <4>1. CASE i \in 1..Len(p) /\ r[i] = p[i]
        BY <4>1, <3>1, <1>2
      <4>2. CASE i - Len(p) \in 1..Len(q) /\ r[i] = q[i - Len(p)]
        BY <4>2, <3>1, <1>3
      <4> QED
        BY <4>1, <4>2, <1>5
    <3> QED
      BY <3>1, <1>4
  <2>2. d \in Within(p, X) => d \in Within(r, X)
    BY <1>2, <1>4, <1>6
  <2>3. d \in Within(q, X) => d \in Within(r, X)
    <3>1. ASSUME NEW i \in 1..Len(q), q[i] = d, d \in X
          PROVE  d \in Within(r, X)
      <4>1. i + Len(p) \in 1..Len(r) /\ r[i + Len(p)] = d
        BY <3>1, <1>7
      <4> QED
        BY <4>1, <3>1, <1>4
    <3> QED
      BY <3>1, <1>3
  <2> QED
    BY <2>1, <2>2, <2>3
<1>9. ASSUME Single(p, X), Single(q, X), Within(p, X) = {} \/ Within(q, X) = {}
      PROVE  Single(r, X)
  <2> SUFFICES ASSUME NEW i \in 1..Len(r), NEW j \in 1..Len(r), r[i] \in X, r[j] \in X
               PROVE  i = j
    BY <1>4
  <2>1. CASE Within(p, X) = {}
    <3>1. \A m \in 1..Len(p) : p[m] \notin X
      BY <2>1, <1>2
    <3>2. i - Len(p) \in 1..Len(q) /\ r[i] = q[i - Len(p)]
      BY <3>1, <1>5
    <3>3. j - Len(p) \in 1..Len(q) /\ r[j] = q[j - Len(p)]
      BY <3>1, <1>5
    <3>4. i - Len(p) = j - Len(p)
      BY <3>2, <3>3, <1>3, <1>9
    <3> QED
      BY <3>4, <1>1
  <2>2. CASE Within(q, X) = {}
    <3>1. \A m \in 1..Len(q) : q[m] \notin X
      BY <2>2, <1>3
    <3>2. i \in 1..Len(p) /\ r[i] = p[i]
      BY <3>1, <1>5
    <3>3. j \in 1..Len(p) /\ r[j] = p[j]
      BY <3>1, <1>5
    <3> QED
      BY <3>2, <3>3, <1>2, <1>9
  <2> QED
    BY <2>1, <2>2, <1>9
<1>10. Within(r, X) = Within(p, X) \cup Within(q, X)
  BY <1>8
<1> QED
  BY <1>0, <1>9, <1>10

\* and of a sequence and its tail.
LEMMA WithinTail ==
    ASSUME NEW S, NEW q \in Seq(S), q # <<>>, NEW X
    PROVE  /\ Head(q) \in S /\ Tail(q) \in Seq(S)
           /\ Within(q, X) = Within(Tail(q), X) \cup ({Head(q)} \cap X)
           /\ Single(q, X) => /\ Single(Tail(q), X)
                              /\ Head(q) \in X => Within(Tail(q), X) = {}
<1>0. PICK t : t = Tail(q)
  OBVIOUS
<1>1. /\ Len(q) \in Nat \ {0}
      /\ Head(q) \in S
      /\ t \in Seq(S)
      /\ Len(t) \in Nat
      /\ Len(t) = Len(q) - 1
      /\ \A i \in 1..Len(t) : t[i] = q[i + 1]
      /\ Head(q) = q[1]
  <2>1. Len(q) \in Nat \ {0} /\ Head(q) = q[1]
    BY EmptySeq
  <2>2. /\ Head(q) \in S
        /\ t \in Seq(S)
        /\ Len(t) = Len(q) - 1
        /\ \A i \in 1..Len(t) : t[i] = q[i + 1]
    BY <1>0, HeadTailProperties
  <2> QED
    BY <2>1, <2>2, LenProperties
<1>2. /\ \A d : d \in Within(t, X) <=> d \in X /\ \E i \in 1..Len(t) : t[i] = d
      /\ Single(t, X) <=> \A i, j \in 1..Len(t) : t[i] \in X /\ t[j] \in X => i = j
  BY <1>1, WithinFacts
<1>3. /\ \A d : d \in Within(q, X) <=> d \in X /\ \E i \in 1..Len(q) : q[i] = d
      /\ Single(q, X) <=> \A i, j \in 1..Len(q) : q[i] \in X /\ q[j] \in X => i = j
  BY WithinFacts
<1>4. ASSUME NEW i \in 1..Len(t)
      PROVE  i + 1 \in 1..Len(q) /\ t[i] = q[i + 1] /\ i + 1 # 1
  BY <1>1
<1>5. ASSUME NEW i \in 1..Len(q)
      PROVE  i = 1 \/ (i - 1 \in 1..Len(t) /\ t[i - 1] = q[i])
  <2>1. i # 1 => i - 1 \in 1..Len(t) /\ (i - 1) + 1 = i
    BY <1>1
  <2> QED
    BY <2>1, <1>4
<1>6. 1 \in 1..Len(q)
  BY <1>1
<1>7. ASSUME NEW d PROVE d \in Within(q, X) <=> d \in Within(t, X) \cup ({Head(q)} \cap X)
  <2>1. d \in Within(q, X) => d \in Within(t, X) \cup ({Head(q)} \cap X)
    <3>1. ASSUME NEW i \in 1..Len(q), q[i] = d, d \in X
          PROVE  d \in Within(t, X) \cup ({Head(q)} \cap X)
      <4>1. CASE i = 1
        BY <4>1, <3>1, <1>1
      <4>2. CASE i # 1
        <5>1. i - 1 \in 1..Len(t) /\ t[i - 1] = d
          BY <4>2, <3>1, <1>5
        <5> QED
          BY <5>1, <3>1, <1>2
      <4> QED
        BY <4>1, <4>2
    <3> QED
      BY <3>1, <1>3
  <2>2. d \in Within(t, X) => d \in Within(q, X)
    BY <1>2, <1>3, <1>4
  <2>3. d \in {Head(q)} \cap X => d \in Within(q, X)
    BY <1>1, <1>3, <1>6
  <2> QED
    BY <2>1, <2>2, <2>3
<1>8. ASSUME Single(q, X)
      PROVE  Single(t, X)
  <2> SUFFICES ASSUME NEW i \in 1..Len(t), NEW j \in 1..Len(t), t[i] \in X, t[j] \in X
               PROVE  i = j
    BY <1>2
  <2>1. i + 1 = j + 1
    BY <1>3, <1>4, <1>8
  <2> QED
    BY <2>1
<1>9. ASSUME Single(q, X), Head(q) \in X
      PROVE  Within(t, X) = {}
  <2> SUFFICES ASSUME NEW i \in 1..Len(t), t[i] \in X
               PROVE  FALSE
    BY <1>2
  <2>1. i + 1 = 1
    <3>1. i + 1 \in 1..Len(q) /\ q[i + 1] \in X /\ q[1] \in X
      BY <1>1, <1>4, <1>9
    <3> QED
      BY <3>1, <1>3, <1>6, <1>9
  <2> QED
    BY <2>1, <1>4
<1>10. Within(q, X) = Within(t, X) \cup ({Head(q)} \cap X)
  BY <1>7
<1> QED
  BY <1>0, <1>1, <1>8, <1>9, <1>10

\* The bounds of two numbers.
LEMMA MinMax ==
    ASSUME NEW a \in Int, NEW b \in Int
    PROVE  /\ Min({a, b}) = IF a <= b THEN a ELSE b
           /\ Max({a, b}) = IF a >= b THEN a ELSE b
<1>1. CASE a <= b
  <2>1. \A x \in {a, b} : (\A y \in {a, b} : x <= y) <=> x = a
    BY <1>1
  <2>2. Min({a, b}) = a
    BY <2>1 DEF Min
  <2>3. \A x \in {a, b} : (\A y \in {a, b} : x >= y) <=> x = b
    BY <1>1
  <2>4. Max({a, b}) = b
    BY <2>3 DEF Max
  <2> QED
    BY <1>1, <2>2, <2>4
<1>2. CASE ~(a <= b)
  <2>1. \A x \in {a, b} : (\A y \in {a, b} : x <= y) <=> x = b
    BY <1>2
  <2>2. Min({a, b}) = b
    BY <2>1 DEF Min
  <2>3. \A x \in {a, b} : (\A y \in {a, b} : x >= y) <=> x = a
    BY <1>2
  <2>4. Max({a, b}) = a
    BY <2>3 DEF Max
  <2> QED
    BY <1>2, <2>2, <2>4
<1> QED
  BY <1>1, <1>2

\* The rows from a to b: how many they are, and which.
LEMMA RowsFromFacts ==
    ASSUME NEW a \in Int, NEW b \in Int, a <= b + 1
    PROVE  /\ RowsFrom(a, b) \in Seq(Int)
           /\ Len(RowsFrom(a, b)) = b - a + 1
           /\ \A i \in 1..(b - a + 1) : RowsFrom(a, b)[i] = a + i - 1
           /\ RowsFrom(a, b) = <<>> <=> a = b + 1
<1>1. b - a + 1 \in Nat
  OBVIOUS
<1>2. RowsFrom(a, b) \in [1..(b - a + 1) -> Int]
  BY DEF RowsFrom
<1>3. RowsFrom(a, b) \in Seq(Int)
  BY <1>1, <1>2, SeqDef
<1>4. Len(RowsFrom(a, b)) = b - a + 1
  BY <1>1, <1>2, <1>3
<1>5. \A i \in 1..(b - a + 1) : RowsFrom(a, b)[i] = a + i - 1
  BY DEF RowsFrom
<1> QED
  BY <1>3, <1>4, <1>5

\* A sequence of consecutive numbers is determined by its first number and length.
LEMMA RowsFromIs ==
    ASSUME NEW a \in Int, NEW b \in Int, a <= b + 1, NEW q \in Seq(Int), Len(q) = b - a + 1,
           \A i \in 1..Len(q) : q[i] = a + i - 1
    PROVE  q = RowsFrom(a, b)
<1>1. PICK r : r = RowsFrom(a, b)
  OBVIOUS
<1>2. r \in Seq(Int) /\ Len(r) = b - a + 1 /\ \A i \in 1..(b - a + 1) : r[i] = a + i - 1
  BY <1>1, RowsFromFacts
<1>3. Len(q) = Len(r) /\ \A i \in 1..Len(q) : q[i] = r[i]
  BY <1>2
<1>4. q = r
  BY ONLY <1>2, <1>3, q \in Seq(Int), SeqEqual
<1> QED
  BY <1>1, <1>4

\* A part of consecutive rows is consecutive rows.
LEMMA SubRows ==
    ASSUME NEW a \in Int, NEW b \in Int, NEW m \in Int, NEW n \in Int,
           1 <= m, m <= n + 1, n <= b - a + 1
    PROVE  SubSeq(RowsFrom(a, b), m, n) = RowsFrom(a + m - 1, a + n - 1)
<1>1. PICK r : r = RowsFrom(a, b)
  OBVIOUS
<1>2. r \in Seq(Int) /\ \A i \in 1..(b - a + 1) : r[i] = a + i - 1
  <2>1. a <= b + 1
    OBVIOUS
  <2> QED
    BY <1>1, <2>1, RowsFromFacts
<1>3. \A i \in m..n : r[i] = a + i - 1 /\ r[i] \in Int
  BY <1>2
<1>4. PICK q : q = SubSeq(r, m, n)
  OBVIOUS
<1>5. /\ q \in Seq(Int)
      /\ Len(q) = IF m <= n THEN n - m + 1 ELSE 0
      /\ \A i \in 1 .. n - m + 1 : q[i] = r[m + i - 1]
  BY <1>3, <1>4, SubSeqProperties
<1>6. PICK c, d : c = a + m - 1 /\ d = a + n - 1
  OBVIOUS
<1>7. c \in Int /\ d \in Int /\ c <= d + 1 /\ Len(q) = d - c + 1
  BY <1>5, <1>6
<1>8. ASSUME NEW i \in 1..Len(q)
      PROVE  q[i] = c + i - 1
  <2>1. i \in 1..(n - m + 1) /\ m + i - 1 \in m..n
    BY <1>5
  <2>2. q[i] = r[m + i - 1] /\ r[m + i - 1] = a + (m + i - 1) - 1
    BY <2>1, <1>3, <1>5
  <2> QED
    BY <2>1, <2>2, <1>6
<1>9. q = RowsFrom(c, d)
  BY ONLY <1>5, <1>7, <1>8, RowsFromIs
<1> QED
  BY <1>1, <1>4, <1>6, <1>9

\* The rows of a window are cut at the chunks' boundaries in order, and a chunk that
\* overlaps with the window has one.
LEMMA FromFacts ==
    ASSUME scenario \in Scenarios, NEW w, w.start \in Int, w.end \in Int, w.start <= w.end,
           NEW k \in Chunks
    PROVE  /\ From(k, w) \in w.start..(w.end + 1)
           /\ From(k + 1, w) \in w.start..(w.end + 1)
           /\ From(k, w) <= From(k + 1, w)
           /\ k \in Overlapping(w) => From(k, w) < From(k + 1, w)
<1>1. k \in 1..(LastChunk + 1) /\ k + 1 \in 1..(LastChunk + 1)
  BY ChunkFacts, SMTT(30)
<1>2. /\ StartIndex(k) \in Nat
      /\ StartIndex(k + 1) \in Nat
      /\ StartIndex(k + 1) = StartIndex(k) + RowCount(k)
      /\ RowCount(k) \in Nat \ {0}
      /\ EndIndex(k) = StartIndex(k + 1) - 1
  BY <1>1, ChunkFacts
<1>3. k \in Overlapping(w) <=> StartIndex(k) <= w.end /\ w.start <= EndIndex(k)
  BY OverlapFacts
<1> QED
  BY <1>2, <1>3 DEF From

\* onResultStreamData takes from chunk k the rows of the window up to the next chunk.
LEMMA SliceFacts ==
    ASSUME scenario \in Scenarios, NEW w, w.start \in Int, w.end \in Int, w.start <= w.end,
           NEW k \in Chunks, k \in Overlapping(w)
    PROVE  Slice(k, k, w) = RowsFrom(From(k, w), From(k + 1, w) - 1)
<1>1. k \in 1..(LastChunk + 1)
  BY ChunkFacts
<1>2. PICK a, e, n, x, y : /\ a = StartIndex(k) /\ e = EndIndex(k) /\ n = RowCount(k)
                           /\ x = w.start /\ y = w.end
  OBVIOUS
<1>3. a \in Nat /\ n \in Nat \ {0} /\ e = a + n - 1 /\ StartIndex(k + 1) = a + n
  BY <1>1, <1>2, ChunkFacts
<1>4. a <= y /\ x <= e /\ x \in Int /\ y \in Int /\ x <= y
  BY <1>2, OverlapFacts
<1>5. PICK f, t : /\ f = (IF a >= x THEN a ELSE x) - a
                  /\ t = (IF e <= y THEN e ELSE y) + 1 - a
  OBVIOUS
<1>6. f \in Int /\ t \in Int /\ 0 <= f /\ f < t /\ t <= n
  BY ONLY <1>3, <1>4, <1>5
<1>7. Max({a, x}) = (IF a >= x THEN a ELSE x) /\ Min({e, y}) = IF e <= y THEN e ELSE y
  <2>1. a \in Int /\ e \in Int
    BY ONLY <1>3
  <2> QED
    BY ONLY <1>4, <2>1, MinMax
<1>8. Min({t, n}) = t
  <2>1. n \in Int
    BY ONLY <1>3
  <2> QED
    BY ONLY <1>6, <2>1, MinMax
<1>9. Max({a, x}) - a = f /\ Min({e, y}) + 1 - a = t
  BY ONLY <1>5, <1>7
<1>10. Slice(k, k, w) = SubSeq(RowsFrom(a, e), f + 1, t)
  BY <1>2, <1>8, <1>9 DEF Slice
<1>11. SubSeq(RowsFrom(a, e), f + 1, t) = RowsFrom(a + (f + 1) - 1, a + t - 1)
  <2>1. a \in Int /\ e \in Int /\ f + 1 \in Int /\ t \in Int /\ 1 <= f + 1 /\ f + 1 <= t + 1 /\ t <= e - a + 1
    BY ONLY <1>3, <1>6
  <2> QED
    BY ONLY <2>1, SubRows, ZenonT(60)
<1>12. From(k, w) = a + (f + 1) - 1 /\ From(k + 1, w) = a + t
  <2>1. From(k, w) = IF a < x THEN x ELSE IF a > y + 1 THEN y + 1 ELSE a
    BY ONLY <1>2 DEF From
  <2>2. From(k + 1, w) = IF a + n < x THEN x ELSE IF a + n > y + 1 THEN y + 1 ELSE a + n
    BY ONLY <1>2, <1>3 DEF From
  <2> QED
    BY ONLY <2>1, <2>2, <1>3, <1>4, <1>5
<1>13. PICK g, h : g = a + (f + 1) - 1 /\ h = a + t - 1
  OBVIOUS
<1>14. From(k, w) = g /\ From(k + 1, w) - 1 = h
  <2>1. PICK x1, x2 : x1 = From(k, w) /\ x2 = From(k + 1, w)
    OBVIOUS
  <2>2. x1 = g /\ x2 - 1 = h
    BY ONLY <2>1, <1>3, <1>6, <1>12, <1>13
  <2> QED
    BY ONLY <2>1, <2>2, Zenon
<1>15. SubSeq(RowsFrom(a, e), f + 1, t) = RowsFrom(g, h)
  BY ONLY <1>11, <1>13
<1> QED
  BY ONLY <1>10, <1>14, <1>15, Zenon

\* It takes rows of the result, whatever the chunk holds.
LEMMA SliceType ==
    ASSUME scenario \in Scenarios, NEW w, w.start \in Int, w.end \in Int,
           NEW k \in Chunks, NEW r \in Chunks
    PROVE  Slice(k, r, w) \in Seq(0..(Returned - 1))
<1>1. LastChunk \in Nat /\ k \in 1..(LastChunk + 1) /\ r \in 1..(LastChunk + 1) /\ r + 1 \in 1..(LastChunk + 1)
  <2>1. k \in 1..LastChunk /\ r \in 1..LastChunk /\ LastChunk \in Nat
    BY ChunkFacts
  <2> QED
    BY ONLY <2>1
<1>2. PICK a, e, b, n, z : /\ a = StartIndex(k) /\ e = EndIndex(k)
                        /\ b = StartIndex(r) /\ n = RowCount(r) /\ z = Returned
  OBVIOUS
<1>3. a \in Nat /\ e \in Nat /\ b \in Nat /\ n \in Nat \ {0} /\ z \in Nat
  BY <1>1, <1>2, ChunkFacts
<1>4. EndIndex(r) = b + n - 1
  BY <1>2, <1>3, ChunkFacts
<1>5. b + n <= z
  <2>1. StartIndex(r + 1) = b + n /\ z = StartIndex(LastChunk + 1)
    BY <1>2, ChunkFacts
  <2>2. r + 1 = LastChunk + 1 \/ r + 1 < LastChunk + 1
    BY ONLY <1>1
  <2>3. LastChunk + 1 \in 1..(LastChunk + 1)
    BY ONLY <1>1
  <2>4. r + 1 < LastChunk + 1 => StartIndex(r + 1) < StartIndex(LastChunk + 1)
    BY <1>1, <2>3, StartsGrow
  <2> QED
    BY ONLY <1>3, <2>1, <2>2, <2>4
<1>6. PICK f, t : /\ f = Max({a, w.start}) - a
                  /\ t = Min({e, w.end}) + 1 - a
  OBVIOUS
<1>7. f \in Nat /\ t \in Int
  <2>1. a \in Int /\ e \in Int /\ w.start \in Int /\ w.end \in Int
    BY <1>3
  <2>2. Max({a, w.start}) = (IF a >= w.start THEN a ELSE w.start) /\ Min({e, w.end}) = IF e <= w.end THEN e ELSE w.end
    BY ONLY <2>1, MinMax
  <2> QED
    BY ONLY <2>1, <2>2, <1>6
<1>8. PICK u : u = Min({t, n})
  OBVIOUS
<1>9. u \in Int /\ u <= n
  <2>1. n \in Int /\ t \in Int
    BY ONLY <1>3, <1>7
  <2>2. u = IF t <= n THEN t ELSE n
    BY ONLY <1>8, <2>1, MinMax
  <2> QED
    BY ONLY <2>1, <2>2
<1>10. PICK q : q = RowsFrom(b, b + n - 1)
  OBVIOUS
<1>11. Slice(k, r, w) = SubSeq(q, f + 1, u)
  BY ONLY <1>2, <1>4, <1>6, <1>8, <1>10 DEF Slice
<1>12. \A i \in 1..n : q[i] = b + i - 1
  <2>1. b \in Int /\ b + n - 1 \in Int /\ b <= (b + n - 1) + 1 /\ (b + n - 1) - b + 1 = n
    BY ONLY <1>3
  <2>2. \A i \in 1..((b + n - 1) - b + 1) : RowsFrom(b, b + n - 1)[i] = b + i - 1
    BY ONLY <2>1, RowsFromFacts
  <2> QED
    BY ONLY <2>1, <2>2, <1>10
<1>13. ASSUME NEW i \in (f + 1)..u
       PROVE  q[i] \in 0..(z - 1)
  <2>1. i \in 1..n
    BY ONLY <1>3, <1>7, <1>9, i \in (f + 1)..u
  <2> QED
    BY ONLY <2>1, <1>3, <1>5, <1>12
<1>14. f + 1 \in Int
  BY ONLY <1>7
<1>15. SubSeq(q, f + 1, u) \in Seq(0..(z - 1))
  BY ONLY <1>9, <1>13, <1>14, SubSeqProperties
<1> QED
  BY ONLY <1>2, <1>11, <1>15

-----------------------------------------------------------------------------
(* The inductive invariant                                                 *)

\* The callbacks that stream s may have.
CallsOf(s) == {c \in Callback : c.fn # "completeLoad" /\ c.stream = s}

\* The callbacks due for a stream; the ticks of a chunk; whether a stream waits for
\* the statement, or for a chunk.
Calls(s)    == Within(pending, CallsOf(s))
Loads(k)    == Within(pending, {CompleteLoad(k)})
Queued(s)   == Within(onComplete, {s})
Waits(s, k) == Within(listeners[k], {s})

\* No refresh moves the urls under a stream that goes on reading.
Sound == Alone \/ Shift = 0

\* How far a stream has got: not initialized, without rows, or reading its chunks.
Stage(s) ==
    LET st == stream[s]
        w  == stream[s].window
    IN  /\ ~st.initialized =>
              st.current = None /\ w \in scenario.windows /\ st.phase \in {"idle", "waiting"}
        /\ st.current = None =>
              /\ st.previous = None /\ st.buffer = <<>> /\ st.out = <<>>
              /\ st.initialized => st.phase = "failed" \/ (w.start > w.end /\ st.phase # "idle")
        /\ st.current # None =>
              /\ st.current \in 1..(LastChunk + 1)
              /\ 0 <= w.start /\ w.start <= w.end /\ w.end < Returned
              /\ st.current <= LastChunk => w.start <= EndIndex(st.current)
              /\ st.previous \in {None, st.current - 1}

\* What a callback finds.
CallInv(s) ==
    LET st == stream[s]
    IN  \A c \in Calls(s) :
            /\ st.phase = "waiting"
            /\ c.fn = "init" => ~st.initialized
            /\ c.fn # "init" => st.initialized /\ st.refreshing = "no"
            /\ c.fn = "onResultStreamData" =>
                  st.buffer = <<>> /\ c.chunk = st.current /\ c.chunk \in Overlapping(st.window)
            /\ c.fn = "onResultStreamClose" =>
                  /\ st.buffer = <<>>
                  /\ c.err = "none" => st.current \notin Overlapping(st.window)
                  /\ c.err # "none" => st.current # None
            /\ c.fn = "pushRows" => st.current # None

\* A stream waits for one thing at a time: a callback, the statement, a chunk, or a
\* refresh.
OnceInv(s) ==
    /\ Single(pending, CallsOf(s))
    /\ Single(onComplete, {s})
    /\ \A k \in Chunks : Single(listeners[k], {s})

\* What a stream that waits for the statement,
QueuedInv(s) ==
    Queued(s) # {} =>
        /\ stream[s].phase = "waiting" /\ ~stream[s].initialized /\ stream[s].refreshing = "no"
        /\ Calls(s) = {} /\ statement = "fetching"

\* for a chunk,
ListenInv(s) ==
    \A k \in Chunks : Waits(s, k) # {} =>
        /\ stream[s].phase = "waiting" /\ stream[s].initialized /\ stream[s].refreshing = "no"
        /\ Calls(s) = {} /\ stream[s].buffer = <<>>
        /\ stream[s].current = k /\ k \in Overlapping(stream[s].window)

\* or for a refresh finds.
RefreshInv(s) ==
    /\ stream[s].refreshing = "init" =>
          /\ stream[s].phase = "waiting" /\ ~stream[s].initialized
          /\ Alone /\ Calls(s) = {} => statement = "transient"
    /\ stream[s].refreshing = "stream" =>
          /\ stream[s].phase = "waiting" /\ stream[s].initialized
          /\ Calls(s) = {} /\ stream[s].buffer = <<>> /\ stream[s].current # None
    /\ stream[s].initialized \/ stream[s].refreshing # "no" \/ Calls(s) # {}
          => statement # "fetching"

WaitInv(s) == OnceInv(s) /\ QueuedInv(s) /\ ListenInv(s) /\ RefreshInv(s)

\* A stream counts the 403s it was told of.
InterruptInv(s) ==
    Shift = 0 /\ scenario.faults \subseteq {"forbidden"} =>
        /\ stream[s].interrupts <= failures
        /\ \A c \in Calls(s) : c.fn = "onResultStreamClose" =>
              /\ c.err \in {"none", "forbidden"}
              /\ c.err = "forbidden" => stream[s].interrupts < failures
        /\ stream[s].phase = "failed" /\ stream[s].current # None => failures > StreamInterrupts

\* The rows that were pushed are the first ones of the window.
PushedInv(s) ==
    LET st == stream[s]
        w  == stream[s].window
    IN  Sound =>
            /\ st.current # None =>
                  /\ st.out = RowsFrom(w.start, w.start + Len(st.out) - 1)
                  /\ w.start + Len(st.out) <= w.end + 1
            /\ st.phase = "ended" /\ st.current # None => w.start + Len(st.out) = w.end + 1

\* Where the row buffer and the callback have got to.
Position(s) ==
    LET st  == stream[s]
        w   == stream[s].window
        nxt == w.start + Len(st.out)
    IN  Sound /\ st.current # None /\ st.phase \in {"idle", "waiting"} =>
            /\ st.buffer = <<>> =>
                  /\ (\A c \in Calls(s) : c.fn # "pushRows") => nxt = From(st.current, w)
                  /\ \A c \in Calls(s) : c.fn = "pushRows" =>
                        nxt = From(st.current, w) - 1 /\ c.row = <<nxt>>
            /\ st.buffer # <<>> =>
                  /\ st.current > 1 /\ st.index > 0
                  /\ st.buffer = RowsFrom(From(st.current - 1, w), From(st.current, w) - 1)
                  /\ (\A c \in Calls(s) : c.fn # "pushRows") =>
                        nxt = From(st.current - 1, w) + st.index
                  /\ \A c \in Calls(s) : c.fn = "pushRows" =>
                        nxt = From(st.current - 1, w) + st.index - 1

\* A crash leaves the streams where they are.
StreamInv(s) ==
    /\ Stage(s)
    /\ InterruptInv(s)
    /\ PushedInv(s)
    /\ ~crashed => CallInv(s) /\ WaitInv(s) /\ Position(s)

\* A chunk is loaded once, and completes once.
LoadInv(k) ==
    /\ Single(pending, {CompleteLoad(k)})
    /\ Loads(k) # {} => k \in completing
    /\ k \in completing => fetch[k] = None
    /\ fetch[k] # None => rows[k] = None

\* The url and the rows of a chunk are its own, up to the refresh that throws.
Own(k) ==
    \/ /\ url[k] = (IF k <= Shift THEN None ELSE k)
       /\ rows[k] \in {None, k}
       /\ fetch[k] \in {None, k}
    \/ \A s \in scenario.streams : stream[s].phase = "failed"

\* The stream is going to load the chunk, or has failed.
WillLoad(s, k) ==
    \/ stream[s].phase = "failed"
    \/ /\ stream[s].phase # "ended"
       /\ stream[s].current # None
       /\ k \in Overlapping(stream[s].window)
       /\ k >= stream[s].current

\* The stream is going to drop the chunk; it has asked for it.
Keeps(s, k)   == WillLoad(s, k) \/ (stream[s].phase # "ended" /\ stream[s].previous = k)
Fetches(s, k) == WillLoad(s, k) /\ OnData(s, k) \notin Calls(s)

\* A chunk in memory, or on its way, is still wanted.
Held(k) ==
    /\ rows[k] # None /\ url[k] # None => \E s \in scenario.streams : Keeps(s, k)
    /\ fetch[k] # None => \E s \in scenario.streams : Fetches(s, k)

ChunkInv(k) == LoadInv(k) /\ (Sound => Own(k) /\ Held(k))

\* The inductive invariant.
RowsInv ==
    /\ TypeOK
    /\ \A s \in scenario.streams : StreamInv(s)
    /\ \A k \in Chunks : ChunkInv(k)

-----------------------------------------------------------------------------
(* Chunks that arrive                                                      *)

\* What depends on the scenario alone does not change.
LEMMA Constant ==
    ASSUME scenario' = scenario
    PROVE  /\ Chunks' = Chunks /\ Shift' = Shift /\ LastChunk' = LastChunk /\ Returned' = Returned
           /\ Alone' = Alone /\ Sound' = Sound
           /\ Callback' = Callback /\ StreamState' = StreamState
           /\ \A k : EndIndex(k)' = EndIndex(k)
           /\ \A w : Overlapping(w)' = Overlapping(w)
           /\ \A w : Clip(w)' = Clip(w)
           /\ \A k, w : From(k, w)' = From(k, w)
           /\ \A s : CallsOf(s)' = CallsOf(s)
<1>1. Chunks' = Chunks /\ Shift' = Shift /\ LastChunk' = LastChunk
  BY DEF Shift, Chunks, LastChunk
<1>2. \A k : StartIndex(k)' = StartIndex(k)
  BY <1>1 DEF StartIndex
<1>3. \A k : EndIndex(k)' = EndIndex(k)
  BY <1>1, <1>2 DEF EndIndex, RowCount
<1>4. Returned' = Returned
  BY <1>1, <1>2 DEF Returned
<1>5. Callback' = Callback
  BY <1>1, <1>4 DEF Callback
<1>6. StreamState' = StreamState
  BY <1>1, <1>4 DEF StreamState
<1>7. Alone' = Alone /\ Sound' = Sound
  BY <1>1 DEF Alone, Sound
<1>8. \A w : Overlapping(w)' = Overlapping(w)
  BY <1>1, <1>2, <1>3 DEF Overlapping, overlapsWithWindow
<1>9. \A w : Clip(w)' = Clip(w)
  BY <1>4 DEF Clip
<1>10. \A k, w : From(k, w)' = From(k, w)
  BY <1>2 DEF From
<1>11. \A s : CallsOf(s)' = CallsOf(s)
  BY <1>5 DEF CallsOf
<1> QED
  BY <1>1, <1>3, <1>4, <1>5, <1>6, <1>7, <1>8, <1>9, <1>10, <1>11

\* What a callback is, by its function.
LEMMA CallKinds ==
    ASSUME NEW c \in Callback
    PROVE  /\ c.fn \in {"completeLoad", "onResultStreamData", "onResultStreamClose", "pushRows", "init"}
           /\ c.fn = "completeLoad" => c.chunk \in Chunks /\ c = CompleteLoad(c.chunk)
           /\ c.fn # "completeLoad" => c.stream \in scenario.streams /\ c \in CallsOf(c.stream)
           /\ c.fn = "onResultStreamData" => c.chunk \in Chunks /\ c = OnData(c.stream, c.chunk)
           /\ c.fn = "onResultStreamClose" =>
                 c.err \in {"none", "forbidden", "other"} /\ c = OnClose(c.stream, c.err)
           /\ c.fn = "pushRows" => c.row \in Seq(0..(Returned - 1)) /\ c = PushRows(c.stream, c.row)
           /\ c.fn = "init" => c = InitStream(c.stream)
BY DEF Callback, CallsOf, CompleteLoad, OnData, OnClose, PushRows, InitStream

\* Whose the callbacks are; those of two streams differ.
LEMMA NewCalls ==
    /\ \A k \in Chunks : CompleteLoad(k) \in Callback
    /\ \A s \in scenario.streams :
          /\ \A k \in Chunks : OnData(s, k) \in CallsOf(s)
          /\ \A err \in {"none", "forbidden", "other"} : OnClose(s, err) \in CallsOf(s)
          /\ \A row \in Seq(0..(Returned - 1)) : PushRows(s, row) \in CallsOf(s)
          /\ InitStream(s) \in CallsOf(s)
    /\ \A s : CallsOf(s) \subseteq Callback
    /\ \A s, t : s # t => CallsOf(s) \cap CallsOf(t) = {}
    /\ \A s, k : CompleteLoad(k) \notin CallsOf(s)
BY DEF Callback, CallsOf, CompleteLoad, OnData, OnClose, PushRows, InitStream

\* The fields of the callbacks.
LEMMA CallFields ==
    /\ \A s, k : OnData(s, k).fn = "onResultStreamData" /\ OnData(s, k).chunk = k
    /\ \A s, err : OnClose(s, err).fn = "onResultStreamClose" /\ OnClose(s, err).err = err
    /\ \A s, row : PushRows(s, row).fn = "pushRows" /\ PushRows(s, row).row = row
    /\ \A s : InitStream(s).fn = "init"
    /\ \A j, k : CompleteLoad(j) = CompleteLoad(k) => j = k
BY DEF CompleteLoad, OnData, OnClose, PushRows, InitStream

\* The callbacks of a stream, and what it waits for, are as before.
Untouched(t) ==
    /\ stream'[t] = stream[t]
    /\ Within(pending', CallsOf(t)) = Calls(t)
    /\ Single(pending, CallsOf(t)) => Single(pending', CallsOf(t))
    /\ Within(onComplete', {t}) = Queued(t)
    /\ Single(onComplete, {t}) => Single(onComplete', {t})
    /\ \A k \in Chunks : /\ Within(listeners'[k], {t}) = Waits(t, k)
                         /\ Single(listeners[k], {t}) => Single(listeners'[k], {t})

\* A step that does not touch a stream keeps its invariant.
LEMMA UntouchedStream ==
    ASSUME scenario' = scenario, TypeOK, NEW t \in scenario.streams, StreamInv(t),
           ~crashed,
           Untouched(t),
           failures' \in Nat, failures' >= failures,
           \/ statement' = statement
           \/ ~Alone /\ statement # "fetching" /\ statement' # "fetching"
    PROVE  StreamInv(t)'
<1>1. /\ Calls(t)' = Calls(t) /\ Queued(t)' = Queued(t)
      /\ \A k \in Chunks : Waits(t, k)' = Waits(t, k)
      /\ stream'[t] = stream[t]
  BY Constant DEF Untouched, Calls, Queued, Waits
<1>2. Stage(t)'
  BY <1>1, Constant DEF StreamInv, Stage
<1>3. InterruptInv(t)'
  <2>1. failures \in Nat /\ StreamInterrupts \in Nat /\ stream[t].interrupts \in Nat
    BY ResultAssumption DEF TypeOK, StreamState
  <2> QED
    BY <1>1, <2>1, Constant DEF StreamInv, InterruptInv
<1>4. PushedInv(t)'
  BY <1>1, Constant DEF StreamInv, PushedInv
<1>5. CallInv(t)'
  BY <1>1, Constant DEF StreamInv, CallInv
<1>6. Position(t)'
  BY <1>1, Constant DEF StreamInv, Position
<1>7. OnceInv(t)'
  BY <1>1, Constant DEF StreamInv, WaitInv, OnceInv, Untouched
<1>8. QueuedInv(t)'
  BY <1>1, Constant DEF StreamInv, WaitInv, QueuedInv
<1>9. ListenInv(t)'
  BY <1>1, Constant DEF StreamInv, WaitInv, ListenInv
<1>10. RefreshInv(t)'
  BY <1>1, Constant DEF StreamInv, WaitInv, RefreshInv
<1> QED
  BY <1>2, <1>3, <1>4, <1>5, <1>6, <1>7, <1>8, <1>9, <1>10 DEF StreamInv, WaitInv

Told(t, k, err) == IF err = "none" THEN OnData(t, k) ELSE OnClose(t, err)

\* The callback that tells stream t of the end of the load of chunk k.
LEMMA ToldCall ==
    ASSUME NEW k \in Chunks, NEW err \in {"none", "forbidden", "other"}, NEW t \in scenario.streams
    PROVE  /\ Told(t, k, err) \in Callback
           /\ Told(t, k, err) \in CallsOf(t)
           /\ \A j : Told(t, k, err) # CompleteLoad(j)
           /\ \A s : s # t => Told(t, k, err) \notin CallsOf(s)
BY NewCalls DEF Told

\* Every stream that listens to the chunk is told once, no other is.
LEMMA EmitFacts ==
    ASSUME TypeOK, NEW k \in Chunks, NEW err \in {"none", "forbidden", "other"}
    PROVE  /\ Emit(k, err) \in Seq(Callback)
           /\ \A t \in scenario.streams :
                 /\ Waits(t, k) = {} => Within(Emit(k, err), CallsOf(t)) = {}
                 /\ Waits(t, k) # {} => Within(Emit(k, err), CallsOf(t)) = {Told(t, k, err)}
                 /\ Single(listeners[k], {t}) => Single(Emit(k, err), CallsOf(t))
           /\ \A j : /\ Within(Emit(k, err), {CompleteLoad(j)}) = {}
                     /\ Single(Emit(k, err), {CompleteLoad(j)})
<1>1. PICK l : l = listeners[k]
  OBVIOUS
<1>2. PICK e : e = Emit(k, err)
  OBVIOUS
<1>3. l \in Seq(scenario.streams) /\ Len(l) \in Nat /\ DOMAIN l = 1..Len(l)
  BY <1>1, LenProperties DEF TypeOK
<1>4. \A i \in 1..Len(l) : l[i] \in scenario.streams
  BY <1>3
<1>5. e = [i \in 1..Len(l) |-> Told(l[i], k, err)]
  BY <1>1, <1>2, <1>3 DEF Emit, Told
<1>6. \A i \in 1..Len(l) : Told(l[i], k, err) \in Callback
  BY <1>4, ToldCall
<1>7. e \in Seq(Callback) /\ Len(e) = Len(l)
  <2>1. e \in [1..Len(l) -> Callback]
    BY <1>5, <1>6
  <2> QED
    BY <2>1, <1>3
<1>8. \A i \in 1..Len(e) : e[i] = Told(l[i], k, err)
  BY <1>5, <1>7
<1>9. ASSUME NEW t \in scenario.streams, NEW i \in 1..Len(e)
      PROVE  e[i] \in CallsOf(t) <=> l[i] = t
  <2>1. l[i] \in scenario.streams
    BY <1>4, <1>7
  <2> QED
    BY <1>8, <2>1, ToldCall
<1>10. ASSUME NEW t \in scenario.streams
       PROVE  /\ Waits(t, k) = {} => Within(e, CallsOf(t)) = {}
              /\ Waits(t, k) # {} => Within(e, CallsOf(t)) = {Told(t, k, err)}
              /\ Single(l, {t}) => Single(e, CallsOf(t))
  <2>1. /\ \A c : c \in Within(e, CallsOf(t)) <=> c \in CallsOf(t) /\ \E i \in 1..Len(e) : e[i] = c
        /\ Single(e, CallsOf(t)) <=>
              \A i, j \in 1..Len(e) : e[i] \in CallsOf(t) /\ e[j] \in CallsOf(t) => i = j
    BY <1>7, WithinFacts
  <2>2. /\ \A c : c \in Waits(t, k) <=> c \in {t} /\ \E i \in 1..Len(l) : l[i] = c
        /\ Single(l, {t}) <=>
              \A i, j \in 1..Len(l) : l[i] \in {t} /\ l[j] \in {t} => i = j
    BY <1>1, <1>3, WithinFacts DEF Waits
  <2>3. ASSUME NEW c \in Within(e, CallsOf(t))
        PROVE  c = Told(t, k, err) /\ Waits(t, k) # {}
    <3>1. PICK i \in 1..Len(e) : e[i] = c
      BY <2>1
    <3>2. l[i] = t /\ i \in 1..Len(l)
      BY <3>1, <2>1, <1>7, <1>9
    <3>3. c = Told(t, k, err)
      BY <3>1, <3>2, <1>8
    <3>4. t \in Waits(t, k)
      BY <3>2, <2>2
    <3> QED
      BY <3>3, <3>4
  <2>4. ASSUME Waits(t, k) # {}
        PROVE  Told(t, k, err) \in Within(e, CallsOf(t))
    <3>1. PICK i \in 1..Len(l) : l[i] = t
      BY <2>2, <2>4
    <3>2. i \in 1..Len(e) /\ e[i] = Told(t, k, err)
      BY <3>1, <1>7, <1>8
    <3> QED
      BY <3>2, <2>1, ToldCall
  <2>5. Single(l, {t}) => Single(e, CallsOf(t))
    BY <2>1, <2>2, <1>7, <1>9
  <2> QED
    BY <2>3, <2>4, <2>5
<1>11. ASSUME NEW j
       PROVE  /\ Within(e, {CompleteLoad(j)}) = {}
              /\ Single(e, {CompleteLoad(j)})
  <2>1. /\ \A c : c \in Within(e, {CompleteLoad(j)}) <=>
                     c \in {CompleteLoad(j)} /\ \E i \in 1..Len(e) : e[i] = c
        /\ Single(e, {CompleteLoad(j)}) <=>
              \A m, n \in 1..Len(e) : e[m] \in {CompleteLoad(j)} /\ e[n] \in {CompleteLoad(j)} => m = n
    BY <1>7, WithinFacts
  <2>2. \A i \in 1..Len(e) : e[i] # CompleteLoad(j)
    BY <1>4, <1>7, <1>8, ToldCall
  <2> QED
    BY <2>1, <2>2
<1> QED
  BY <1>1, <1>2, <1>7, <1>10, <1>11

\* A stream that waited for chunk k is told; the others are not touched.
LEMMA EmitStep ==
    ASSUME RowsInv, ~crashed, scenario' = scenario,
           NEW k \in Chunks, NEW err \in {"none", "forbidden", "other"}, NEW q \in Seq(Callback),
           \A t \in scenario.streams : Within(q, CallsOf(t)) = Calls(t) /\ Single(q, CallsOf(t)),
           pending' = Emit(k, err) \o q,
           listeners' = Unsubscribe(k),
           stream' = stream, onComplete' = onComplete, statement' = statement,
           failures' \in Nat, failures' >= failures,
           err # "none" => failures' > failures /\ err \in scenario.faults
    PROVE  \A t \in scenario.streams : StreamInv(t)'
<1>1. TypeOK
  BY DEF RowsInv
<1>2. /\ Emit(k, err) \in Seq(Callback)
      /\ \A t \in scenario.streams :
            /\ Waits(t, k) = {} => Within(Emit(k, err), CallsOf(t)) = {}
            /\ Waits(t, k) # {} => Within(Emit(k, err), CallsOf(t)) = {Told(t, k, err)}
            /\ Single(listeners[k], {t}) => Single(Emit(k, err), CallsOf(t))
  BY <1>1, EmitFacts
<1>3. \A X : /\ Within(pending', X) = Within(Emit(k, err), X) \cup Within(q, X)
             /\ /\ Single(Emit(k, err), X) /\ Single(q, X)
                /\ Within(Emit(k, err), X) = {} \/ Within(q, X) = {}
                => Single(pending', X)
  BY <1>2, WithinConcat
<1>4. \A t, j : /\ j \in Chunks /\ j # k => listeners'[j] = listeners[j]
                /\ Within(listeners'[k], {t}) = {} /\ Single(listeners'[k], {t})
  BY <1>1, WithinEmpty DEF Unsubscribe, TypeOK
<1> SUFFICES ASSUME NEW t \in scenario.streams
             PROVE  StreamInv(t)'
  OBVIOUS
<1>5. StreamInv(t) /\ WaitInv(t) /\ OnceInv(t)
  BY DEF RowsInv, StreamInv, WaitInv
<1>6. CASE Waits(t, k) = {}
  <2>1. Within(pending', CallsOf(t)) = Calls(t) /\ Single(pending', CallsOf(t))
    BY <1>2, <1>3, <1>5, <1>6 DEF OnceInv
  <2>2. \A j \in Chunks : /\ Within(listeners'[j], {t}) = Waits(t, j)
                          /\ Single(listeners'[j], {t})
    BY <1>4, <1>5, <1>6 DEF OnceInv, Waits
  <2>3. Untouched(t)
    BY <2>1, <2>2 DEF Untouched, Queued
  <2> QED
    BY <1>1, <1>5, <2>3, UntouchedStream
<1>7. CASE Waits(t, k) # {}
  <2>1. PICK st : st = stream[t]
    OBVIOUS
  <2>2. PICK c : c = Told(t, k, err)
    OBVIOUS
  <2>3. /\ st.phase = "waiting" /\ st.initialized /\ st.refreshing = "no"
        /\ Calls(t) = {} /\ st.buffer = <<>>
        /\ st.current = k /\ k \in Overlapping(st.window)
    BY <1>5, <1>7, <2>1 DEF WaitInv, ListenInv
  <2>4. Calls(t)' = {c} /\ Single(pending, CallsOf(t))'
    BY <1>2, <1>3, <1>5, <1>7, <2>2, <2>3, Constant DEF OnceInv, Calls
  <2>5. \A j \in Chunks : Waits(t, j)' = {} /\ Single(listeners[j], {t})'
    BY <1>4, <1>5, <2>1, <2>3 DEF Waits, WaitInv, ListenInv, OnceInv
  <2>6. Queued(t)' = {} /\ Single(onComplete, {t})'
    BY <1>5, <2>1, <2>3 DEF Queued, WaitInv, QueuedInv, OnceInv
  <2>7. /\ err = "none" => c.fn = "onResultStreamData" /\ c.chunk = k
        /\ err # "none" => c.fn = "onResultStreamClose" /\ c.err = err
    BY <2>2, CallFields DEF Told
  <2>8. st = stream'[t] /\ st \in StreamState
    BY <1>1, <2>1 DEF TypeOK
  <2>9. Stage(t)'
    BY <1>5, <2>1, <2>8, Constant DEF StreamInv, Stage
  <2>10. InterruptInv(t)'
    <3>1. failures \in Nat /\ StreamInterrupts \in Nat /\ st.interrupts \in Nat
      BY <1>1, <2>8, ResultAssumption DEF TypeOK, StreamState
    <3> QED
      BY <1>5, <2>1, <2>3, <2>4, <2>7, <2>8, <3>1, Constant DEF StreamInv, InterruptInv
  <2>11. PushedInv(t)'
    BY <1>5, <2>1, <2>8, Constant DEF StreamInv, PushedInv
  <2>12. k # None
    BY <1>1, ChunkFacts DEF None, TypeOK
  <2>13. CallInv(t)'
    BY <2>3, <2>4, <2>7, <2>8, <2>12, Constant DEF CallInv
  <2>14. Position(t)'
    BY <1>5, <2>1, <2>3, <2>4, <2>7, <2>8, Constant DEF StreamInv, Position
  <2>15. OnceInv(t)' /\ QueuedInv(t)' /\ ListenInv(t)'
    BY <2>4, <2>5, <2>6, Constant DEF OnceInv, QueuedInv, ListenInv
  <2>16. RefreshInv(t)'
    BY <1>5, <2>1, <2>3, <2>4, <2>8, Constant DEF WaitInv, RefreshInv
  <2> QED
    BY <2>9, <2>10, <2>11, <2>13, <2>14, <2>15, <2>16 DEF StreamInv, WaitInv
<1> QED
  BY <1>6, <1>7

\* What a load's end leaves of the callbacks.
LEMMA EmitRest ==
    ASSUME TypeOK, scenario' = scenario,
           NEW k \in Chunks, NEW err \in {"none", "forbidden", "other"}, NEW q \in Seq(Callback),
           \A t \in scenario.streams : Within(q, CallsOf(t)) = Calls(t),
           pending' = Emit(k, err) \o q,
           listeners' = Unsubscribe(k)
    PROVE  /\ pending' \in Seq(Callback)
           /\ listeners' \in [Chunks -> Seq(scenario.streams)]
           /\ \A j : /\ Loads(j)' = Within(q, {CompleteLoad(j)})
                     /\ Single(q, {CompleteLoad(j)}) => Single(pending', {CompleteLoad(j)})
           /\ \A t \in scenario.streams : Calls(t)' \subseteq Calls(t) \cup {Told(t, k, err)}
<1>1. Emit(k, err) \in Seq(Callback)
  BY EmitFacts
<1>2. \A X : /\ Within(pending', X) = Within(Emit(k, err), X) \cup Within(q, X)
             /\ /\ Single(Emit(k, err), X) /\ Single(q, X)
                /\ Within(Emit(k, err), X) = {} \/ Within(q, X) = {}
                => Single(pending', X)
  BY <1>1, WithinConcat
<1>3. pending' \in Seq(Callback)
  BY <1>1, ConcatProperties
<1>4. listeners' \in [Chunks -> Seq(scenario.streams)]
  BY EmptySeq DEF TypeOK, Unsubscribe
<1>5. \A j : /\ Within(Emit(k, err), {CompleteLoad(j)}) = {}
             /\ Single(Emit(k, err), {CompleteLoad(j)})
  BY EmitFacts
<1>6. \A j : CompleteLoad(j)' = CompleteLoad(j)
  BY DEF CompleteLoad
<1>7. \A j : /\ Loads(j)' = Within(q, {CompleteLoad(j)})
             /\ Single(q, {CompleteLoad(j)}) => Single(pending', {CompleteLoad(j)})
  BY <1>2, <1>5, <1>6 DEF Loads
<1>8. \A t \in scenario.streams : Calls(t)' \subseteq Calls(t) \cup {Told(t, k, err)}
  <2> SUFFICES ASSUME NEW t \in scenario.streams
               PROVE  Calls(t)' \subseteq Calls(t) \cup {Told(t, k, err)}
    OBVIOUS
  <2>1. Within(Emit(k, err), CallsOf(t)) \subseteq {Told(t, k, err)}
    BY EmitFacts
  <2> QED
    BY <1>2, <2>1, Constant DEF Calls
<1> QED
  BY <1>3, <1>4, <1>7, <1>8

\* The witnesses of a chunk j other than the one whose load has ended.
LEMMA StillFetched ==
    ASSUME scenario' = scenario, stream' = stream, NEW k, NEW err,
           \A t \in scenario.streams : Calls(t)' \subseteq Calls(t) \cup {Told(t, k, err)},
           NEW j
    PROVE  /\ \A t \in scenario.streams : Keeps(t, j) => Keeps(t, j)'
           /\ j # k => \A t \in scenario.streams : Fetches(t, j) => Fetches(t, j)'
<1>1. \A t : WillLoad(t, j)' <=> WillLoad(t, j)
  BY Constant DEF WillLoad
<1>2. \A t : OnData(t, j)' = OnData(t, j)
  BY DEF OnData
<1>3. j # k => \A t : OnData(t, j) # Told(t, k, err)
  BY CallFields DEF Told
<1> QED
  BY <1>1, <1>2, <1>3 DEF Keeps, Fetches

\* The tick of a chunk that was loaded already keeps the invariant;
LEMMA CompleteLoadStep ==
    ASSUME RowsInv, scenario' = scenario, completeLoad
    PROVE  RowsInv'
<1>1. PICK k : k = Head(pending).chunk
  OBVIOUS
<1>2. /\ ~crashed /\ pending # <<>> /\ Head(pending).fn = "completeLoad"
      /\ completing' = completing \ {k}
      /\ listeners' = Unsubscribe(k)
      /\ pending' = Emit(k, "none") \o Tail(pending)
      /\ statement' = statement /\ url' = url /\ rows' = rows /\ fetch' = fetch
      /\ onComplete' = onComplete /\ stream' = stream /\ failures' = failures /\ crashed' = crashed
  BY <1>1 DEF completeLoad, Due
<1>3. TypeOK
  BY DEF RowsInv
<1>4. pending \in Seq(Callback)
  BY <1>3 DEF TypeOK
<1>5. Head(pending) \in Callback /\ Tail(pending) \in Seq(Callback)
  BY <1>2, <1>4
<1>6. k \in Chunks /\ Head(pending) = CompleteLoad(k)
  BY <1>1, <1>2, <1>5, CallKinds
<1>7. \A X : /\ Within(pending, X) = Within(Tail(pending), X) \cup ({Head(pending)} \cap X)
             /\ Single(pending, X) => /\ Single(Tail(pending), X)
                                      /\ Head(pending) \in X => Within(Tail(pending), X) = {}
  BY <1>2, <1>4, WithinTail
<1>8. \A t \in scenario.streams : /\ Within(Tail(pending), CallsOf(t)) = Calls(t)
                                  /\ Single(Tail(pending), CallsOf(t))
  <2> SUFFICES ASSUME NEW t \in scenario.streams
               PROVE  /\ Within(Tail(pending), CallsOf(t)) = Calls(t)
                      /\ Single(Tail(pending), CallsOf(t))
    OBVIOUS
  <2>1. Head(pending) \notin CallsOf(t)
    BY <1>6, NewCalls
  <2>2. Single(pending, CallsOf(t))
    BY <1>2 DEF RowsInv, StreamInv, WaitInv, OnceInv
  <2>3. Within(pending, CallsOf(t)) = Calls(t)
    BY DEF Calls
  <2>4. /\ Within(pending, CallsOf(t)) = Within(Tail(pending), CallsOf(t)) \cup ({Head(pending)} \cap CallsOf(t))
        /\ Single(pending, CallsOf(t)) => Single(Tail(pending), CallsOf(t))
    BY ONLY <1>7
  <2> QED
    BY ONLY <2>1, <2>2, <2>3, <2>4
<1>9. /\ pending' \in Seq(Callback)
      /\ listeners' \in [Chunks -> Seq(scenario.streams)]
      /\ \A j : /\ Loads(j)' = Within(Tail(pending), {CompleteLoad(j)})
                /\ Single(Tail(pending), {CompleteLoad(j)}) => Single(pending', {CompleteLoad(j)})
      /\ \A t \in scenario.streams : Calls(t)' \subseteq Calls(t) \cup {Told(t, k, "none")}
  BY <1>2, <1>3, <1>5, <1>6, <1>8, EmitRest
<1>10. TypeOK'
  BY <1>2, <1>3, <1>9, Constant DEF TypeOK
<1>11. \A t \in scenario.streams : StreamInv(t)'
  <2>1. failures' \in Nat /\ failures' >= failures
    BY <1>2, <1>3, ResultAssumption DEF TypeOK
  <2> QED
    BY <1>2, <1>5, <1>6, <1>8, <2>1, EmitStep
<1>12. ASSUME NEW j \in Chunks
       PROVE  ChunkInv(j)'
  <2>1. ChunkInv(j) /\ LoadInv(j) /\ k \in completing /\ fetch[k] = None
    BY <1>6, <1>7 DEF RowsInv, ChunkInv, LoadInv, Loads
  <2>2. LoadInv(j)'
    <3>1. Single(pending', {CompleteLoad(j)})
      BY <1>7, <1>9, <2>1 DEF LoadInv
    <3>2. Loads(j)' \subseteq Loads(j)
      BY <1>7, <1>9 DEF Loads
    <3>3. j = k => Loads(j)' = {}
      BY <1>6, <1>7, <1>9, <2>1 DEF LoadInv
    <3>4. CompleteLoad(j)' = CompleteLoad(j)
      BY DEF CompleteLoad
    <3> QED
      BY <1>2, <2>1, <3>1, <3>2, <3>3, <3>4 DEF LoadInv
  <2>3. Sound => Own(j)'
    BY <1>2, <2>1, Constant DEF ChunkInv, Own
  <2>4. Sound => Held(j)'
    <3>1. /\ \A t \in scenario.streams : Keeps(t, j) => Keeps(t, j)'
          /\ j # k => \A t \in scenario.streams : Fetches(t, j) => Fetches(t, j)'
      BY <1>2, <1>9, StillFetched
    <3> QED
      BY <1>2, <2>1, <3>1 DEF ChunkInv, Held
  <2> QED
    BY <2>2, <2>3, <2>4, Constant DEF ChunkInv
<1> QED
  BY <1>10, <1>11, <1>12, Constant DEF RowsInv

\* so does the answer to a download,
LEMMA ChunkArrivesStep ==
    ASSUME RowsInv, scenario' = scenario, NEW k \in Chunks, chunkArrives(k)
    PROVE  RowsInv'
<1>2. /\ ~crashed /\ pending = <<>> /\ fetch[k] # None
      /\ rows' = [rows EXCEPT ![k] = fetch[k]]
      /\ fetch' = [fetch EXCEPT ![k] = None]
      /\ listeners' = Unsubscribe(k)
      /\ pending' = Emit(k, "none")
      /\ statement' = statement /\ url' = url /\ completing' = completing
      /\ onComplete' = onComplete /\ stream' = stream /\ failures' = failures /\ crashed' = crashed
  BY DEF chunkArrives, Quiet
<1>3. TypeOK
  BY DEF RowsInv
<1>5. <<>> \in Seq(Callback) /\ pending' = Emit(k, "none") \o <<>>
  <2>1. Emit(k, "none") \in Seq(Callback)
    BY <1>3, EmitFacts
  <2> QED
    BY <1>2, <2>1, ConcatEmptySeq, EmptySeq
<1>8. \A t \in scenario.streams : /\ Within(<<>>, CallsOf(t)) = Calls(t)
                                  /\ Single(<<>>, CallsOf(t))
  BY <1>2, WithinEmpty DEF Calls
<1>9. /\ pending' \in Seq(Callback)
      /\ listeners' \in [Chunks -> Seq(scenario.streams)]
      /\ \A j : /\ Loads(j)' = Within(<<>>, {CompleteLoad(j)})
                /\ Single(<<>>, {CompleteLoad(j)}) => Single(pending', {CompleteLoad(j)})
      /\ \A t \in scenario.streams : Calls(t)' \subseteq Calls(t) \cup {Told(t, k, "none")}
  BY <1>2, <1>3, <1>5, <1>8, EmitRest
<1>10. TypeOK'
  BY <1>2, <1>3, <1>9, Constant DEF TypeOK
<1>11. \A t \in scenario.streams : StreamInv(t)'
  <2>1. failures' \in Nat /\ failures' >= failures
    BY <1>2, <1>3, ResultAssumption DEF TypeOK
  <2> QED
    BY <1>2, <1>5, <1>8, <2>1, EmitStep
<1>12. ASSUME NEW j \in Chunks
       PROVE  ChunkInv(j)'
  <2>1. ChunkInv(j) /\ LoadInv(j) /\ LoadInv(k)
    BY DEF RowsInv, ChunkInv
  <2>2. LoadInv(j)'
    <3>1. Single(pending', {CompleteLoad(j)}) /\ Loads(j)' = {}
      BY <1>9, WithinEmpty
    <3>4. CompleteLoad(j)' = CompleteLoad(j)
      BY DEF CompleteLoad
    <3> QED
      BY <1>2, <1>3, <2>1, <3>1, <3>4 DEF LoadInv, TypeOK
  <2>3. Sound => Own(j)'
    BY <1>2, <1>3, <2>1, Constant DEF ChunkInv, Own, TypeOK
  <2>4. Sound => Held(j)'
    <3>1. /\ \A t \in scenario.streams : Keeps(t, j) => Keeps(t, j)'
          /\ j # k => \A t \in scenario.streams : Fetches(t, j) => Fetches(t, j)'
      BY <1>2, <1>9, StillFetched
    <3>2. \A t : Fetches(t, j) => Keeps(t, j)
      BY DEF Fetches, Keeps
    <3> QED
      BY <1>2, <1>3, <2>1, <3>1, <3>2 DEF ChunkInv, Held, TypeOK
  <2> QED
    BY <2>2, <2>3, <2>4, Constant DEF ChunkInv
<1> QED
  BY <1>10, <1>11, <1>12, Constant DEF RowsInv

\* and its failure.
LEMMA ChunkFailsStep ==
    ASSUME RowsInv, scenario' = scenario, NEW k \in Chunks,
           NEW err \in scenario.faults \cap {"forbidden", "other"}, chunkFails(k, err)
    PROVE  RowsInv'
<1>2. /\ ~crashed /\ pending = <<>> /\ fetch[k] # None
      /\ failures < MaxFailures /\ failures' = failures + 1
      /\ fetch' = [fetch EXCEPT ![k] = None]
      /\ listeners' = Unsubscribe(k)
      /\ pending' = Emit(k, err)
      /\ statement' = statement /\ url' = url /\ rows' = rows /\ completing' = completing
      /\ onComplete' = onComplete /\ stream' = stream /\ crashed' = crashed
  BY DEF chunkFails, Quiet
<1>3. TypeOK
  BY DEF RowsInv
<1>4. err \in {"none", "forbidden", "other"} /\ err \in scenario.faults
  OBVIOUS
<1>5. <<>> \in Seq(Callback) /\ pending' = Emit(k, err) \o <<>>
  <2>1. Emit(k, err) \in Seq(Callback)
    BY <1>3, <1>4, EmitFacts
  <2> QED
    BY <1>2, <2>1, ConcatEmptySeq, EmptySeq
<1>8. \A t \in scenario.streams : /\ Within(<<>>, CallsOf(t)) = Calls(t)
                                  /\ Single(<<>>, CallsOf(t))
  BY <1>2, WithinEmpty DEF Calls
<1>9. /\ pending' \in Seq(Callback)
      /\ listeners' \in [Chunks -> Seq(scenario.streams)]
      /\ \A j : /\ Loads(j)' = Within(<<>>, {CompleteLoad(j)})
                /\ Single(<<>>, {CompleteLoad(j)}) => Single(pending', {CompleteLoad(j)})
      /\ \A t \in scenario.streams : Calls(t)' \subseteq Calls(t) \cup {Told(t, k, err)}
  BY <1>2, <1>3, <1>4, <1>5, <1>8, EmitRest
<1>6. failures' \in Nat /\ failures' > failures /\ failures' >= failures /\ failures' \in 0..MaxFailures
  BY <1>2, <1>3, ResultAssumption DEF TypeOK
<1>10. TypeOK'
  BY <1>2, <1>3, <1>6, <1>9, Constant DEF TypeOK
<1>11. \A t \in scenario.streams : StreamInv(t)'
  BY <1>2, <1>4, <1>5, <1>6, <1>8, EmitStep
<1>12. ASSUME NEW j \in Chunks
       PROVE  ChunkInv(j)'
  <2>1. ChunkInv(j) /\ LoadInv(j) /\ LoadInv(k)
    BY DEF RowsInv, ChunkInv
  <2>2. LoadInv(j)'
    <3>1. Single(pending', {CompleteLoad(j)}) /\ Loads(j)' = {}
      BY <1>9, WithinEmpty
    <3>4. CompleteLoad(j)' = CompleteLoad(j)
      BY DEF CompleteLoad
    <3> QED
      BY <1>2, <1>3, <2>1, <3>1, <3>4 DEF LoadInv, TypeOK
  <2>3. Sound => Own(j)'
    BY <1>2, <1>3, <2>1, Constant DEF ChunkInv, Own, TypeOK
  <2>4. Sound => Held(j)'
    <3>1. /\ \A t \in scenario.streams : Keeps(t, j) => Keeps(t, j)'
          /\ j # k => \A t \in scenario.streams : Fetches(t, j) => Fetches(t, j)'
      BY <1>2, <1>9, StillFetched
    <3> QED
      BY <1>2, <1>3, <2>1, <3>1 DEF ChunkInv, Held, TypeOK
  <2> QED
    BY <2>2, <2>3, <2>4, Constant DEF ChunkInv
<1> QED
  BY <1>10, <1>11, <1>12, Constant DEF RowsInv

-----------------------------------------------------------------------------
(* Streams that load, take rows and close                                  *)

\* q holds the callbacks that are due, but none of stream s.
Rest(q, s) ==
    /\ q \in Seq(Callback)
    /\ \A t \in scenario.streams : Single(q, CallsOf(t))
    /\ \A t \in scenario.streams \ {s} : Within(q, CallsOf(t)) = Calls(t)
    /\ Within(q, CallsOf(s)) = {}
    /\ \A j \in Chunks : Single(q, {CompleteLoad(j)}) /\ Within(q, {CompleteLoad(j)}) = Loads(j)

\* The step leaves the callbacks C for stream s, and those of the others as they are.
Given(s, C) ==
    /\ pending' \in Seq(Callback)
    /\ \A t \in scenario.streams : Single(pending', CallsOf(t))
    /\ \A t \in scenario.streams \ {s} : Within(pending', CallsOf(t)) = Calls(t)
    /\ Within(pending', CallsOf(s)) = C

\* ... and the ticks of the chunks.
SameLoads ==
    \A j \in Chunks : Single(pending', {CompleteLoad(j)}) /\ Within(pending', {CompleteLoad(j)}) = Loads(j)

\* The parts of the invariant that a callback needs.
LEMMA OnceOf ==
    ASSUME RowsInv, ~crashed
    PROVE  /\ TypeOK
           /\ pending \in Seq(Callback)
           /\ \A t \in scenario.streams : StreamInv(t) /\ OnceInv(t) /\ Single(pending, CallsOf(t))
           /\ \A j \in Chunks : Single(pending, {CompleteLoad(j)})
BY DEF RowsInv, StreamInv, WaitInv, OnceInv, ChunkInv, LoadInv, TypeOK

\* The callback that runs was the only one of its stream.
LEMMA TailRest ==
    ASSUME RowsInv, ~crashed, pending # <<>>, NEW s \in scenario.streams, Head(pending) \in CallsOf(s)
    PROVE  Rest(Tail(pending), s) /\ Calls(s) = {Head(pending)}
<1>1. pending \in Seq(Callback) /\ \A t \in scenario.streams : Single(pending, CallsOf(t))
  BY OnceOf
<1>2. Tail(pending) \in Seq(Callback)
  BY <1>1
<1>3. \A X : /\ Within(pending, X) = Within(Tail(pending), X) \cup ({Head(pending)} \cap X)
             /\ Single(pending, X) => /\ Single(Tail(pending), X)
                                      /\ Head(pending) \in X => Within(Tail(pending), X) = {}
  BY <1>1, WithinTail
<1>4. ASSUME NEW t \in scenario.streams
      PROVE  /\ Single(Tail(pending), CallsOf(t))
             /\ t # s => Within(Tail(pending), CallsOf(t)) = Calls(t)
  <2>1. /\ Within(pending, CallsOf(t)) = Within(Tail(pending), CallsOf(t)) \cup ({Head(pending)} \cap CallsOf(t))
        /\ Single(pending, CallsOf(t)) => Single(Tail(pending), CallsOf(t))
    BY ONLY <1>3
  <2>2. t # s => Head(pending) \notin CallsOf(t)
    BY NewCalls
  <2> QED
    BY <1>1, <2>1, <2>2 DEF Calls
<1>5. Within(Tail(pending), CallsOf(s)) = {} /\ Calls(s) = {Head(pending)}
  <2>1. /\ Within(pending, CallsOf(s)) = Within(Tail(pending), CallsOf(s)) \cup ({Head(pending)} \cap CallsOf(s))
        /\ Single(pending, CallsOf(s)) /\ Head(pending) \in CallsOf(s) => Within(Tail(pending), CallsOf(s)) = {}
    BY ONLY <1>3
  <2> QED
    BY <1>1, <2>1 DEF Calls
<1>6. ASSUME NEW j \in Chunks
      PROVE  Single(Tail(pending), {CompleteLoad(j)}) /\ Within(Tail(pending), {CompleteLoad(j)}) = Loads(j)
  <2>1. /\ Within(pending, {CompleteLoad(j)})
             = Within(Tail(pending), {CompleteLoad(j)}) \cup ({Head(pending)} \cap {CompleteLoad(j)})
        /\ Single(pending, {CompleteLoad(j)}) => Single(Tail(pending), {CompleteLoad(j)})
    BY ONLY <1>3
  <2>2. Head(pending) # CompleteLoad(j)
    BY NewCalls
  <2>3. Single(pending, {CompleteLoad(j)})
    BY OnceOf
  <2> QED
    BY <2>1, <2>2, <2>3 DEF Loads
<1> QED
  BY <1>2, <1>4, <1>5, <1>6 DEF Rest

\* A stream without a callback.
LEMMA FreeRest ==
    ASSUME RowsInv, ~crashed, NEW s \in scenario.streams, Calls(s) = {}
    PROVE  Rest(pending, s)
BY OnceOf DEF Rest, Calls, Loads

\* A queue without callbacks.
LEMMA QuietRest ==
    ASSUME RowsInv, ~crashed, NEW s \in scenario.streams, pending = <<>>
    PROVE  Rest(<<>>, s) /\ Calls(s) = {}
<1>1. \A X : Within(pending, X) = {} /\ Single(pending, X)
  BY WithinEmpty
<1>2. Calls(s) = {}
  BY <1>1 DEF Calls
<1> QED
  BY <1>2, FreeRest

\* The step adds a callback to those that are left,
LEMMA AppendGiven ==
    ASSUME NEW s \in scenario.streams, NEW q, Rest(q, s), NEW c \in CallsOf(s), pending' = Append(q, c)
    PROVE  Given(s, {c}) /\ SameLoads
<1>1. q \in Seq(Callback) /\ c \in Callback
  BY NewCalls DEF Rest
<1>2. pending' \in Seq(Callback)
  BY <1>1
<1>3. \A X : /\ Within(pending', X) = Within(q, X) \cup ({c} \cap X)
             /\ Single(q, X) /\ (c \in X => Within(q, X) = {}) => Single(pending', X)
  BY <1>1, WithinAppend
<1>4. ASSUME NEW t \in scenario.streams
      PROVE  /\ Single(pending', CallsOf(t))
             /\ t # s => Within(pending', CallsOf(t)) = Calls(t)
             /\ t = s => Within(pending', CallsOf(t)) = {c}
  <2>1. /\ Within(pending', CallsOf(t)) = Within(q, CallsOf(t)) \cup ({c} \cap CallsOf(t))
        /\ Single(q, CallsOf(t)) /\ (c \in CallsOf(t) => Within(q, CallsOf(t)) = {}) => Single(pending', CallsOf(t))
    BY ONLY <1>3
  <2>2. t # s => c \notin CallsOf(t)
    BY NewCalls
  <2> QED
    BY <2>1, <2>2 DEF Rest
<1>5. ASSUME NEW j \in Chunks
      PROVE  Single(pending', {CompleteLoad(j)}) /\ Within(pending', {CompleteLoad(j)}) = Loads(j)
  <2>1. /\ Within(pending', {CompleteLoad(j)}) = Within(q, {CompleteLoad(j)}) \cup ({c} \cap {CompleteLoad(j)})
        /\ Single(q, {CompleteLoad(j)}) /\ (c \in {CompleteLoad(j)} => Within(q, {CompleteLoad(j)}) = {})
              => Single(pending', {CompleteLoad(j)})
    BY ONLY <1>3
  <2>2. c # CompleteLoad(j)
    BY NewCalls
  <2> QED
    BY <2>1, <2>2 DEF Rest
<1> QED
  BY <1>2, <1>4, <1>5 DEF Given, SameLoads

\* or adds none.
LEMMA RestGiven ==
    ASSUME NEW s \in scenario.streams, NEW q, Rest(q, s), pending' = q
    PROVE  Given(s, {}) /\ SameLoads
BY DEF Given, SameLoads, Rest

\* doLoad for the current chunk cur of window w: the stream closes, or listens.
LEMMA DoLoad ==
    ASSUME RowsInv, ~crashed, NEW s \in scenario.streams,
           NEW q, Rest(q, s),
           NEW st, st.current \in Nat,
           doLoad(s, st, q)
    PROVE  /\ fetch' \in [Chunks -> Chunks \cup {None}]
           /\ completing' \subseteq Chunks
           /\ listeners' \in [Chunks -> Seq(scenario.streams)]
           /\ \/ /\ st.current \notin Overlapping(st.window)
                 /\ Given(s, {OnClose(s, "none")})
                 /\ listeners' = listeners
              \/ /\ st.current \in Overlapping(st.window)
                 /\ Given(s, {})
                 /\ listeners' = Subscribe(s, st.current)
           /\ \A j \in Chunks :
                 /\ Single(pending', {CompleteLoad(j)})
                 /\ Within(pending', {CompleteLoad(j)}) # {} => j \in completing'
                 /\ j \in completing' => fetch'[j] = None
                 /\ fetch'[j] # None => rows[j] = None
                 /\ \/ fetch'[j] = fetch[j]
                    \/ fetch'[j] = url[j] /\ j \in Overlapping(st.window) /\ j >= st.current
<1>1. TypeOK
  BY OnceOf
<1>2. \A j \in Chunks : /\ Single(pending, {CompleteLoad(j)})
                        /\ Loads(j) # {} => j \in completing
                        /\ j \in completing => fetch[j] = None
                        /\ fetch[j] # None => rows[j] = None
  BY DEF RowsInv, ChunkInv, LoadInv
<1>3. PICK overlapping, cur : overlapping = Overlapping(st.window) /\ cur = st.current
  OBVIOUS
<1>4. overlapping \subseteq Chunks /\ cur \in Nat
  BY <1>3 DEF Overlapping
<1>5. CASE /\ cur \notin overlapping
           /\ pending' = Append(q, OnClose(s, "none"))
           /\ UNCHANGED <<fetch, completing, listeners>>
  <2>1. OnClose(s, "none") \in CallsOf(s)
    BY NewCalls
  <2>2. Given(s, {OnClose(s, "none")}) /\ SameLoads
    BY <1>5, <2>1, AppendGiven
  <2>3. ASSUME NEW j \in Chunks
        PROVE  /\ Single(pending', {CompleteLoad(j)})
               /\ Within(pending', {CompleteLoad(j)}) # {} => j \in completing'
               /\ j \in completing' => fetch'[j] = None
               /\ fetch'[j] # None => rows[j] = None
               /\ fetch'[j] = fetch[j]
    BY <1>2, <1>5, <2>2 DEF SameLoads
  <2> QED
    BY <1>1, <1>3, <1>5, <2>2, <2>3 DEF TypeOK
<1>7. PICK load : load = {k \in overlapping \cap (cur .. cur + PrefetchSize) :
                             fetch[k] = None /\ k \notin completing}
  OBVIOUS
<1>8. PICK loaded : loaded = {k \in load : rows[k] # None}
  OBVIOUS
<1>9. \/ /\ cur \notin overlapping
         /\ pending' = Append(q, OnClose(s, "none"))
         /\ UNCHANGED <<fetch, completing, listeners>>
      \/ /\ cur \in overlapping
         /\ listeners' = Subscribe(s, cur)
         /\ fetch' = [k \in Chunks |-> IF k \in load \ loaded THEN url[k] ELSE fetch[k]]
         /\ completing' = completing \cup loaded
         /\ \E ks \in [1..Cardinality(loaded) -> loaded] :
               /\ \A i, j \in DOMAIN ks : i < j => ks[i] < ks[j]
               /\ pending' = q \o [i \in DOMAIN ks |-> CompleteLoad(ks[i])]
  BY <1>3, <1>7, <1>8 DEF doLoad
<1>10. CASE /\ cur \in overlapping
            /\ listeners' = Subscribe(s, cur)
            /\ fetch' = [k \in Chunks |-> IF k \in load \ loaded THEN url[k] ELSE fetch[k]]
            /\ completing' = completing \cup loaded
            /\ \E ks \in [1..Cardinality(loaded) -> loaded] :
                  /\ \A i, j \in DOMAIN ks : i < j => ks[i] < ks[j]
                  /\ pending' = q \o [i \in DOMAIN ks |-> CompleteLoad(ks[i])]
  <2>0. PICK ks \in [1..Cardinality(loaded) -> loaded] :
               /\ \A i, j \in DOMAIN ks : i < j => ks[i] < ks[j]
               /\ pending' = q \o [i \in DOMAIN ks |-> CompleteLoad(ks[i])]
    BY <1>10
  <2>1. PrefetchSize \in Nat
    BY ResultAssumption
  <2>2. load \subseteq Chunks /\ loaded \subseteq load /\ loaded \subseteq Chunks
    BY <1>4, <1>7, <1>8, <1>10, <2>0
  <2>3. \A k \in load : k \in overlapping /\ k >= cur /\ fetch[k] = None /\ k \notin completing
    BY <1>4, <1>7, <1>8, <1>10, <2>0, <2>1
  <2>4. url \in [Chunks -> Chunks \cup {None}] /\ fetch \in [Chunks -> Chunks \cup {None}]
    BY <1>1 DEF TypeOK
  <2>5. fetch' \in [Chunks -> Chunks \cup {None}]
    BY <1>7, <1>8, <1>10, <2>0, <2>2, <2>4
  <2>6. completing' \subseteq Chunks
    BY <1>1, <1>7, <1>8, <1>10, <2>0, <2>2 DEF TypeOK
  <2>7. listeners' \in [Chunks -> Seq(scenario.streams)]
    <3>1. listeners \in [Chunks -> Seq(scenario.streams)] /\ cur \in Chunks
      BY <1>1, <1>4, <1>7, <1>8, <1>10, <2>0 DEF TypeOK
    <3>2. Append(listeners[cur], s) \in Seq(scenario.streams)
      BY <3>1
    <3> QED
      BY <1>7, <1>8, <1>10, <2>0, <3>1, <3>2 DEF Subscribe
  <2>8. Cardinality(loaded) \in Nat
    <3>1. LastChunk \in Nat /\ Chunks = 1..LastChunk
      BY <1>1, ChunkFacts DEF TypeOK
    <3>2. IsFiniteSet(1..LastChunk)
      <4>1. 1 \in Int /\ LastChunk \in Int
        BY <3>1
      <4> QED
        BY <4>1, FS_Interval
    <3>3. IsFiniteSet(loaded)
      BY <2>2, <3>1, <3>2, FS_Subset
    <3> QED
      BY <3>3, FS_CardinalityType
  <2>9. PICK n : n = Cardinality(loaded)
    OBVIOUS
  <2>10. n \in Nat /\ DOMAIN ks = 1..n /\ \A i \in 1..n : ks[i] \in loaded
    BY <1>7, <1>8, <1>10, <2>0, <2>8, <2>9
  <2>11. PICK l : l = [i \in 1..n |-> CompleteLoad(ks[i])]
    OBVIOUS
  <2>12. \A i \in 1..n : CompleteLoad(ks[i]) \in Callback
    BY <2>2, <2>10, NewCalls
  <2>13. l \in Seq(Callback) /\ Len(l) = n /\ \A i \in 1..n : l[i] = CompleteLoad(ks[i])
    <3>1. l \in [1..n -> Callback]
      BY <2>11, <2>12
    <3>2. l \in Seq(Callback) /\ Len(l) = n
      BY <2>10, <3>1
    <3> QED
      BY <2>11, <3>2
  <2>14. pending' = q \o l
    BY <1>7, <1>8, <1>10, <2>0, <2>10, <2>11
  <2>15. q \in Seq(Callback)
    BY DEF Rest
  <2>16. \A X : /\ Within(pending', X) = Within(q, X) \cup Within(l, X)
                /\ Single(q, X) /\ Single(l, X) /\ (Within(q, X) = {} \/ Within(l, X) = {})
                      => Single(pending', X)
    BY <2>13, <2>14, <2>15, WithinConcat
  <2>17. ASSUME NEW t \in scenario.streams
         PROVE  Within(l, CallsOf(t)) = {} /\ Single(l, CallsOf(t))
    <3>1. /\ \A c : c \in Within(l, CallsOf(t)) <=> c \in CallsOf(t) /\ \E i \in 1..Len(l) : l[i] = c
          /\ Single(l, CallsOf(t)) <=>
                \A i, j \in 1..Len(l) : l[i] \in CallsOf(t) /\ l[j] \in CallsOf(t) => i = j
      BY <2>13, WithinFacts
    <3>2. \A i \in 1..Len(l) : l[i] \notin CallsOf(t)
      BY <2>13, NewCalls
    <3> QED
      BY <3>1, <3>2
  <2>18. ASSUME NEW t \in scenario.streams
         PROVE  Within(pending', CallsOf(t)) = Within(q, CallsOf(t)) /\ Single(pending', CallsOf(t))
    <3>1. Single(q, CallsOf(t))
      BY DEF Rest
    <3> QED
      BY <2>16, <2>17, <3>1
  <2>19. Given(s, {})
    <3>1. pending' \in Seq(Callback)
      BY <2>13, <2>14, <2>15, ConcatProperties
    <3> QED
      BY <2>18, <3>1 DEF Given, Rest
  <2>20. ASSUME NEW j \in Chunks
         PROVE  /\ Single(l, {CompleteLoad(j)})
                /\ Within(l, {CompleteLoad(j)}) # {} => j \in loaded
    <3>1. /\ \A c : c \in Within(l, {CompleteLoad(j)}) <=>
                        c \in {CompleteLoad(j)} /\ \E i \in 1..Len(l) : l[i] = c
          /\ Single(l, {CompleteLoad(j)}) <=>
                \A m, i \in 1..Len(l) : l[m] \in {CompleteLoad(j)} /\ l[i] \in {CompleteLoad(j)} => m = i
      BY <2>13, WithinFacts
    <3>2. \A i \in 1..Len(l) : l[i] = CompleteLoad(j) => ks[i] = j
      BY <2>13, CallFields
    <3>3. ASSUME NEW m \in 1..n, NEW i \in 1..n, ks[m] = ks[i]
          PROVE  m = i
      <4>1. ks[m] \in Nat
        <5>1. Chunks \subseteq Nat
          BY <1>1, ChunkFacts DEF TypeOK
        <5> QED
          BY <2>2, <2>10, <5>1
      <4>2. m < i => ks[m] < ks[i]
        BY <1>7, <1>8, <1>10, <2>0, <2>10
      <4>3. i < m => ks[i] < ks[m]
        BY <1>7, <1>8, <1>10, <2>0, <2>10
      <4> QED
        BY <3>3, <4>1, <4>2, <4>3, <2>10
    <3>4. Single(l, {CompleteLoad(j)})
      <4> SUFFICES ASSUME NEW m \in 1..Len(l), NEW i \in 1..Len(l),
                          l[m] = CompleteLoad(j), l[i] = CompleteLoad(j)
                   PROVE  m = i
        BY <3>1
      <4>1. ks[m] = j /\ ks[i] = j /\ m \in 1..n /\ i \in 1..n
        BY <3>2, <2>13
      <4> QED
        BY <4>1, <3>3
    <3>5. ASSUME Within(l, {CompleteLoad(j)}) # {}
          PROVE  j \in loaded
      <4>1. PICK i \in 1..Len(l) : l[i] = CompleteLoad(j)
        BY <3>1, <3>5
      <4> QED
        BY <4>1, <3>2, <2>10, <2>13
    <3> QED
      BY <3>4, <3>5
  <2>21. ASSUME NEW j \in Chunks
         PROVE  /\ Single(pending', {CompleteLoad(j)})
                /\ Within(pending', {CompleteLoad(j)}) # {} => j \in completing'
    <3>1. Single(q, {CompleteLoad(j)}) /\ Within(q, {CompleteLoad(j)}) = Loads(j)
      BY DEF Rest
    <3>2. Loads(j) # {} => j \in completing
      BY <1>2
    <3>3. /\ Within(pending', {CompleteLoad(j)}) = Within(q, {CompleteLoad(j)}) \cup Within(l, {CompleteLoad(j)})
          /\ /\ Single(q, {CompleteLoad(j)}) /\ Single(l, {CompleteLoad(j)})
             /\ Within(q, {CompleteLoad(j)}) = {} \/ Within(l, {CompleteLoad(j)}) = {}
             => Single(pending', {CompleteLoad(j)})
      BY ONLY <2>16
    <3>4. j \in loaded => j \notin completing
      BY <2>2, <2>3
    <3>5. completing' = completing \cup loaded
      BY <1>7, <1>8, <1>10, <2>0
    <3> QED
      BY ONLY <2>20, <3>1, <3>2, <3>3, <3>4, <3>5, j \in Chunks
  <2>22. ASSUME NEW j \in Chunks
         PROVE  /\ j \in completing' => fetch'[j] = None
                /\ fetch'[j] # None => rows[j] = None
                /\ \/ fetch'[j] = fetch[j]
                   \/ fetch'[j] = url[j] /\ j \in overlapping /\ j >= cur
    BY <1>2, <1>7, <1>8, <1>10, <2>0, <2>2, <2>3
  <2> QED
    BY <1>3, <1>10, <2>5, <2>6, <2>7, <2>19, <2>21, <2>22
<1> QED
  BY <1>5, <1>9, <1>10

\* Only stream s is touched.
OnlyFor(s) ==
    /\ \A t \in scenario.streams \ {s} : stream'[t] = stream[t]
    /\ \A t \in scenario.streams : Single(pending', CallsOf(t))
    /\ \A t \in scenario.streams \ {s} : Within(pending', CallsOf(t)) = Calls(t)
    /\ \A t \in scenario.streams \ {s} : Within(onComplete', {t}) = Queued(t) /\ Single(onComplete', {t})
    /\ \A t \in scenario.streams \ {s}, k \in Chunks :
          Within(listeners'[k], {t}) = Waits(t, k) /\ Single(listeners'[k], {t})

\* A step of stream s keeps the invariant of the others.
LEMMA OtherStreams ==
    ASSUME RowsInv, ~crashed, scenario' = scenario, NEW s, OnlyFor(s),
           failures' \in Nat, failures' >= failures,
           \/ statement' = statement
           \/ ~Alone /\ statement # "fetching" /\ statement' # "fetching",
           NEW t \in scenario.streams \ {s}
    PROVE  StreamInv(t)'
<1>1. TypeOK /\ StreamInv(t)
  BY DEF RowsInv
<1>2. Untouched(t)
  BY DEF OnlyFor, Untouched
<1> QED
  BY <1>1, <1>2, UntouchedStream

\* A step that changes only what s listens to is a step of s.
LEMMA SameWaits ==
    ASSUME RowsInv, ~crashed, onComplete' = onComplete, NEW s, NEW C, Given(s, C),
           \/ listeners' = listeners
           \/ \E k \in Chunks : listeners' = Subscribe(s, k),
           \A t \in scenario.streams \ {s} : stream'[t] = stream[t]
    PROVE  OnlyFor(s)
<1>1. TypeOK /\ \A t \in scenario.streams : OnceInv(t)
  BY OnceOf
<1>2. listeners \in [Chunks -> Seq(scenario.streams)]
  BY <1>1 DEF TypeOK
<1>3. ASSUME NEW t \in scenario.streams \ {s}, NEW k \in Chunks
      PROVE  Within(listeners'[k], {t}) = Waits(t, k) /\ Single(listeners'[k], {t})
  <2>1. Single(listeners[k], {t})
    BY <1>1 DEF OnceInv
  <2>2. CASE listeners'[k] = listeners[k]
    BY <2>1, <2>2 DEF Waits
  <2>3. CASE listeners'[k] = Append(listeners[k], s)
    <3>1. listeners[k] \in Seq(scenario.streams \cup {s}) /\ s \in scenario.streams \cup {s}
      BY <1>2, SeqMonotonic
    <3>2. /\ Within(Append(listeners[k], s), {t}) = Within(listeners[k], {t}) \cup ({s} \cap {t})
          /\ Single(listeners[k], {t}) /\ (s \in {t} => Within(listeners[k], {t}) = {})
                => Single(Append(listeners[k], s), {t})
      BY <3>1, WithinAppend
    <3> QED
      BY <2>1, <2>3, <3>2 DEF Waits
  <2> QED
    BY <1>2, <2>2, <2>3 DEF Subscribe
<1> QED
  BY <1>1, <1>3 DEF OnlyFor, Given, OnceInv, Queued

\* A step that moves no url leaves a chunk its own rows.
LEMMA OwnKept ==
    ASSUME scenario' = scenario, TypeOK, NEW j \in Chunks, Own(j),
           NEW s \in scenario.streams, stream[s].phase # "failed",
           url' = url, rows'[j] \in {None, rows[j]}, fetch'[j] \in {fetch[j], url[j]}
    PROVE  Own(j)'
BY Constant DEF Own

\* A step of s keeps a chunk held if s does.
LEMMA HeldKept ==
    ASSUME scenario' = scenario, NEW j \in Chunks, Held(j),
           NEW s \in scenario.streams, OnlyFor(s), url' = url,
           rows'[j] # None => rows[j] # None,
           rows'[j] # None /\ url[j] # None /\ Keeps(s, j) => Keeps(s, j)',
           Fetches(s, j) => Fetches(s, j)',
           fetch'[j] # None => fetch[j] # None \/ Fetches(s, j)'
    PROVE  Held(j)'
<1>1. ASSUME NEW t \in scenario.streams, t # s
      PROVE  (Keeps(t, j) => Keeps(t, j)') /\ (Fetches(t, j) => Fetches(t, j)')
  <2>1. stream'[t] = stream[t] /\ Calls(t)' = Calls(t)
    BY <1>1, Constant DEF OnlyFor, Calls
  <2>2. OnData(t, j)' = OnData(t, j)
    BY DEF OnData
  <2>3. WillLoad(t, j)' <=> WillLoad(t, j)
    BY <2>1, Constant DEF WillLoad
  <2> QED
    BY <2>1, <2>2, <2>3 DEF Keeps, Fetches
<1>2. rows'[j] # None /\ url'[j] # None => \E t \in scenario.streams : Keeps(t, j)'
  BY <1>1 DEF Held
<1>3. fetch'[j] # None => \E t \in scenario.streams : Fetches(t, j)'
  BY <1>1 DEF Held
<1> QED
  BY <1>2, <1>3 DEF Held

\* The state of a stream that is about to load its current chunk.
Ready(st) ==
    /\ st \in StreamState
    /\ st.phase = "waiting" /\ st.initialized /\ st.refreshing = "no"
    /\ st.buffer = <<>> /\ st.index = 0
    /\ st.current \in 1..(LastChunk + 1)
    /\ 0 <= st.window.start /\ st.window.start <= st.window.end /\ st.window.end < Returned
    /\ st.current <= LastChunk => st.window.start <= EndIndex(st.current)
    /\ st.previous \in {None, st.current - 1}
    /\ Shift = 0 /\ scenario.faults \subseteq {"forbidden"} => st.interrupts <= failures
    /\ Sound =>
          /\ st.out = RowsFrom(st.window.start, st.window.start + Len(st.out) - 1)
          /\ st.window.start + Len(st.out) <= st.window.end + 1
          /\ st.window.start + Len(st.out) = From(st.current, st.window)

\* A stream that is ready to load its current chunk, and does, keeps the invariant.
LEMMA LoadStream ==
    ASSUME RowsInv, ~crashed, scenario' = scenario, NEW s \in scenario.streams,
           NEW q, Rest(q, s),
           NEW st, Ready(st), doLoad(s, st, q),
           stream' = [stream EXCEPT ![s] = st],
           stream[s].phase \in {"idle", "waiting"},
           Queued(s) = {}, \A k \in Chunks : Waits(s, k) = {},
           statement' # "fetching", statement' \in {"fetching", "ok", "transient", "fatal"},
           \/ statement' = statement
           \/ ~Alone /\ statement # "fetching"
           \/ Alone,
           url' = url, rows' = rows, onComplete' = onComplete, failures' = failures, crashed' = crashed,
           stream[s].current # None => /\ stream[s].current = st.current
                                       /\ stream[s].window = st.window
                                       /\ stream[s].previous = st.previous,
           stream[s].current = None => stream[s].previous = None
    PROVE  RowsInv'
<1>1. TypeOK /\ StreamInv(s) /\ OnceInv(s)
  BY OnceOf
<1>2. PICK w, k : w = st.window /\ k = st.current
  OBVIOUS
<1>3. st.current \in Nat
  BY <1>1, ChunkFacts DEF Ready, TypeOK
<1>4. /\ fetch' \in [Chunks -> Chunks \cup {None}]
      /\ completing' \subseteq Chunks
      /\ listeners' \in [Chunks -> Seq(scenario.streams)]
      /\ \/ /\ k \notin Overlapping(w)
            /\ Given(s, {OnClose(s, "none")})
            /\ listeners' = listeners
         \/ /\ k \in Overlapping(w)
            /\ Given(s, {})
            /\ listeners' = Subscribe(s, k)
      /\ \A j \in Chunks :
            /\ Single(pending', {CompleteLoad(j)})
            /\ Within(pending', {CompleteLoad(j)}) # {} => j \in completing'
            /\ j \in completing' => fetch'[j] = None
            /\ fetch'[j] # None => rows[j] = None
            /\ \/ fetch'[j] = fetch[j]
               \/ fetch'[j] = url[j] /\ j \in Overlapping(w) /\ j >= k
  BY <1>2, <1>3, DoLoad
<1>5. pending' \in Seq(Callback)
  BY <1>4 DEF Given
<1>6. stream' \in [scenario.streams -> StreamState] /\ stream'[s] = st
      /\ \A t \in scenario.streams \ {s} : stream'[t] = stream[t]
  BY <1>1 DEF Ready, TypeOK
<1>7. TypeOK'
  <2>1. \A t \in scenario.streams : stream'[t].index # 0 => stream'[t].index < Len(stream'[t].buffer)
    BY <1>1, <1>6 DEF Ready, TypeOK
  <2> QED
    BY <1>1, <1>4, <1>5, <1>6, <2>1, Constant DEF TypeOK
<1>8. OnlyFor(s)
  <2>1. \/ listeners' = listeners
        \/ \E j \in Chunks : listeners' = Subscribe(s, j)
    BY <1>4 DEF Overlapping
  <2>2. \E C : Given(s, C)
    BY <1>4
  <2> QED
    BY <1>6, <2>1, <2>2, SameWaits
<1>9. ASSUME NEW t \in scenario.streams \ {s}
      PROVE  StreamInv(t)'
  <2>1. failures' \in Nat /\ failures' >= failures
    BY <1>1, ResultAssumption DEF TypeOK
  <2>2. \/ statement' = statement
        \/ ~Alone /\ statement # "fetching" /\ statement' # "fetching"
    BY <1>9 DEF Alone
  <2> QED
    BY <1>8, <2>1, <2>2, OtherStreams
<1>10. k \notin Overlapping(w) => Calls(s)' = {OnClose(s, "none")} /\ \A j \in Chunks : Waits(s, j)' = {}
  BY <1>4, Constant DEF Given, Calls, Waits
<1>11. k \in Overlapping(w) => Calls(s)' = {} /\ \A j \in Chunks : Waits(s, j)' # {} => j = k
  <2>1. listeners' = Subscribe(s, k) => \A j \in Chunks : j # k => listeners'[j] = listeners[j]
    BY <1>1 DEF Subscribe, TypeOK
  <2> QED
    BY <1>4, <2>1, Constant DEF Given, Calls, Waits
<1>12. OnceInv(s)'
  <2>1. Single(pending', CallsOf(s)) /\ Single(onComplete', {s})
    BY <1>1, <1>4 DEF Given, OnceInv
  <2>2. ASSUME NEW j \in Chunks
        PROVE  Single(listeners'[j], {s})
    <3>1. Single(listeners[j], {s}) /\ Within(listeners[j], {s}) = {}
      BY <1>1 DEF OnceInv, Waits
    <3>2. CASE listeners'[j] = listeners[j]
      BY <3>1, <3>2
    <3>3. CASE listeners'[j] = Append(listeners[j], s)
      <4>1. listeners[j] \in Seq(scenario.streams)
        BY <1>1 DEF TypeOK
      <4>2. Single(listeners[j], {s}) /\ (s \in {s} => Within(listeners[j], {s}) = {})
              => Single(Append(listeners[j], s), {s})
        BY ONLY <4>1, s \in scenario.streams, WithinAppend
      <4> QED
        BY ONLY <3>1, <3>3, <4>2
    <3>4. listeners \in [Chunks -> Seq(scenario.streams)]
      BY <1>1 DEF TypeOK
    <3> QED
      BY <1>4, <3>2, <3>3, <3>4 DEF Subscribe
  <2> QED
    BY <2>1, <2>2, Constant DEF OnceInv
<1>13. Queued(s)' = {}
  BY DEF Queued
<1>14. k \in 1..(LastChunk + 1) /\ k # None /\ LastChunk \in Nat
  BY <1>1, <1>2, ChunkFacts DEF Ready, None, TypeOK
<1>15. Stage(s)'
  BY <1>2, <1>6, <1>14, Constant DEF Ready, Stage
<1>16. InterruptInv(s)'
  BY <1>2, <1>4, <1>6, <1>10, <1>11, CallFields, Constant DEF Ready, InterruptInv
<1>17. PushedInv(s)'
  BY <1>6, Constant DEF Ready, PushedInv
<1>18. CallInv(s)'
  <2>1. k \in Overlapping(w) => CallInv(s)'
    BY <1>11 DEF CallInv
  <2>2. ASSUME k \notin Overlapping(w)
        PROVE  CallInv(s)'
    <3>1. \A c \in Calls(s)' : c.fn = "onResultStreamClose" /\ c.err = "none"
      BY <1>10, <2>2, CallFields
    <3> QED
      BY <1>2, <1>6, <2>2, <3>1, Constant DEF Ready, CallInv
  <2> QED
    BY <2>1, <2>2
<1>19. \A c \in Calls(s)' : c.fn # "pushRows"
  BY <1>10, <1>11, CallFields
<1>20. Position(s)'
  <2>1. st.buffer = <<>> /\ (Sound => w.start + Len(st.out) = From(k, w))
    BY ONLY <1>2, Ready(st) DEF Ready
  <2>2. Sound' = Sound /\ From(k, w)' = From(k, w)
    BY Constant
  <2>3. PICK f, f1 : f = From(k, w) /\ f1 = From(k, w)'
    OBVIOUS
  <2> QED
    BY ONLY <1>2, <1>6, <1>19, <2>1, <2>2, <2>3 DEF Position
<1>21. QueuedInv(s)' /\ RefreshInv(s)'
  BY <1>6, <1>13 DEF Ready, QueuedInv, RefreshInv
<1>22. ListenInv(s)'
  BY <1>2, <1>6, <1>10, <1>11, Constant DEF Ready, ListenInv
<1>23. StreamInv(s)'
  BY <1>12, <1>15, <1>16, <1>17, <1>18, <1>20, <1>21, <1>22 DEF StreamInv, WaitInv
<1>24. ASSUME NEW j \in Chunks
       PROVE  ChunkInv(j)'
  <2>1. ChunkInv(j)
    BY DEF RowsInv
  <2>2. LoadInv(j)'
    <3>1. CompleteLoad(j)' = CompleteLoad(j)
      BY DEF CompleteLoad
    <3> QED
      BY <1>4, <3>1 DEF LoadInv, Loads
  <2>3. Sound => Own(j)'
    BY <1>1, <1>4, <2>1, OwnKept DEF ChunkInv
  <2>4. ASSUME WillLoad(s, j)
        PROVE  WillLoad(s, j)'
    BY <1>1, <1>6, <2>4, Constant DEF WillLoad, Ready
  <2>5. OnData(s, j) \notin Calls(s)' /\ OnData(s, j)' = OnData(s, j)
    <3>1. OnData(s, j) # OnClose(s, "none")
      BY CallFields
    <3> QED
      BY <1>10, <1>11, <3>1 DEF OnData
  <2>6. Keeps(s, j) => Keeps(s, j)'
    <3>1. j # None
      BY <1>1, ChunkFacts DEF None, TypeOK
    <3> QED
      BY <1>6, <2>4, <3>1 DEF Keeps, Ready
  <2>7. Fetches(s, j) => Fetches(s, j)'
    BY <2>4, <2>5 DEF Fetches
  <2>8. j \in Overlapping(w) /\ j >= k => Fetches(s, j)'
    BY <1>2, <1>6, <1>14, <2>5, Constant DEF Fetches, WillLoad, Ready
  <2>9. Sound => Held(j)'
    <3>1. fetch'[j] # None => fetch[j] # None \/ Fetches(s, j)'
      BY <1>4, <2>8
    <3> QED
      BY <1>8, <2>1, <2>6, <2>7, <3>1, HeldKept DEF ChunkInv
  <2> QED
    BY <2>2, <2>3, <2>9, Constant DEF ChunkInv
<1> QED
  BY <1>7, <1>9, <1>23, <1>24, Constant DEF RowsInv

\* Consecutive rows in a row.
LEMMA ConcatRows ==
    ASSUME NEW a \in Int, NEW b \in Int, NEW c \in Int, a <= b + 1, b <= c
    PROVE  RowsFrom(a, b) \o RowsFrom(b + 1, c) = RowsFrom(a, c)
<1>1. PICK p, q, r : p = RowsFrom(a, b) /\ q = RowsFrom(b + 1, c) /\ r = p \o q
  OBVIOUS
<1>2. /\ p \in Seq(Int) /\ Len(p) = b - a + 1
      /\ \A i \in 1..(b - a + 1) : p[i] = a + i - 1
  BY <1>1, RowsFromFacts
<1>3. /\ q \in Seq(Int) /\ Len(q) = c - (b + 1) + 1
      /\ \A i \in 1..(c - (b + 1) + 1) : q[i] = b + 1 + i - 1
  <2>1. b + 1 \in Int /\ b + 1 <= c + 1
    OBVIOUS
  <2> QED
    BY <1>1, <2>1, RowsFromFacts
<1>4. /\ r \in Seq(Int) /\ Len(r) = Len(p) + Len(q)
      /\ \A i \in 1 .. Len(p) + Len(q) : r[i] = IF i <= Len(p) THEN p[i] ELSE q[i - Len(p)]
  BY <1>1, <1>2, <1>3, ConcatProperties, SMTT(30)
<1>5. Len(r) = c - a + 1 /\ \A i \in 1..Len(r) : r[i] = a + i - 1
  BY <1>2, <1>3, <1>4
<1>6. r = RowsFrom(a, c)
  <2>1. a <= c + 1
    OBVIOUS
  <2> QED
    BY <1>4, <1>5, <2>1, RowsFromIs
<1> QED
  BY <1>1, <1>6

\* The state st of a stream whose row buffer is to be processed.
Taking(st) ==
    /\ st \in StreamState
    /\ st.phase = "waiting" /\ st.initialized /\ st.refreshing = "no"
    /\ st.buffer # <<>> => st.index < Len(st.buffer)
    /\ st.current \in 1..(LastChunk + 1)
    /\ 0 <= st.window.start /\ st.window.start <= st.window.end /\ st.window.end < Returned
    /\ st.current <= LastChunk => st.window.start <= EndIndex(st.current)
    /\ st.previous \in {None, st.current - 1}
    /\ Shift = 0 /\ scenario.faults \subseteq {"forbidden"} => st.interrupts <= failures
    /\ Sound =>
          /\ st.out = RowsFrom(st.window.start, st.window.start + Len(st.out) - 1)
          /\ st.window.start + Len(st.out) <= st.window.end + 1
          /\ st.current > 1 /\ st.buffer # <<>>
          /\ st.buffer = RowsFrom(From(st.current - 1, st.window), From(st.current, st.window) - 1)
          /\ st.window.start + Len(st.out) = From(st.current - 1, st.window) + st.index

\* A step of stream s that starts no load.
LEMMA StreamStep ==
    ASSUME RowsInv, ~crashed, scenario' = scenario, NEW s \in scenario.streams,
           NEW st \in StreamState, stream' = [stream EXCEPT ![s] = st],
           st.index # 0 => st.index < Len(st.buffer),
           NEW C, Given(s, C), SameLoads, OnlyFor(s), StreamInv(s)',
           fetch' = fetch, completing' = completing, listeners' = listeners,
           onComplete' \in Seq(scenario.streams),
           url' \in [Chunks -> Chunks \cup {None}],
           rows' \in [Chunks -> Chunks \cup {None}], \A j \in Chunks : rows'[j] \in {None, rows[j]},
           failures' \in 0..MaxFailures, failures' >= failures, crashed' \in BOOLEAN,
           statement' \in {"fetching", "ok", "transient", "fatal"},
           \/ statement' = statement
           \/ ~Alone /\ statement # "fetching" /\ statement' # "fetching"
           \/ Alone,
           Sound => \A j \in Chunks : Own(j)' /\ Held(j)'
    PROVE  RowsInv'
<1>1. TypeOK /\ \A j \in Chunks : ChunkInv(j)
  BY DEF RowsInv
<1>2. stream' \in [scenario.streams -> StreamState] /\ stream'[s] = st
      /\ \A t \in scenario.streams \ {s} : stream'[t] = stream[t]
  BY <1>1 DEF TypeOK
<1>3. TypeOK'
  <2>1. \A t \in scenario.streams : stream'[t].index # 0 => stream'[t].index < Len(stream'[t].buffer)
    BY <1>1, <1>2 DEF TypeOK
  <2>2. pending' \in Seq(Callback)
    BY DEF Given
  <2> QED
    BY <1>1, <1>2, <2>1, <2>2, Constant DEF TypeOK
<1>4. ASSUME NEW t \in scenario.streams \ {s}
      PROVE  StreamInv(t)'
  <2>1. failures' \in Nat
    BY ResultAssumption
  <2>2. \/ statement' = statement
        \/ ~Alone /\ statement # "fetching" /\ statement' # "fetching"
    BY <1>4 DEF Alone
  <2> QED
    BY <2>1, <2>2, OtherStreams
<1>5. ASSUME NEW j \in Chunks
      PROVE  LoadInv(j)'
  <2>1. CompleteLoad(j)' = CompleteLoad(j)
    BY DEF CompleteLoad
  <2>2. LoadInv(j)
    BY <1>1 DEF ChunkInv
  <2> QED
    BY <2>1, <2>2 DEF LoadInv, Loads, SameLoads
<1>6. \A j \in Chunks : ChunkInv(j)'
  BY <1>5, Constant DEF ChunkInv
<1> QED
  BY <1>3, <1>4, <1>6, Constant DEF RowsInv

\* A stream that goes on where it is holds what it held.
LEMMA GoesOn ==
    ASSUME RowsInv, ~crashed, scenario' = scenario, NEW s \in scenario.streams, OnlyFor(s), Sound,
           stream[s].phase \in {"idle", "waiting"}, stream'[s].phase \in {"idle", "waiting"},
           stream'[s].current = stream[s].current, stream'[s].window = stream[s].window,
           stream'[s].previous = stream[s].previous,
           \A c \in Calls(s)' : c.fn # "onResultStreamData",
           url' = url, rows' = rows, fetch' = fetch
    PROVE  \A j \in Chunks : Own(j)' /\ Held(j)'
<1>1. SUFFICES ASSUME NEW j \in Chunks
               PROVE  Own(j)' /\ Held(j)'
  OBVIOUS
<1>2. TypeOK /\ Own(j) /\ Held(j)
  BY DEF RowsInv, ChunkInv
<1>3. Own(j)'
  BY <1>2, OwnKept
<1>4. WillLoad(s, j)' <=> WillLoad(s, j)
  BY Constant DEF WillLoad
<1>5. Keeps(s, j)' <=> Keeps(s, j)
  BY <1>4 DEF Keeps
<1>6. OnData(s, j)' = OnData(s, j) /\ OnData(s, j) \notin Calls(s)'
  BY CallFields DEF OnData
<1>7. Fetches(s, j) => Fetches(s, j)'
  BY <1>4, <1>6 DEF Fetches
<1>8. Held(j)'
  BY <1>2, <1>5, <1>7, HeldKept
<1> QED
  BY <1>3, <1>8

\* processRowBuffer leaves a stream that is about to push.
LEMMA TakeStream ==
    ASSUME RowsInv, ~crashed, scenario' = scenario, NEW s \in scenario.streams,
           NEW q, Rest(q, s), NEW st, Taking(st), processRowBuffer(s, st, q),
           Queued(s) = {}, \A k \in Chunks : Waits(s, k) = {},
           statement # "fetching", statement' = statement,
           onComplete' = onComplete, listeners' = listeners, failures' = failures, crashed' = crashed
    PROVE  \E r, C :
              /\ r \in StreamState
              /\ stream' = [stream EXCEPT ![s] = r]
              /\ r.index # 0 => r.index < Len(r.buffer)
              /\ r.phase = "waiting" /\ r.current = st.current
              /\ r.window = st.window /\ r.previous = st.previous
              /\ Given(s, C) /\ SameLoads /\ OnlyFor(s) /\ StreamInv(s)'
              /\ \A c \in Calls(s)' : c.fn # "onResultStreamData"
<1>1. TypeOK /\ StreamInv(s) /\ OnceInv(s)
  BY OnceOf
<1>2. PICK last, row, r :
        /\ last \in BOOLEAN /\ (last <=> st.index + 1 >= Len(st.buffer))
        /\ row = IF st.buffer = <<>> THEN <<>> ELSE <<st.buffer[st.index + 1]>>
        /\ r = [st EXCEPT !.buffer = IF last THEN <<>> ELSE st.buffer,
                          !.index  = IF last THEN 0 ELSE st.index + 1]
  <2>1. \E l \in BOOLEAN : l <=> st.index + 1 >= Len(st.buffer)
    OBVIOUS
  <2> QED
    BY <2>1
<1>3. stream' = [stream EXCEPT ![s] = r] /\ pending' = Append(q, PushRows(s, row))
  BY <1>2 DEF processRowBuffer
<1>4. /\ st \in StreamState /\ st.buffer \in Seq(0..(Returned - 1)) /\ st.index \in Nat
      /\ Len(st.buffer) \in Nat
  BY DEF Taking, StreamState
<1>5. row \in Seq(0..(Returned - 1))
  <2>1. CASE st.buffer = <<>>
    BY <1>2, <2>1
  <2>2. CASE st.buffer # <<>>
    <3>1. st.index + 1 \in 1..Len(st.buffer)
      BY <1>4, <2>2 DEF Taking
    <3>2. st.buffer[st.index + 1] \in 0..(Returned - 1)
      BY ONLY <1>4, <3>1, ElementOfSeq
    <3> QED
      BY <1>2, <2>2, <3>2
  <2> QED
    BY <2>1, <2>2
<1>6. r \in StreamState
  <2>1. PICK b, i : b = (IF last THEN <<>> ELSE st.buffer) /\ i = (IF last THEN 0 ELSE st.index + 1)
    OBVIOUS
  <2>2. b \in Seq(0..(Returned - 1)) /\ i \in Nat
    <3>1. st.index + 1 \in Nat /\ 0 \in Nat /\ <<>> \in Seq(0..(Returned - 1))
      BY <1>4
    <3>2. CASE last
      BY ONLY <2>1, <3>1, <3>2
    <3>3. CASE ~last
      BY ONLY <1>4, <2>1, <3>1, <3>3
    <3> QED
      BY ONLY <3>2, <3>3
  <2> QED
    BY <1>2, <1>4, <2>1, <2>2 DEF StreamState
<1>7. /\ r.phase = st.phase /\ r.current = st.current /\ r.window = st.window
      /\ r.previous = st.previous /\ r.initialized = st.initialized /\ r.refreshing = st.refreshing
      /\ r.out = st.out /\ r.interrupts = st.interrupts
      /\ r.buffer = (IF last THEN <<>> ELSE st.buffer)
      /\ r.index = (IF last THEN 0 ELSE st.index + 1)
  BY <1>2, <1>4 DEF StreamState
<1>8. r.index # 0 => r.index < Len(r.buffer)
  <2>1. CASE last
    BY ONLY <1>7, <2>1
  <2>2. CASE ~last
    <3>1. st.index + 1 < Len(st.buffer)
      BY ONLY <1>2, <1>4, <2>2
    <3> QED
      BY ONLY <1>7, <2>2, <3>1
  <2> QED
    BY ONLY <2>1, <2>2
<1>9. Given(s, {PushRows(s, row)}) /\ SameLoads
  <2>1. PushRows(s, row) \in CallsOf(s)
    BY <1>5, NewCalls
  <2>2. pending' = Append(q, PushRows(s, row)) /\ Rest(q, s) /\ s \in scenario.streams
    BY <1>3
  <2> QED
    BY ONLY <2>1, <2>2, AppendGiven
<1>10. /\ \A t \in scenario.streams \ {s} : stream'[t] = stream[t]
       /\ stream'[s] = r
  BY <1>1, <1>3 DEF TypeOK
<1>11. OnlyFor(s)
  BY <1>9, <1>10, SameWaits
<1>12. /\ Calls(s)' = {PushRows(s, row)} /\ Queued(s)' = {}
       /\ \A k \in Chunks : Waits(s, k)' = {}
  BY <1>9, Constant DEF Given, Calls, Queued, Waits
<1>13. \A c \in Calls(s)' : c.fn = "pushRows" /\ c.row = row
  BY <1>12, CallFields
<1>14. LastChunk \in Nat /\ st.current # None
  BY <1>1, ChunkFacts DEF Taking, None, TypeOK
<1>15. Stage(s)'
  <2>1. st.current \in 1..(LastChunk + 1) /\ st.current # None /\ st.initialized
    BY <1>14 DEF Taking
  <2>2. PICK w : w = st.window
    OBVIOUS
  <2>3. 0 <= w.start /\ w.start <= w.end /\ w.end < Returned
        /\ (st.current <= LastChunk => w.start <= EndIndex(st.current))
        /\ st.previous \in {None, st.current - 1}
    BY <2>2 DEF Taking
  <2>4. LastChunk' = LastChunk /\ Returned' = Returned /\ EndIndex(st.current)' = EndIndex(st.current)
    BY Constant
  <2> QED
    BY ONLY <1>7, <1>10, <2>1, <2>2, <2>3, <2>4 DEF Stage
<1>16. InterruptInv(s)'
  BY <1>7, <1>10, <1>13, Constant DEF Taking, InterruptInv
<1>17. PushedInv(s)'
  BY <1>7, <1>10, Constant DEF Taking, PushedInv
<1>18. CallInv(s)'
  BY <1>7, <1>10, <1>13, <1>14, Constant DEF Taking, CallInv
<1>19. OnceInv(s)'
  BY <1>1, <1>11, Constant DEF OnlyFor, OnceInv
<1>20. QueuedInv(s)' /\ ListenInv(s)'
  BY <1>12, Constant DEF QueuedInv, ListenInv
<1>21. RefreshInv(s)'
  BY <1>7, <1>10 DEF Taking, RefreshInv
<1>22. Position(s)'
  <2>1. PICK w, n, a, b : /\ w = st.window /\ n = w.start + Len(st.out)
                          /\ a = From(st.current - 1, w) /\ b = From(st.current, w)
    OBVIOUS
  <2>2. /\ From(st.current - 1, w)' = a /\ From(st.current, w)' = b /\ Sound' = Sound
    BY <2>1, Constant
  <2>3. CASE ~Sound
    BY <2>2, <2>3 DEF Position
  <2>4. CASE Sound
    <3>1. /\ st.current > 1 /\ st.buffer # <<>> /\ st.buffer = RowsFrom(a, b - 1)
          /\ n = a + st.index /\ st.index < Len(st.buffer)
      BY <2>1, <2>4 DEF Taking
    <3>2. a \in Int /\ b \in Int /\ a <= b
      <4>1. /\ st.current - 1 \in Chunks /\ w.start \in Int /\ w.end \in Int /\ w.start <= w.end
            /\ scenario \in Scenarios
        <5>1. scenario \in Scenarios
          BY <1>1 DEF TypeOK
        <5>2. Chunks = 1..LastChunk /\ LastChunk \in Nat
          BY ONLY <5>1, ChunkFacts
        <5>3. st.current \in 1..(LastChunk + 1) /\ st.window.start <= st.window.end
          BY ONLY Taking(st) DEF Taking
        <5>4. st.window.start \in Int /\ st.window.end \in Int
          BY ONLY <1>4 DEF StreamState
        <5>5. st.current - 1 \in Chunks
          BY ONLY <3>1, <5>2, <5>3
        <5> QED
          BY ONLY <2>1, <5>1, <5>3, <5>4, <5>5
      <4>2. PICK j : j = st.current - 1
        OBVIOUS
      <4>3. st.current = j + 1 /\ j \in Chunks
        BY <1>4, <4>1, <4>2 DEF StreamState
      <4>4. /\ From(j, w) \in w.start..(w.end + 1)
            /\ From(j + 1, w) \in w.start..(w.end + 1)
            /\ From(j, w) <= From(j + 1, w)
        BY ONLY <4>1, <4>3, FromFacts
      <4>5. a = From(j, w) /\ b = From(j + 1, w)
        BY ONLY <2>1, <4>2, <4>3
      <4> QED
        BY ONLY <4>1, <4>4, <4>5
    <3>3. /\ Len(st.buffer) = b - a /\ \A i \in 1..(b - a) : st.buffer[i] = a + i - 1
      <4>1. b - 1 \in Int /\ a <= (b - 1) + 1
        BY ONLY <3>2
      <4>2. /\ Len(RowsFrom(a, b - 1)) = (b - 1) - a + 1
            /\ \A i \in 1..((b - 1) - a + 1) : RowsFrom(a, b - 1)[i] = a + i - 1
        BY ONLY <3>2, <4>1, RowsFromFacts
      <4>3. (b - 1) - a + 1 = b - a
        BY ONLY <3>2
      <4> QED
        BY ONLY <3>1, <4>2, <4>3
    <3>4. CASE last
      <4>1. st.index = b - a - 1 /\ n = b - 1
        <5>1. st.index + 1 >= Len(st.buffer)
          BY ONLY <1>2, <3>4
        <5>2. PICK i, m : i = st.index /\ m = Len(st.buffer)
          OBVIOUS
        <5>3. i + 1 >= m /\ i < m /\ m = b - a /\ n = a + i /\ i \in Nat /\ m \in Nat
          BY ONLY <1>4, <3>1, <3>3, <5>1, <5>2
        <5>4. i = b - a - 1 /\ n = b - 1
          BY ONLY <3>2, <5>3
        <5> QED
          BY ONLY <5>2, <5>4
      <4>2. st.index + 1 = b - a /\ st.index + 1 \in 1..(b - a) /\ a + (b - a) - 1 = n
        BY ONLY <1>4, <3>2, <4>1
      <4>3. row = <<n>>
        BY ONLY <1>2, <3>1, <3>3, <4>2
      <4>4. r.buffer = <<>>
        BY <1>7, <3>4
      <4> QED
        BY ONLY <1>7, <1>10, <1>12, <1>13, <2>1, <2>2, <4>1, <4>3, <4>4 DEF Position
    <3>5. CASE ~last
      <4>1. r.buffer = st.buffer /\ r.index = st.index + 1 /\ r.index > 0
        BY <1>4, <1>7, <3>5
      <4>2. n = a + r.index - 1
        BY ONLY <1>4, <3>1, <3>2, <4>1
      <4> QED
        BY ONLY <1>7, <1>10, <1>12, <1>13, <2>1, <2>2, <3>1, <4>1, <4>2 DEF Position
    <3> QED
      BY <1>2, <3>4, <3>5
  <2> QED
    BY <2>3, <2>4
<1>23. StreamInv(s)'
  BY <1>15, <1>16, <1>17, <1>18, <1>19, <1>20, <1>21, <1>22 DEF StreamInv, WaitInv
<1>24. r.phase = "waiting"
  BY <1>7 DEF Taking
<1>25. \A c \in Calls(s)' : c.fn # "onResultStreamData"
  BY <1>13
<1> QED
  BY ONLY <1>3, <1>6, <1>7, <1>8, <1>9, <1>11, <1>23, <1>24, <1>25

\* The types of a stream's fields.
LEMMA WindowTypes ==
    ASSUME TypeOK, NEW s \in scenario.streams
    PROVE  /\ stream[s] \in StreamState
           /\ scenario \in Scenarios /\ LastChunk \in Nat /\ Returned \in Nat /\ Chunks = 1..LastChunk
           /\ stream[s].window.start \in Int /\ stream[s].window.end \in Int
           /\ stream[s].current \in Nat /\ stream[s].index \in Nat /\ Len(stream[s].buffer) \in Nat
           /\ Len(stream[s].out) \in Nat
           /\ stream[s].buffer \in Seq(0..(Returned - 1)) /\ stream[s].out \in Seq(0..(Returned - 1))
           /\ stream[s].buffer # <<>> => stream[s].index < Len(stream[s].buffer)
           /\ stream[s].buffer = <<>> => stream[s].index = 0
<1>1. scenario \in Scenarios /\ stream[s] \in StreamState
  BY DEF TypeOK
<1>2. LastChunk \in Nat /\ Returned \in Nat /\ Chunks = 1..LastChunk
  BY ONLY <1>1, ChunkFacts
<1>3. /\ stream[s].window.start \in Int /\ stream[s].window.end \in Int
      /\ stream[s].current \in Nat /\ stream[s].index \in Nat
      /\ stream[s].buffer \in Seq(0..(Returned - 1)) /\ stream[s].out \in Seq(0..(Returned - 1))
  BY ONLY <1>1 DEF StreamState
<1>4. Len(stream[s].buffer) \in Nat /\ Len(stream[s].out) \in Nat
  BY ONLY <1>3, LenProperties
<1>5. stream[s].index # 0 => stream[s].index < Len(stream[s].buffer)
  BY DEF TypeOK
<1>6. stream[s].buffer = <<>> => stream[s].index = 0
  BY ONLY <1>3, <1>5
<1>7. stream[s].buffer # <<>> => Len(stream[s].buffer) > 0
  BY ONLY <1>3, <1>4, EmptySeq
<1>8. stream[s].buffer # <<>> => stream[s].index < Len(stream[s].buffer)
  BY ONLY <1>3, <1>4, <1>5, <1>7
<1> QED
  BY ONLY <1>1, <1>2, <1>3, <1>4, <1>6, <1>8

\* A stream that is not being read waits for nothing.
LEMMA IdleFacts ==
    ASSUME RowsInv, ~crashed, NEW s \in scenario.streams, stream[s].phase = "idle"
    PROVE  /\ TypeOK /\ StreamInv(s)
           /\ Calls(s) = {} /\ Queued(s) = {} /\ \A k \in Chunks : Waits(s, k) = {}
           /\ stream[s].refreshing = "no"
           /\ Rest(pending, s)
           /\ stream[s].initialized => stream[s].current # None /\ statement # "fetching"
<1>1. TypeOK /\ StreamInv(s)
  BY OnceOf
<1>2. Calls(s) = {}
  BY <1>1 DEF StreamInv, CallInv
<1>3. Queued(s) = {} /\ \A k \in Chunks : Waits(s, k) = {}
  BY <1>1 DEF StreamInv, WaitInv, QueuedInv, ListenInv
<1>4. stream[s].refreshing = "no"
  <2>1. stream[s].refreshing \in {"no", "init", "stream"}
    BY <1>1 DEF TypeOK, StreamState
  <2> QED
    BY <1>1, <2>1 DEF StreamInv, WaitInv, RefreshInv
<1>5. stream[s].initialized => stream[s].current # None /\ statement # "fetching"
  BY <1>1 DEF StreamInv, Stage, WaitInv, RefreshInv
<1>6. Rest(pending, s)
  BY <1>2, FreeRest
<1> QED
  BY <1>1, <1>2, <1>3, <1>4, <1>5, <1>6

\* What a stream has got to is what it is ready to go on with.
LEMMA ReadyFacts ==
    ASSUME RowsInv, ~crashed, NEW s \in scenario.streams, stream[s].phase \in {"idle", "waiting"},
           stream[s].current # None, stream[s].initialized,
           \A c \in Calls(s) : c.fn # "pushRows",
           NEW st \in StreamState,
           st.phase = "waiting", st.initialized, st.refreshing = "no",
           st.buffer = stream[s].buffer, st.index = stream[s].index,
           st.current = stream[s].current, st.window = stream[s].window,
           st.previous = stream[s].previous, st.out = stream[s].out,
           st.interrupts \in Nat, st.interrupts <= stream[s].interrupts
    PROVE  /\ st.buffer = <<>> => Ready(st)
           /\ st.buffer # <<>> => Taking(st)
<1>1. TypeOK /\ Stage(s) /\ InterruptInv(s) /\ PushedInv(s) /\ Position(s)
  BY OnceOf DEF StreamInv
<1>2. PICK x, w : x = stream[s] /\ w = stream[s].window
  OBVIOUS
<1>3. /\ x.current \in 1..(LastChunk + 1)
      /\ 0 <= w.start /\ w.start <= w.end /\ w.end < Returned
      /\ x.current <= LastChunk => w.start <= EndIndex(x.current)
      /\ x.previous \in {None, x.current - 1}
  BY <1>1, <1>2 DEF Stage
<1>4. Shift = 0 /\ scenario.faults \subseteq {"forbidden"} => st.interrupts <= failures
  <2>1. failures \in Nat /\ stream[s].interrupts \in Nat
    BY <1>1, ResultAssumption DEF TypeOK, StreamState
  <2> QED
    BY <1>1, <2>1 DEF InterruptInv
<1>5. Sound => /\ x.out = RowsFrom(w.start, w.start + Len(x.out) - 1)
               /\ w.start + Len(x.out) <= w.end + 1
  BY <1>1, <1>2 DEF PushedInv
<1>6. Sound /\ x.buffer = <<>> => w.start + Len(x.out) = From(x.current, w)
  BY ONLY <1>1, <1>2, stream[s].phase \in {"idle", "waiting"}, stream[s].current # None,
          \A c \in Calls(s) : c.fn # "pushRows" DEF Position
<1>7. Sound /\ x.buffer # <<>> =>
         /\ x.current > 1
         /\ x.buffer = RowsFrom(From(x.current - 1, w), From(x.current, w) - 1)
         /\ w.start + Len(x.out) = From(x.current - 1, w) + x.index
  BY ONLY <1>1, <1>2, stream[s].phase \in {"idle", "waiting"}, stream[s].current # None,
          \A c \in Calls(s) : c.fn # "pushRows" DEF Position
<1>8. /\ x.buffer # <<>> => x.index < Len(x.buffer)
      /\ x.buffer = <<>> => x.index = 0
  BY <1>1, <1>2, WindowTypes
<1>9. ASSUME st.buffer = <<>>
      PROVE  Ready(st)
  BY <1>2, <1>3, <1>4, <1>5, <1>6, <1>8, <1>9 DEF Ready
<1>10. ASSUME st.buffer # <<>>
       PROVE  Taking(st)
  BY <1>2, <1>3, <1>4, <1>5, <1>7, <1>8, <1>10 DEF Taking
<1> QED
  BY <1>9, <1>10

\* The read that finds the stream initialized.
LEMMA ReadNextStep ==
    ASSUME RowsInv, scenario' = scenario, ~crashed, NEW s \in scenario.streams,
           stream[s].phase = "idle", stream[s].initialized,
           readNextRow(s, [stream[s] EXCEPT !.phase = "waiting"], pending),
           UNCHANGED <<onComplete, statement, url, rows, failures, crashed>>
    PROVE  RowsInv'
<1>1. /\ TypeOK /\ StreamInv(s)
      /\ Calls(s) = {} /\ Queued(s) = {} /\ \A k \in Chunks : Waits(s, k) = {}
      /\ stream[s].refreshing = "no" /\ Rest(pending, s)
      /\ stream[s].current # None /\ statement # "fetching"
  BY IdleFacts
<1>2. PICK st : st = [stream[s] EXCEPT !.phase = "waiting"]
  OBVIOUS
<1>3. stream[s] \in StreamState
  BY <1>1, WindowTypes
<1>4. /\ st \in StreamState
      /\ st.phase = "waiting" /\ st.initialized = stream[s].initialized /\ st.refreshing = stream[s].refreshing
      /\ st.buffer = stream[s].buffer /\ st.index = stream[s].index
      /\ st.current = stream[s].current /\ st.window = stream[s].window
      /\ st.previous = stream[s].previous /\ st.out = stream[s].out
      /\ st.interrupts = stream[s].interrupts
  BY ONLY <1>2, <1>3 DEF StreamState
<1>5. st.interrupts \in Nat /\ st.interrupts <= stream[s].interrupts
  BY <1>3, <1>4, ResultAssumption DEF StreamState
<1>6. /\ st.buffer = <<>> => Ready(st)
      /\ st.buffer # <<>> => Taking(st)
  BY ONLY <1>1, <1>4, <1>5, RowsInv, ~crashed, s \in scenario.streams,
          stream[s].phase = "idle", stream[s].initialized, ReadyFacts
<1>7. CASE /\ st.buffer # <<>> /\ processRowBuffer(s, st, pending)
           /\ UNCHANGED <<fetch, completing, listeners>>
  <2>1. PICK r, C :
              /\ r \in StreamState
              /\ stream' = [stream EXCEPT ![s] = r]
              /\ r.index # 0 => r.index < Len(r.buffer)
              /\ r.phase = "waiting" /\ r.current = st.current
              /\ r.window = st.window /\ r.previous = st.previous
              /\ Given(s, C) /\ SameLoads /\ OnlyFor(s) /\ StreamInv(s)'
              /\ \A c \in Calls(s)' : c.fn # "onResultStreamData"
    <3>1. /\ Taking(st) /\ processRowBuffer(s, st, pending)
          /\ statement' = statement /\ onComplete' = onComplete /\ listeners' = listeners
          /\ failures' = failures /\ crashed' = crashed
      BY <1>6, <1>7
    <3> QED
      BY ONLY <1>1, <3>1, RowsInv, ~crashed, scenario' = scenario, s \in scenario.streams,
         TakeStream
  <2>2. stream'[s] = r
    BY <1>1, <2>1 DEF TypeOK
  <2>3. Sound => \A j \in Chunks : Own(j)' /\ Held(j)'
    <3>1. fetch' = fetch /\ url' = url /\ rows' = rows
      BY <1>7
    <3>2. /\ stream[s].phase \in {"idle", "waiting"} /\ stream'[s].phase \in {"idle", "waiting"}
          /\ stream'[s].current = stream[s].current /\ stream'[s].window = stream[s].window
          /\ stream'[s].previous = stream[s].previous
      BY <1>4, <2>1, <2>2
    <3> QED
      BY ONLY <2>1, <3>1, <3>2, RowsInv, ~crashed, scenario' = scenario,
         s \in scenario.streams, GoesOn
  <2>4. /\ fetch' = fetch /\ completing' = completing /\ listeners' = listeners
        /\ onComplete' \in Seq(scenario.streams)
        /\ url' \in [Chunks -> Chunks \cup {None}]
        /\ rows' \in [Chunks -> Chunks \cup {None}] /\ \A j \in Chunks : rows'[j] \in {None, rows[j]}
        /\ failures' \in 0..MaxFailures /\ failures' >= failures /\ crashed' \in BOOLEAN
        /\ statement' \in {"fetching", "ok", "transient", "fatal"}
        /\ statement' = statement
    BY <1>1, <1>7, ResultAssumption DEF TypeOK
  <2> QED
    BY ONLY <2>1, <2>3, <2>4, RowsInv, ~crashed, scenario' = scenario, s \in scenario.streams,
       StreamStep
<1>8. CASE /\ st.buffer = <<>> /\ stream' = [stream EXCEPT ![s] = st]
           /\ doLoad(s, st, pending)
  <2>1. /\ Ready(st) /\ doLoad(s, st, pending) /\ stream' = [stream EXCEPT ![s] = st]
        /\ stream[s].phase \in {"idle", "waiting"}
        /\ statement' # "fetching" /\ statement' \in {"fetching", "ok", "transient", "fatal"}
        /\ statement' = statement
        /\ url' = url /\ rows' = rows /\ onComplete' = onComplete /\ failures' = failures
        /\ crashed' = crashed
        /\ stream[s].current = st.current /\ stream[s].window = st.window
        /\ stream[s].previous = st.previous
    BY <1>1, <1>4, <1>6, <1>8 DEF TypeOK
  <2> QED
    BY ONLY <1>1, <2>1, RowsInv, ~crashed, scenario' = scenario, s \in scenario.streams,
       LoadStream
<1> QED
  BY <1>2, <1>7, <1>8 DEF readNextRow

\* A stream that has not begun waits for the statement, for its initialization, or for
\* a refresh.
LEMMA WaitStep ==
    ASSUME RowsInv, ~crashed, scenario' = scenario, NEW s \in scenario.streams,
           stream[s].phase = "idle", ~stream[s].initialized,
           NEW st \in StreamState, stream' = [stream EXCEPT ![s] = st],
           st.phase = "waiting", ~st.initialized,
           st.buffer = stream[s].buffer, st.index = stream[s].index,
           st.current = stream[s].current, st.window = stream[s].window,
           st.previous = stream[s].previous, st.out = stream[s].out,
           st.interrupts = stream[s].interrupts,
           UNCHANGED <<statement, url, rows, fetch, completing, listeners, failures, crashed>>,
           \/ /\ statement = "fetching" /\ st.refreshing = "no"
              /\ onComplete' = Append(onComplete, s) /\ pending' = pending
           \/ /\ statement \in {"ok", "fatal"} /\ st.refreshing = "no"
              /\ onComplete' = onComplete /\ pending' = Append(pending, InitStream(s))
           \/ /\ statement = "transient" /\ st.refreshing = "init"
              /\ onComplete' = onComplete /\ pending' = pending
    PROVE  RowsInv'
<1>1. /\ TypeOK /\ StreamInv(s)
      /\ Calls(s) = {} /\ Queued(s) = {} /\ \A k \in Chunks : Waits(s, k) = {}
      /\ Rest(pending, s)
  BY IdleFacts
<1>2. OnceInv(s) /\ \A t \in scenario.streams : OnceInv(t)
  BY OnceOf
<1>3. stream'[s] = st /\ \A t \in scenario.streams \ {s} : stream'[t] = stream[t]
  BY <1>1 DEF TypeOK
<1>4. PICK C : /\ Given(s, C) /\ SameLoads /\ C \subseteq {InitStream(s)}
               /\ C # {} => statement \in {"ok", "fatal"}
  <2>1. CASE pending' = pending
    <3>1. Given(s, {}) /\ SameLoads
      BY ONLY <1>1, <2>1, s \in scenario.streams, RestGiven
    <3> QED
      BY <3>1
  <2>2. CASE pending' = Append(pending, InitStream(s)) /\ statement \in {"ok", "fatal"}
    <3>1. InitStream(s) \in CallsOf(s)
      BY NewCalls
    <3>2. Given(s, {InitStream(s)}) /\ SameLoads
      BY ONLY <1>1, <2>2, <3>1, s \in scenario.streams, AppendGiven
    <3> QED
      BY <2>2, <3>2
  <2> QED
    BY <2>1, <2>2
<1>5. onComplete \in Seq(scenario.streams) /\ onComplete' \in Seq(scenario.streams)
  <2>1. onComplete \in Seq(scenario.streams)
    BY <1>1 DEF TypeOK
  <2> QED
    BY <2>1, AppendProperties
<1>6. ASSUME NEW t \in scenario.streams
      PROVE  /\ t # s => Within(onComplete', {t}) = Queued(t)
             /\ Single(onComplete', {t})
             /\ t = s => (Within(onComplete', {t}) # {} => statement = "fetching" /\ C = {} /\ st.refreshing = "no")
  <2>1. Single(onComplete, {t})
    BY <1>2 DEF OnceInv
  <2>2. CASE onComplete' = onComplete
    BY <1>1, <2>1, <2>2 DEF Queued
  <2>3. CASE onComplete' = Append(onComplete, s) /\ statement = "fetching" /\ st.refreshing = "no"
    <3>1. /\ Within(Append(onComplete, s), {t}) = Within(onComplete, {t}) \cup ({s} \cap {t})
          /\ Single(onComplete, {t}) /\ (s \in {t} => Within(onComplete, {t}) = {})
                => Single(Append(onComplete, s), {t})
      BY ONLY <1>5, s \in scenario.streams, WithinAppend
    <3>2. C = {}
      BY <1>4, <2>3
    <3> QED
      BY <1>1, <2>1, <2>3, <3>1, <3>2 DEF Queued
  <2> QED
    BY <2>2, <2>3
<1>7. OnlyFor(s)
  BY <1>2, <1>3, <1>4, <1>6 DEF OnlyFor, Given, OnceInv, Waits
<1>8. Calls(s)' = C /\ (\A k \in Chunks : Waits(s, k)' = {}) /\ Queued(s)' = Within(onComplete', {s})
  BY <1>1, <1>4, Constant DEF Given, Calls, Waits, Queued
<1>9. \A c \in Calls(s)' : c.fn = "init"
  BY <1>4, <1>8, CallFields
<1>10. Stage(s) /\ InterruptInv(s) /\ PushedInv(s)
  BY <1>1 DEF StreamInv
<1>11. stream[s].current = None
  BY <1>10 DEF Stage
<1>12. Stage(s)'
  BY <1>3, <1>10, <1>11, Constant DEF Stage
<1>13. InterruptInv(s)' /\ PushedInv(s)' /\ Position(s)'
  <2>1. InterruptInv(s)'
    BY <1>3, <1>9, <1>10, <1>11, Constant DEF InterruptInv
  <2> QED
    BY <2>1, <1>3, <1>11, Constant DEF PushedInv, Position
<1>14. CallInv(s)'
  BY <1>3, <1>9 DEF CallInv
<1>15. OnceInv(s)'
  BY <1>2, <1>6, <1>7, Constant DEF OnlyFor, OnceInv
<1>16. QueuedInv(s)'
  BY <1>3, <1>6, <1>8 DEF QueuedInv
<1>17. ListenInv(s)'
  BY <1>8, Constant DEF ListenInv
<1>18. RefreshInv(s)'
  BY <1>3, <1>4, <1>8 DEF RefreshInv
<1>19. StreamInv(s)'
  BY <1>12, <1>13, <1>14, <1>15, <1>16, <1>17, <1>18 DEF StreamInv, WaitInv
<1>20. Sound => \A j \in Chunks : Own(j)' /\ Held(j)'
  <2>1. \A c \in Calls(s)' : c.fn # "onResultStreamData"
    BY <1>9
  <2>2. /\ stream[s].phase \in {"idle", "waiting"} /\ stream'[s].phase \in {"idle", "waiting"}
        /\ stream'[s].current = stream[s].current /\ stream'[s].window = stream[s].window
        /\ stream'[s].previous = stream[s].previous
        /\ fetch' = fetch /\ url' = url /\ rows' = rows
    BY <1>3
  <2> QED
    BY ONLY <1>7, <2>1, <2>2, RowsInv, ~crashed, scenario' = scenario, s \in scenario.streams,
       GoesOn
<1>21. /\ fetch' = fetch /\ completing' = completing /\ listeners' = listeners
       /\ url' \in [Chunks -> Chunks \cup {None}]
       /\ rows' \in [Chunks -> Chunks \cup {None}] /\ \A j \in Chunks : rows'[j] \in {None, rows[j]}
       /\ failures' \in 0..MaxFailures /\ failures' >= failures /\ crashed' \in BOOLEAN
       /\ statement' \in {"fetching", "ok", "transient", "fatal"}
       /\ statement' = statement
       /\ st.index # 0 => st.index < Len(st.buffer)
  BY <1>1, ResultAssumption DEF TypeOK
<1> QED
  BY ONLY <1>4, <1>5, <1>7, <1>19, <1>20, <1>21, RowsInv, ~crashed, scenario' = scenario,
          s \in scenario.streams, st \in StreamState, stream' = [stream EXCEPT ![s] = st], StreamStep

\* _read() keeps the invariant: it waits for the statement, begins, or goes on with
\* the row buffer or the next chunk.
LEMMA ReadStep ==
    ASSUME RowsInv, scenario' = scenario, NEW s \in scenario.streams, read(s)
    PROVE  RowsInv'
<1>1. ~crashed /\ stream[s].phase = "idle"
  BY DEF read
<1>2. /\ TypeOK /\ stream[s].refreshing = "no"
  BY <1>1, IdleFacts
<1>3. stream[s] \in StreamState
  BY <1>2, WindowTypes
<1>4. PICK st, sr : /\ st = [stream[s] EXCEPT !.phase = "waiting"]
                    /\ sr = [st EXCEPT !.refreshing = "init"]
  OBVIOUS
<1>5. /\ st \in StreamState
      /\ st.phase = "waiting" /\ st.initialized = stream[s].initialized /\ st.refreshing = stream[s].refreshing
      /\ st.buffer = stream[s].buffer /\ st.index = stream[s].index
      /\ st.current = stream[s].current /\ st.window = stream[s].window
      /\ st.previous = stream[s].previous /\ st.out = stream[s].out
      /\ st.interrupts = stream[s].interrupts
  BY ONLY <1>3, <1>4 DEF StreamState
<1>6. /\ sr \in StreamState
      /\ sr.phase = "waiting" /\ sr.initialized = stream[s].initialized /\ sr.refreshing = "init"
      /\ sr.buffer = stream[s].buffer /\ sr.index = stream[s].index
      /\ sr.current = stream[s].current /\ sr.window = stream[s].window
      /\ sr.previous = stream[s].previous /\ sr.out = stream[s].out
      /\ sr.interrupts = stream[s].interrupts
  BY ONLY <1>4, <1>5 DEF StreamState
<1>7. CASE /\ st.initialized /\ readNextRow(s, st, pending) /\ UNCHANGED onComplete
  BY <1>1, <1>4, <1>5, <1>7, ReadNextStep DEF read
<1>8. CASE /\ ~st.initialized /\ statement = "fetching"
           /\ onComplete' = Append(onComplete, s)
           /\ stream' = [stream EXCEPT ![s] = st]
           /\ UNCHANGED <<fetch, completing, listeners, pending>>
  <2>1. UNCHANGED <<statement, url, rows, fetch, completing, listeners, failures, crashed>>
    BY <1>8 DEF read
  <2> QED
    BY ONLY <1>1, <1>2, <1>5, <1>8, <2>1, RowsInv, scenario' = scenario,
       s \in scenario.streams, WaitStep
<1>9. CASE /\ ~st.initialized /\ statement \in {"ok", "fatal"}
           /\ pending' = Append(pending, InitStream(s))
           /\ stream' = [stream EXCEPT ![s] = st]
           /\ UNCHANGED <<fetch, completing, listeners, onComplete>>
  <2>1. UNCHANGED <<statement, url, rows, fetch, completing, listeners, failures, crashed>>
    BY <1>9 DEF read
  <2> QED
    BY ONLY <1>1, <1>2, <1>5, <1>9, <2>1, RowsInv, scenario' = scenario,
       s \in scenario.streams, WaitStep
<1>10. CASE /\ ~st.initialized /\ statement = "transient"
            /\ stream' = [stream EXCEPT ![s] = sr]
            /\ UNCHANGED <<fetch, completing, listeners, onComplete, pending>>
  <2>1. UNCHANGED <<statement, url, rows, fetch, completing, listeners, failures, crashed>>
    BY <1>10 DEF read
  <2> QED
    BY ONLY <1>1, <1>5, <1>6, <1>10, <2>1, RowsInv, scenario' = scenario,
       s \in scenario.streams, WaitStep
<1>11. \/ /\ st.initialized /\ readNextRow(s, st, pending) /\ UNCHANGED onComplete
       \/ /\ ~st.initialized /\ statement = "fetching"
          /\ onComplete' = Append(onComplete, s)
          /\ stream' = [stream EXCEPT ![s] = st]
          /\ UNCHANGED <<fetch, completing, listeners, pending>>
       \/ /\ ~st.initialized /\ statement \in {"ok", "fatal"}
          /\ pending' = Append(pending, InitStream(s))
          /\ stream' = [stream EXCEPT ![s] = st]
          /\ UNCHANGED <<fetch, completing, listeners, onComplete>>
       \/ /\ ~st.initialized /\ statement = "transient"
          /\ stream' = [stream EXCEPT ![s] = sr]
          /\ UNCHANGED <<fetch, completing, listeners, onComplete, pending>>
  BY ONLY <1>4, read(s), Zenon DEF read
<1> QED
  BY <1>7, <1>8, <1>9, <1>10, <1>11

\* The callback that runs is the one its stream waits for.
LEMMA HeadFacts ==
    ASSUME RowsInv, ~crashed, pending # <<>>, Head(pending).fn # "completeLoad",
           NEW s, s = Head(pending).stream
    PROVE  /\ TypeOK /\ s \in scenario.streams /\ StreamInv(s)
           /\ Head(pending) \in Callback /\ Head(pending) \in CallsOf(s)
           /\ Calls(s) = {Head(pending)} /\ Rest(Tail(pending), s)
           /\ Queued(s) = {} /\ \A k \in Chunks : Waits(s, k) = {}
           /\ stream[s].phase = "waiting" /\ statement # "fetching"
<1>1. TypeOK /\ pending \in Seq(Callback) /\ \A t \in scenario.streams : StreamInv(t)
  BY OnceOf
<1>2. Head(pending) \in Callback
  BY ONLY <1>1, pending # <<>>, WithinTail
<1>3. s \in scenario.streams /\ Head(pending) \in CallsOf(s)
  BY <1>2, CallKinds
<1>4. Rest(Tail(pending), s) /\ Calls(s) = {Head(pending)}
  BY <1>3, TailRest
<1>5. CallInv(s) /\ QueuedInv(s) /\ ListenInv(s) /\ RefreshInv(s)
  BY <1>1, <1>3 DEF StreamInv, WaitInv
<1>6. Queued(s) = {} /\ \A k \in Chunks : Waits(s, k) = {}
  BY <1>4, <1>5 DEF QueuedInv, ListenInv
<1>7. stream[s].phase = "waiting" /\ statement # "fetching"
  BY <1>4, <1>5 DEF CallInv, RefreshInv
<1> QED
  BY <1>1, <1>2, <1>3, <1>4, <1>6, <1>7

\* A stream that has pushed rows.
LEMMA PushedStep ==
    ASSUME RowsInv, ~crashed, scenario' = scenario, NEW s \in scenario.streams,
           stream[s].phase = "waiting", stream[s].initialized, stream[s].refreshing = "no",
           stream[s].current # None, statement # "fetching",
           Queued(s) = {}, \A k \in Chunks : Waits(s, k) = {},
           Rest(Tail(pending), s), pending' = Tail(pending),
           NEW r \in StreamState, stream' = [stream EXCEPT ![s] = r],
           r.phase \in {"idle", "waiting"}, r.index # 0 => r.index < Len(r.buffer),
           r.initialized = stream[s].initialized, r.refreshing = stream[s].refreshing,
           r.current = stream[s].current, r.window = stream[s].window,
           r.previous = stream[s].previous, r.interrupts = stream[s].interrupts,
           NEW w, w = r.window,
           Sound =>
              /\ r.out = RowsFrom(w.start, w.start + Len(r.out) - 1)
              /\ w.start + Len(r.out) <= w.end + 1
              /\ r.buffer = <<>> => w.start + Len(r.out) = From(r.current, w)
              /\ r.buffer # <<>> =>
                    /\ r.current > 1 /\ r.index > 0
                    /\ r.buffer = RowsFrom(From(r.current - 1, w), From(r.current, w) - 1)
                    /\ w.start + Len(r.out) = From(r.current - 1, w) + r.index,
           UNCHANGED <<statement, url, rows, fetch, completing, listeners, onComplete, failures, crashed>>
    PROVE  RowsInv'
<1>1. TypeOK /\ StreamInv(s) /\ OnceInv(s) /\ \A t \in scenario.streams : OnceInv(t)
  BY OnceOf
<1>2. stream'[s] = r /\ \A t \in scenario.streams \ {s} : stream'[t] = stream[t]
  BY <1>1 DEF TypeOK
<1>3. Given(s, {}) /\ SameLoads
  BY ONLY Rest(Tail(pending), s), pending' = Tail(pending), s \in scenario.streams, RestGiven
<1>4. OnlyFor(s)
  <2>1. onComplete' = onComplete /\ listeners' = listeners
    OBVIOUS
  <2> QED
    BY ONLY <1>2, <1>3, <2>1, RowsInv, ~crashed, SameWaits
<1>5. Calls(s)' = {} /\ Queued(s)' = {} /\ \A k \in Chunks : Waits(s, k)' = {}
  BY <1>3, Constant DEF Given, Calls, Waits, Queued
<1>6. Stage(s) /\ InterruptInv(s) /\ RefreshInv(s)
  BY <1>1 DEF StreamInv, WaitInv
<1>7. Stage(s)'
  <2>1. PICK k, u : k = r.current /\ u = r.window
    OBVIOUS
  <2>2. /\ k \in 1..(LastChunk + 1)
        /\ 0 <= u.start /\ u.start <= u.end /\ u.end < Returned
        /\ k <= LastChunk => u.start <= EndIndex(k)
        /\ r.previous \in {None, k - 1} /\ k # None
    BY <1>6, <2>1 DEF Stage
  <2>3. LastChunk' = LastChunk /\ Returned' = Returned /\ EndIndex(k)' = EndIndex(k)
    BY Constant
  <2> QED
    BY <1>2, <2>1, <2>2, <2>3 DEF Stage
<1>8. InterruptInv(s)'
  BY <1>2, <1>5, <1>6, Constant DEF InterruptInv
<1>9. PushedInv(s)'
  BY <1>2, Constant DEF PushedInv
<1>10. Position(s)'
  <2>1. /\ Sound' = Sound /\ From(r.current, w)' = From(r.current, w)
        /\ From(r.current - 1, w)' = From(r.current - 1, w)
    BY Constant
  <2> QED
    BY <1>2, <1>5, <2>1 DEF Position
<1>11. CallInv(s)'
  BY <1>5 DEF CallInv
<1>12. OnceInv(s)'
  BY <1>1, <1>4, Constant DEF OnlyFor, OnceInv
<1>13. QueuedInv(s)' /\ ListenInv(s)' /\ RefreshInv(s)'
  BY <1>2, <1>5, <1>6, Constant DEF QueuedInv, ListenInv, RefreshInv
<1>14. StreamInv(s)'
  BY <1>7, <1>8, <1>9, <1>10, <1>11, <1>12, <1>13 DEF StreamInv, WaitInv
<1>15. Sound => \A j \in Chunks : Own(j)' /\ Held(j)'
  <2>1. /\ stream[s].phase \in {"idle", "waiting"} /\ stream'[s].phase \in {"idle", "waiting"}
        /\ stream'[s].current = stream[s].current /\ stream'[s].window = stream[s].window
        /\ stream'[s].previous = stream[s].previous
        /\ \A c \in Calls(s)' : c.fn # "onResultStreamData"
        /\ fetch' = fetch /\ url' = url /\ rows' = rows
    BY <1>2, <1>5
  <2> QED
    BY ONLY <1>4, <2>1, RowsInv, ~crashed, scenario' = scenario, s \in scenario.streams, GoesOn
<1>16. /\ fetch' = fetch /\ completing' = completing /\ listeners' = listeners
       /\ onComplete' \in Seq(scenario.streams)
       /\ url' \in [Chunks -> Chunks \cup {None}]
       /\ rows' \in [Chunks -> Chunks \cup {None}] /\ \A j \in Chunks : rows'[j] \in {None, rows[j]}
       /\ failures' \in 0..MaxFailures /\ failures' >= failures /\ crashed' \in BOOLEAN
       /\ statement' \in {"fetching", "ok", "transient", "fatal"}
       /\ statement' = statement
  BY <1>1, ResultAssumption DEF TypeOK
<1> QED
  BY ONLY <1>3, <1>4, <1>14, <1>15, <1>16, RowsInv, ~crashed, scenario' = scenario,
     s \in scenario.streams,
          r \in StreamState, stream' = [stream EXCEPT ![s] = r], r.index # 0 => r.index < Len(r.buffer),
          StreamStep

\* The rows in the buffer from the one that was taken.
LEMMA PushBufferStep ==
    ASSUME RowsInv, ~crashed, scenario' = scenario, pending # <<>>, Head(pending).fn = "pushRows",
           NEW s, s = Head(pending).stream, NEW st, st = stream[s],
           st.buffer # <<>>, st.index > 0, NEW n \in st.index..Len(st.buffer),
           stream' = [stream EXCEPT ![s] =
                        [st EXCEPT !.phase  = "idle",
                                   !.buffer = IF n = Len(st.buffer) THEN <<>> ELSE st.buffer,
                                   !.index  = IF n = Len(st.buffer) THEN 0 ELSE n,
                                   !.out    = st.out \o SubSeq(st.buffer, st.index, n)]],
           pending' = Tail(pending),
           UNCHANGED <<statement, url, rows, fetch, completing, listeners, onComplete, failures, crashed>>
    PROVE  RowsInv'
<1>1. /\ TypeOK /\ s \in scenario.streams /\ StreamInv(s)
      /\ Calls(s) = {Head(pending)} /\ Rest(Tail(pending), s)
      /\ Queued(s) = {} /\ \A k \in Chunks : Waits(s, k) = {}
      /\ stream[s].phase = "waiting" /\ statement # "fetching"
  BY HeadFacts
<1>2. CallInv(s) /\ Stage(s) /\ PushedInv(s) /\ Position(s)
  BY <1>1 DEF StreamInv
<1>3. st.current # None /\ stream[s].initialized /\ stream[s].refreshing = "no"
  BY <1>1, <1>2 DEF CallInv
<1>4. /\ st \in StreamState
      /\ st.window.start \in Int /\ st.window.end \in Int
      /\ st.current \in Nat /\ st.index \in Nat /\ Len(st.buffer) \in Nat
      /\ Len(st.out) \in Nat
      /\ st.buffer \in Seq(0..(Returned - 1)) /\ st.out \in Seq(0..(Returned - 1))
      /\ scenario \in Scenarios /\ LastChunk \in Nat /\ Chunks = 1..LastChunk
  BY <1>1, WindowTypes
<1>5. PICK bf, ix, sub, out :
        /\ bf = (IF n = Len(st.buffer) THEN <<>> ELSE st.buffer)
        /\ ix = (IF n = Len(st.buffer) THEN 0 ELSE n)
        /\ sub = SubSeq(st.buffer, st.index, n)
        /\ out = st.out \o sub
  OBVIOUS
<1>6. PICK r : r = [st EXCEPT !.phase = "idle", !.buffer = bf, !.index = ix, !.out = out]
  OBVIOUS
<1>7. n \in Nat /\ st.index <= n /\ n <= Len(st.buffer)
  BY ONLY <1>4, n \in st.index..Len(st.buffer)
<1>8. bf \in Seq(0..(Returned - 1)) /\ ix \in Nat /\ sub \in Seq(0..(Returned - 1))
      /\ out \in Seq(0..(Returned - 1)) /\ Len(sub) = n - st.index + 1
      /\ Len(out) = Len(st.out) + Len(sub)
  <2>1. bf \in Seq(0..(Returned - 1)) /\ ix \in Nat
    BY ONLY <1>4, <1>5, <1>7, EmptySeq
  <2>2. st.index \in 1..(Len(st.buffer) + 1) /\ n \in (st.index - 1)..Len(st.buffer)
    BY ONLY <1>4, <1>7, st.index > 0
  <2>3. sub \in Seq(0..(Returned - 1)) /\ Len(sub) = IF st.index <= n THEN n - st.index + 1 ELSE 0
    <3>1. \A i \in st.index..n : st.buffer[i] \in 0..(Returned - 1)
      <4>1. \A i \in st.index..n : i \in 1..Len(st.buffer)
        BY ONLY <1>4, <1>7, st.index > 0
      <4> QED
        BY ONLY <1>4, <4>1, ElementOfSeq
    <3>2. st.index \in Int /\ n \in Int
      BY ONLY <1>4, <1>7
    <3> QED
      BY ONLY <1>5, <3>1, <3>2, SubSeqProperties
  <2>4. out \in Seq(0..(Returned - 1)) /\ Len(out) = Len(st.out) + Len(sub)
    BY ONLY <1>4, <1>5, <2>3, ConcatProperties
  <2> QED
    BY ONLY <1>7, <2>1, <2>3, <2>4
<1>9. /\ r \in StreamState
      /\ r.phase = "idle" /\ r.initialized = st.initialized /\ r.refreshing = st.refreshing
      /\ r.buffer = bf /\ r.index = ix /\ r.out = out
      /\ r.current = st.current /\ r.window = st.window
      /\ r.previous = st.previous /\ r.interrupts = st.interrupts
  BY ONLY <1>4, <1>6, <1>8 DEF StreamState
<1>10. stream' = [stream EXCEPT ![s] = r]
  BY ONLY <1>5, <1>6, 
           stream' = [stream EXCEPT ![s] =
                        [st EXCEPT !.phase  = "idle",
                                   !.buffer = IF n = Len(st.buffer) THEN <<>> ELSE st.buffer,
                                   !.index  = IF n = Len(st.buffer) THEN 0 ELSE n,
                                   !.out    = st.out \o SubSeq(st.buffer, st.index, n)]]
<1>11. r.index # 0 => r.index < Len(r.buffer)
  BY ONLY <1>4, <1>5, <1>7, <1>9
<1>12. PICK w, x, y, a, b : /\ w = r.window /\ x = w.start /\ y = w.end
                            /\ a = From(st.current - 1, w) /\ b = From(st.current, w)
  OBVIOUS
<1>13. ASSUME Sound
       PROVE  /\ r.out = RowsFrom(w.start, w.start + Len(r.out) - 1)
              /\ w.start + Len(r.out) <= w.end + 1
              /\ r.buffer = <<>> => w.start + Len(r.out) = From(r.current, w)
              /\ r.buffer # <<>> =>
                    /\ r.current > 1 /\ r.index > 0
                    /\ r.buffer = RowsFrom(From(r.current - 1, w), From(r.current, w) - 1)
                    /\ w.start + Len(r.out) = From(r.current - 1, w) + r.index
  <2>1. /\ st.out = RowsFrom(x, x + Len(st.out) - 1)
        /\ x + Len(st.out) <= y + 1
    BY <1>2, <1>3, <1>9, <1>12, <1>13 DEF PushedInv
  <2>2. /\ st.current > 1
        /\ st.buffer = RowsFrom(a, b - 1)
        /\ x + Len(st.out) = a + st.index - 1
    BY ONLY <1>1, <1>2, <1>3, <1>9, <1>12, <1>13, st = stream[s], st.buffer # <<>>,
       Head(pending).fn = "pushRows"
       DEF Position
  <2>3. /\ st.current - 1 \in Chunks /\ (st.current - 1) + 1 = st.current
        /\ x <= y /\ x \in Int /\ y \in Int
    <3>1. st.current \in 1..(LastChunk + 1) /\ st.window.start <= st.window.end
      BY <1>2, <1>3 DEF Stage
    <3> QED
      <4>1. PICK k : k = st.current
        OBVIOUS
      <4>2. k \in 1..(LastChunk + 1) /\ k > 1 /\ k \in Nat /\ LastChunk \in Nat
        BY ONLY <1>4, <2>2, <3>1, <4>1
      <4>3. k - 1 \in 1..LastChunk /\ (k - 1) + 1 = k
        BY ONLY <4>2
      <4> QED
        BY ONLY <1>4, <1>9, <1>12, <3>1, <4>1, <4>3
  <2>4. a \in Int /\ b \in Int /\ a <= b /\ b <= y + 1
    <3>1. PICK j : j = st.current - 1
      OBVIOUS
    <3>2. j \in Chunks /\ j + 1 = st.current /\ w.start \in Int /\ w.end \in Int /\ w.start <= w.end
      BY ONLY <1>12, <2>3, <3>1
    <3>3. /\ From(j, w) \in w.start..(w.end + 1)
          /\ From(j + 1, w) \in w.start..(w.end + 1)
          /\ From(j, w) <= From(j + 1, w)
      BY ONLY <1>4, <3>2, FromFacts
    <3> QED
      BY ONLY <1>12, <3>1, <3>2, <3>3
  <2>5. Len(st.buffer) = b - a
    <3>1. b - 1 \in Int /\ a <= (b - 1) + 1
      BY ONLY <2>4
    <3>2. Len(RowsFrom(a, b - 1)) = (b - 1) - a + 1
      BY ONLY <2>4, <3>1, RowsFromFacts
    <3> QED
      BY ONLY <2>2, <2>4, <3>2
  <2>6. PICK i, o : i = st.index /\ o = Len(st.out)
    OBVIOUS
  <2>7. i \in Nat /\ o \in Nat /\ i > 0 /\ i <= n /\ n <= b - a /\ n \in Nat /\ x + o = a + i - 1
    BY ONLY <1>4, <1>7, <2>2, <2>5, <2>6, st.index > 0
  <2>8. sub = RowsFrom(a + i - 1, a + n - 1)
    <3>1. 1 <= i /\ i <= n + 1 /\ n <= (b - 1) - a + 1 /\ b - 1 \in Int /\ i \in Int /\ n \in Int
      BY ONLY <2>4, <2>7
    <3>2. SubSeq(RowsFrom(a, b - 1), i, n) = RowsFrom(a + i - 1, a + n - 1)
      <4>1. PICK c : c = b - 1
        OBVIOUS
      <4>2. a \in Int /\ c \in Int /\ i \in Int /\ n \in Int /\ 1 <= i /\ i <= n + 1 /\ n <= c - a + 1
        BY ONLY <2>4, <3>1, <4>1
      <4>3. SubSeq(RowsFrom(a, c), i, n) = RowsFrom(a + i - 1, a + n - 1)
        BY ONLY <4>2, SubRows, ZenonT(60)
      <4> QED
        BY ONLY <4>1, <4>3
    <3> QED
      BY ONLY <1>5, <2>2, <2>6, <3>2
  <2>9. out = RowsFrom(x, a + n - 1)
    <3>1. PICK m : m = x + o - 1
      OBVIOUS
    <3>2. m \in Int /\ x <= m + 1 /\ m <= a + n - 1 /\ m + 1 = a + i - 1 /\ a + n - 1 \in Int
      BY ONLY <2>3, <2>4, <2>7, <3>1
    <3>3. RowsFrom(x, m) \o RowsFrom(m + 1, a + n - 1) = RowsFrom(x, a + n - 1)
      BY ONLY <2>3, <3>2, ConcatRows
    <3>4. st.out = RowsFrom(x, m)
      BY ONLY <2>1, <2>6, <3>1
    <3> QED
      BY ONLY <1>5, <2>8, <3>2, <3>3, <3>4
  <2>10. Len(out) = o + (n - i + 1) /\ x + Len(out) = a + n /\ x + Len(out) <= y + 1
         /\ x + Len(out) - 1 = a + n - 1
    <3>1. Len(out) = o + (n - i + 1)
      BY ONLY <1>8, <2>6
    <3> QED
      BY ONLY <2>3, <2>4, <2>7, <3>1
  <2>11. bf = <<>> => a + n = b
    <3>1. n = Len(st.buffer) => a + n = b
      BY ONLY <2>4, <2>5
    <3> QED
      BY ONLY <1>5, <3>1, st.buffer # <<>>
  <2>12. bf # <<>> => bf = st.buffer /\ ix = n /\ ix > 0
    BY ONLY <1>5, <2>7
  <2>13. r.out = RowsFrom(w.start, w.start + Len(r.out) - 1) /\ w.start + Len(r.out) <= w.end + 1
    BY ONLY <1>9, <1>12, <2>9, <2>10
  <2>14. r.buffer = <<>> => w.start + Len(r.out) = From(r.current, w)
    BY ONLY <1>9, <1>12, <2>10, <2>11
  <2>15. r.buffer # <<>> =>
                    /\ r.current > 1 /\ r.index > 0
                    /\ r.buffer = RowsFrom(From(r.current - 1, w), From(r.current, w) - 1)
                    /\ w.start + Len(r.out) = From(r.current - 1, w) + r.index
    BY ONLY <1>9, <1>12, <2>2, <2>10, <2>12, Zenon
  <2> QED
    BY ONLY <2>13, <2>14, <2>15
<1> QED
  BY ONLY <1>1, <1>3, <1>9, <1>10, <1>11, <1>12, <1>13, RowsInv, ~crashed,
     scenario' = scenario,
          st = stream[s], pending' = Tail(pending),
          UNCHANGED <<statement, url, rows, fetch, completing, listeners, onComplete, failures, crashed>>,
          PushedStep

\* The row that was taken, when it is the last of the buffer.
LEMMA PushLastStep ==
    ASSUME RowsInv, ~crashed, scenario' = scenario, pending # <<>>, Head(pending).fn = "pushRows",
           NEW s, s = Head(pending).stream, NEW st, st = stream[s], NEW row, row = Head(pending).row,
           ~(st.buffer # <<>> /\ st.index > 0),
           stream' = [stream EXCEPT ![s].phase = IF row = <<>> THEN @ ELSE "idle", ![s].out = @ \o row],
           pending' = Tail(pending),
           UNCHANGED <<statement, url, rows, fetch, completing, listeners, onComplete, failures, crashed>>
    PROVE  RowsInv'
<1>1. /\ TypeOK /\ s \in scenario.streams /\ StreamInv(s) /\ Head(pending) \in Callback
      /\ Calls(s) = {Head(pending)} /\ Rest(Tail(pending), s)
      /\ Queued(s) = {} /\ \A k \in Chunks : Waits(s, k) = {}
      /\ stream[s].phase = "waiting" /\ statement # "fetching"
  BY HeadFacts
<1>2. CallInv(s) /\ Stage(s) /\ PushedInv(s) /\ Position(s)
  BY <1>1 DEF StreamInv
<1>3. st.current # None /\ stream[s].initialized /\ stream[s].refreshing = "no"
  BY <1>1, <1>2 DEF CallInv
<1>4. /\ st \in StreamState
      /\ st.window.start \in Int /\ st.window.end \in Int
      /\ st.current \in Nat /\ st.index \in Nat
      /\ Len(st.out) \in Nat /\ st.out \in Seq(0..(Returned - 1))
      /\ scenario \in Scenarios /\ LastChunk \in Nat
      /\ st.buffer = <<>> => st.index = 0
      /\ st.buffer # <<>> => st.index < Len(st.buffer)
  BY <1>1, WindowTypes
<1>5. row \in Seq(0..(Returned - 1))
  BY <1>1, CallKinds
<1>6. PICK ph, out : ph = (IF row = <<>> THEN st.phase ELSE "idle") /\ out = st.out \o row
  OBVIOUS
<1>7. PICK r : r = [st EXCEPT !.phase = ph, !.out = out]
  OBVIOUS
<1>8. ph \in {"idle", "waiting"} /\ out \in Seq(0..(Returned - 1)) /\ Len(out) = Len(st.out) + Len(row)
  <2>1. out \in Seq(0..(Returned - 1)) /\ Len(out) = Len(st.out) + Len(row)
    BY ONLY <1>4, <1>5, <1>6, ConcatProperties
  <2> QED
    BY <1>1, <1>6, <2>1
<1>9. /\ r \in StreamState
      /\ r.phase = ph /\ r.initialized = st.initialized /\ r.refreshing = st.refreshing
      /\ r.buffer = st.buffer /\ r.index = st.index /\ r.out = out
      /\ r.current = st.current /\ r.window = st.window
      /\ r.previous = st.previous /\ r.interrupts = st.interrupts
  BY ONLY <1>4, <1>7, <1>8 DEF StreamState
<1>10. stream' = [stream EXCEPT ![s] = r]
  <2>1. stream \in [scenario.streams -> StreamState]
    BY <1>1 DEF TypeOK
  <2> QED
    BY ONLY <1>1, <1>4, <1>6, <1>7, <2>1, st = stream[s],
       stream' = [stream EXCEPT ![s].phase = IF row = <<>> THEN @ ELSE "idle", ![s].out = @ \o row]
       DEF StreamState
<1>11. r.index # 0 => r.index < Len(r.buffer)
  BY ONLY <1>4, <1>9
<1>12. PICK w, x, y, b : /\ w = r.window /\ x = w.start /\ y = w.end /\ b = From(st.current, w)
  OBVIOUS
<1>13. ASSUME Sound
       PROVE  /\ r.out = RowsFrom(w.start, w.start + Len(r.out) - 1)
              /\ w.start + Len(r.out) <= w.end + 1
              /\ r.buffer = <<>>
              /\ w.start + Len(r.out) = From(r.current, w)
  <2>1. /\ st.out = RowsFrom(x, x + Len(st.out) - 1)
        /\ x + Len(st.out) <= y + 1
    BY <1>2, <1>3, <1>9, <1>12, <1>13 DEF PushedInv
  <2>2. PICK n : n = x + Len(st.out)
    OBVIOUS
  <2>3. st.buffer = <<>> /\ n = b - 1 /\ row = <<n>>
    BY ONLY <1>1, <1>2, <1>3, <1>9, <1>12, <1>13, <2>2, st = stream[s],
       row = Head(pending).row,
            ~(st.buffer # <<>> /\ st.index > 0), Head(pending).fn = "pushRows"
       DEF Position
  <2>4. x \in Int /\ y \in Int /\ x <= y /\ b \in Int /\ b <= y + 1 /\ n \in Int /\ x <= n
    <3>1. st.current \in 1..(LastChunk + 1) /\ st.window.start <= st.window.end
      BY <1>2, <1>3 DEF Stage
    <3>2. StartIndex(st.current) \in Nat
      BY ONLY <1>4, <3>1, ChunkFacts
    <3>3. x \in Int /\ y \in Int /\ x <= y
      BY ONLY <1>4, <1>9, <1>12, <3>1
    <3>4. b \in Int /\ b <= y + 1
      BY ONLY <1>12, <3>2, <3>3 DEF From
    <3> QED
      BY ONLY <1>4, <2>2, <3>3, <3>4
  <2>5. row = RowsFrom(n, n)
    <3>1. n <= n + 1 /\ row \in Seq(Int) /\ Len(row) = n - n + 1 /\ \A i \in 1..Len(row) : row[i] = n + i - 1
      BY ONLY <2>3, <2>4
    <3> QED
      BY ONLY <2>4, <3>1, RowsFromIs
  <2>6. out = RowsFrom(x, n)
    <3>1. PICK m : m = n - 1
      OBVIOUS
    <3>2. m \in Int /\ x <= m + 1 /\ m <= n /\ m + 1 = n
      BY ONLY <2>4, <3>1
    <3>3. RowsFrom(x, m) \o RowsFrom(m + 1, n) = RowsFrom(x, n)
      BY ONLY <2>4, <3>2, ConcatRows
    <3>4. st.out = RowsFrom(x, m)
      <4>1. m = x + Len(st.out) - 1
        BY ONLY <1>4, <2>2, <2>4, <3>1
      <4>2. PICK so : so = st.out
        OBVIOUS
      <4>3. so = RowsFrom(x, x + Len(st.out) - 1)
        BY ONLY <2>1, <4>2
      <4> QED
        BY ONLY <4>1, <4>2, <4>3
    <3> QED
      BY ONLY <1>6, <2>5, <3>2, <3>3, <3>4
  <2>7. x + Len(out) = b /\ x + Len(out) <= y + 1 /\ x + Len(out) - 1 = n
    <3>1. Len(row) = 1
      BY ONLY <2>3
    <3>2. PICK o : o = Len(st.out)
      OBVIOUS
    <3>3. Len(out) = o + 1 /\ o \in Nat
      BY ONLY <1>4, <1>8, <3>1, <3>2
    <3> QED
      BY ONLY <2>2, <2>3, <2>4, <3>2, <3>3
  <2> QED
    BY ONLY <1>9, <1>12, <2>3, <2>6, <2>7
<1>14. r.phase \in {"idle", "waiting"}
  BY <1>8, <1>9
<1> QED
  BY ONLY <1>1, <1>3, <1>9, <1>10, <1>11, <1>12, <1>13, <1>14, RowsInv, ~crashed,
     scenario' = scenario,
          st = stream[s], pending' = Tail(pending),
          UNCHANGED <<statement, url, rows, fetch, completing, listeners, onComplete, failures, crashed>>,
          PushedStep

\* The tick that pushes rows until push() returns false keeps the invariant.
LEMMA PushRowsStep ==
    ASSUME RowsInv, scenario' = scenario, pushRows
    PROVE  RowsInv'
<1>1. ~crashed /\ pending # <<>> /\ Head(pending).fn = "pushRows" /\ pending' = Tail(pending)
  BY DEF pushRows, Due
<1>2. UNCHANGED <<statement, url, rows, fetch, completing, listeners, onComplete, failures, crashed>>
  BY DEF pushRows, chunkVars
<1>3. PICK s, st, row : s = Head(pending).stream /\ st = stream[s] /\ row = Head(pending).row
  OBVIOUS
<1>4. \/ /\ st.buffer # <<>> /\ st.index > 0
         /\ \E n \in st.index..Len(st.buffer) :
               stream' = [stream EXCEPT ![s] =
                        [st EXCEPT !.phase  = "idle",
                                   !.buffer = IF n = Len(st.buffer) THEN <<>> ELSE st.buffer,
                                   !.index  = IF n = Len(st.buffer) THEN 0 ELSE n,
                                   !.out    = st.out \o SubSeq(st.buffer, st.index, n)]]
      \/ /\ ~(st.buffer # <<>> /\ st.index > 0)
         /\ stream' = [stream EXCEPT ![s].phase = IF row = <<>> THEN @ ELSE "idle", ![s].out = @ \o row]
  BY ONLY <1>3, pushRows, Zenon DEF pushRows
<1>5. CASE /\ ~(st.buffer # <<>> /\ st.index > 0)
           /\ stream' = [stream EXCEPT ![s].phase = IF row = <<>> THEN @ ELSE "idle", ![s].out = @ \o row]
  BY ONLY <1>1, <1>2, <1>3, <1>5, RowsInv, scenario' = scenario, PushLastStep
<1>6. CASE /\ st.buffer # <<>> /\ st.index > 0
           /\ \E n \in st.index..Len(st.buffer) :
               stream' = [stream EXCEPT ![s] =
                        [st EXCEPT !.phase  = "idle",
                                   !.buffer = IF n = Len(st.buffer) THEN <<>> ELSE st.buffer,
                                   !.index  = IF n = Len(st.buffer) THEN 0 ELSE n,
                                   !.out    = st.out \o SubSeq(st.buffer, st.index, n)]]
  <2>1. PICK n \in st.index..Len(st.buffer) :
               stream' = [stream EXCEPT ![s] =
                        [st EXCEPT !.phase  = "idle",
                                   !.buffer = IF n = Len(st.buffer) THEN <<>> ELSE st.buffer,
                                   !.index  = IF n = Len(st.buffer) THEN 0 ELSE n,
                                   !.out    = st.out \o SubSeq(st.buffer, st.index, n)]]
    BY ONLY <1>6
  <2> QED
    BY ONLY <1>1, <1>2, <1>3, <1>6, <2>1, RowsInv, scenario' = scenario, PushBufferStep, ZenonT(60)
<1> QED
  BY ONLY <1>4, <1>5, <1>6

\* A stream that is told of its chunk: it moves on, and drops the chunk before.
LEMMA DataFacts ==
    ASSUME RowsInv, ~crashed, pending # <<>>, Head(pending).fn = "onResultStreamData",
           NEW s, s = Head(pending).stream, NEW k, k = Head(pending).chunk
    PROVE  /\ k \in Chunks /\ k \in Overlapping(stream[s].window) /\ k = stream[s].current
           /\ Calls(s) = {OnData(s, k)} /\ stream[s].buffer = <<>>
           /\ stream[s].current # None
           /\ stream[s].initialized /\ stream[s].refreshing = "no"
           /\ Passed(s, k) = stream[s].previous /\ stream[s].previous # k
           /\ stream[s].previous \in {None, k - 1}
           /\ 0 <= stream[s].window.start /\ stream[s].window.start <= stream[s].window.end
           /\ stream[s].window.end < Returned
           /\ stream[s].window.start <= EndIndex(k)
           /\ k + 1 <= LastChunk => stream[s].window.start <= EndIndex(k + 1)
<1>1. /\ TypeOK /\ s \in scenario.streams /\ StreamInv(s) /\ Head(pending) \in Callback
      /\ Calls(s) = {Head(pending)}
  BY HeadFacts
<1>2. CallInv(s) /\ Stage(s)
  BY <1>1 DEF StreamInv
<1>3. k \in Chunks /\ Head(pending) = OnData(s, k)
  BY <1>1, CallKinds
<1>4. /\ stream[s].initialized /\ stream[s].refreshing = "no" /\ stream[s].buffer = <<>>
      /\ k = stream[s].current /\ k \in Overlapping(stream[s].window)
  BY <1>1, <1>2 DEF CallInv
<1>5. scenario \in Scenarios /\ LastChunk \in Nat /\ Chunks = 1..LastChunk
      /\ stream[s].window.start \in Int
  BY <1>1, WindowTypes
<1>6. k \in Nat /\ k >= 1 /\ k <= LastChunk /\ k # None
  BY ONLY <1>3, <1>5 DEF None
<1>7. /\ stream[s].previous \in {None, k - 1}
      /\ 0 <= stream[s].window.start /\ stream[s].window.start <= stream[s].window.end
      /\ stream[s].window.end < Returned
      /\ stream[s].window.start <= EndIndex(k)
  BY <1>2, <1>4, <1>6 DEF Stage
<1>8. stream[s].previous # k
  BY ONLY <1>6, <1>7 DEF None
<1>9. ASSUME k + 1 <= LastChunk
      PROVE  stream[s].window.start <= EndIndex(k + 1)
  <2>1. k + 1 \in Chunks /\ k \in Chunks
    BY ONLY <1>3, <1>5, <1>6, <1>9
  <2>2. /\ StartIndex((k + 1) + 1) = StartIndex(k + 1) + RowCount(k + 1) /\ RowCount(k + 1) \in Nat \ {0}
        /\ EndIndex(k + 1) = StartIndex((k + 1) + 1) - 1
        /\ EndIndex(k) = StartIndex(k + 1) - 1
    BY ONLY <1>5, <2>1, ChunkFacts
  <2>3. StartIndex(k + 1) \in Nat
    <3>1. k + 1 \in 1..(LastChunk + 1)
      BY ONLY <1>5, <1>6
    <3> QED
      BY ONLY <1>5, <3>1, ChunkFacts
  <2>4. EndIndex(k) <= EndIndex(k + 1) /\ EndIndex(k) \in Int /\ EndIndex(k + 1) \in Int
    BY ONLY <2>2, <2>3
  <2> QED
    BY ONLY <1>5, <1>7, <2>4
<1>10. Passed(s, k) = stream[s].previous
  BY <1>8 DEF Passed
<1> QED
  BY <1>1, <1>3, <1>4, <1>6, <1>7, <1>8, <1>9, <1>10

\* ... and so holds what it goes on with.
LEMMA MovesOn ==
    ASSUME RowsInv, ~crashed, scenario' = scenario, pending # <<>>,
           Head(pending).fn = "onResultStreamData",
           NEW s, s = Head(pending).stream, NEW k, k = Head(pending).chunk,
           OnlyFor(s), Sound,
           stream'[s].phase = "waiting", stream'[s].current = k + 1, stream'[s].previous = k,
           stream'[s].window = stream[s].window,
           \A c \in Calls(s)' : c.fn # "onResultStreamData",
           rows' = ClearRows(Passed(s, k), url), url' = url, fetch' = fetch
    PROVE  \A j \in Chunks : Own(j)' /\ Held(j)'
<1>1. SUFFICES ASSUME NEW j \in Chunks
               PROVE  Own(j)' /\ Held(j)'
  OBVIOUS
<1>2. /\ TypeOK /\ s \in scenario.streams /\ stream[s].phase = "waiting"
  BY HeadFacts
<1>3. /\ k \in Chunks /\ k = stream[s].current
      /\ Calls(s) = {OnData(s, k)}
      /\ Passed(s, k) = stream[s].previous
  BY DataFacts
<1>4. Own(j) /\ Held(j)
  BY DEF RowsInv, ChunkInv
<1>5. rows'[j] = IF j = stream[s].previous /\ url[j] # None THEN None ELSE rows[j]
  BY <1>3 DEF ClearRows
<1>6. rows'[j] \in {None, rows[j]}
  BY <1>5
<1>7. Own(j)'
  <2>1. stream[s].phase # "failed" /\ fetch'[j] \in {fetch[j], url[j]}
    BY <1>2
  <2> QED
    BY ONLY <1>2, <1>4, <1>6, <2>1, scenario' = scenario, j \in Chunks, url' = url, OwnKept
<1>8. j \in Nat /\ k \in Nat
  <2>1. Chunks = 1..LastChunk /\ LastChunk \in Nat
    BY <1>2, WindowTypes
  <2> QED
    BY ONLY <1>3, <2>1, j \in Chunks
<1>9. ASSUME WillLoad(s, j), j # k
      PROVE  WillLoad(s, j)'
  <2>1. j \in Overlapping(stream[s].window) /\ j >= k
    BY <1>2, <1>3, <1>9 DEF WillLoad
  <2>2. j >= k + 1 /\ k + 1 # None
    BY ONLY <1>8, <1>9, <2>1 DEF None
  <2> QED
    BY <2>1, <2>2, Constant DEF WillLoad
<1>10. rows'[j] # None /\ url[j] # None /\ Keeps(s, j) => Keeps(s, j)'
  <2>1. j = k => Keeps(s, j)'
    BY DEF Keeps
  <2> QED
    BY <1>5, <1>9, <2>1 DEF Keeps
<1>11. OnData(s, j)' = OnData(s, j) /\ OnData(s, j) \notin Calls(s)'
  BY CallFields DEF OnData
<1>12. Fetches(s, j) => Fetches(s, j)'
  BY <1>3, <1>9, <1>11 DEF Fetches
<1>13. Held(j)'
  <2>1. /\ rows'[j] # None => rows[j] # None
        /\ fetch'[j] # None => fetch[j] # None
    BY <1>5
  <2> QED
    BY ONLY <1>2, <1>4, <1>10, <1>12, <2>1, scenario' = scenario, j \in Chunks, OnlyFor(s),
       url' = url,
            HeldKept
<1> QED
  BY <1>7, <1>13

\* The data event, which fills the row buffer and drops the chunk before, keeps the
\* invariant.
LEMMA OnDataStep ==
    ASSUME RowsInv, scenario' = scenario, onResultStreamData
    PROVE  RowsInv'
<1>1. ~crashed /\ pending # <<>> /\ Head(pending).fn = "onResultStreamData"
  BY DEF onResultStreamData, Due
<1>2. PICK s, k : s = Head(pending).stream /\ k = Head(pending).chunk
  OBVIOUS
<1>3. PICK st : st = [stream[s] EXCEPT !.current = stream[s].current + 1, !.previous = k]
  OBVIOUS
<1>4. PICK sb : sb = [st EXCEPT !.buffer = Slice(k, rows[k], st.window), !.index = 0]
  OBVIOUS
<1>5. /\ rows' = ClearRows(Passed(s, k), url)
      /\ \/ /\ rows'[k] = None /\ crashed' = TRUE /\ pending' = Tail(pending)
            /\ stream' = [stream EXCEPT ![s] = st]
         \/ /\ rows'[k] # None /\ processRowBuffer(s, sb, Tail(pending)) /\ crashed' = crashed
  BY ONLY <1>2, <1>3, <1>4, onResultStreamData, Zenon DEF onResultStreamData
<1>6. UNCHANGED <<statement, url, fetch, completing, listeners, onComplete, failures>>
  BY DEF onResultStreamData
<1>7. /\ TypeOK /\ s \in scenario.streams /\ StreamInv(s)
      /\ Rest(Tail(pending), s)
      /\ Queued(s) = {} /\ \A j \in Chunks : Waits(s, j) = {}
      /\ stream[s].phase = "waiting" /\ statement # "fetching"
  BY <1>1, <1>2, HeadFacts
<1>8. /\ k \in Chunks /\ k \in Overlapping(stream[s].window) /\ k = stream[s].current
      /\ Calls(s) = {OnData(s, k)} /\ stream[s].buffer = <<>>
      /\ stream[s].current # None
      /\ stream[s].initialized /\ stream[s].refreshing = "no"
      /\ Passed(s, k) = stream[s].previous /\ stream[s].previous # k
      /\ 0 <= stream[s].window.start /\ stream[s].window.start <= stream[s].window.end
      /\ stream[s].window.end < Returned
      /\ k + 1 <= LastChunk => stream[s].window.start <= EndIndex(k + 1)
  BY <1>1, <1>2, DataFacts
<1>9. /\ stream[s] \in StreamState /\ scenario \in Scenarios /\ LastChunk \in Nat /\ Chunks = 1..LastChunk
      /\ stream[s].window.start \in Int /\ stream[s].window.end \in Int
      /\ stream[s].buffer = <<>> => stream[s].index = 0
  BY <1>7, WindowTypes
<1>10. /\ st \in StreamState
       /\ st.phase = stream[s].phase /\ st.initialized = stream[s].initialized
       /\ st.refreshing = stream[s].refreshing
       /\ st.buffer = stream[s].buffer /\ st.index = stream[s].index
       /\ st.current = k + 1 /\ st.window = stream[s].window
       /\ st.previous = k /\ st.out = stream[s].out
       /\ st.interrupts = stream[s].interrupts
  <2>1. k + 1 \in Nat /\ k \in Chunks \cup {None}
    BY ONLY <1>8, <1>9
  <2> QED
    BY ONLY <1>3, <1>8, <1>9, <2>1 DEF StreamState
<1>11. k \in Nat /\ k >= 1 /\ k <= LastChunk /\ k + 1 \in 1..(LastChunk + 1) /\ k + 1 # None /\ (k + 1) - 1 = k
  BY ONLY <1>8, <1>9 DEF None
<1>12. /\ rows' \in [Chunks -> Chunks \cup {None}] /\ \A j \in Chunks : rows'[j] \in {None, rows[j]}
       /\ rows'[k] = rows[k] /\ rows[k] \in Chunks \cup {None}
  BY <1>5, <1>7, <1>8 DEF TypeOK, ClearRows
<1>13. Stage(s) /\ InterruptInv(s) /\ PushedInv(s) /\ Position(s) /\ OnceInv(s)
  BY <1>1, <1>7 DEF StreamInv, WaitInv
<1>14. Shift = 0 /\ scenario.faults \subseteq {"forbidden"} => stream[s].interrupts <= failures
  BY <1>13 DEF InterruptInv
<1>15. /\ fetch' = fetch /\ completing' = completing /\ listeners' = listeners
       /\ onComplete' \in Seq(scenario.streams) /\ onComplete' = onComplete
       /\ url' \in [Chunks -> Chunks \cup {None}] /\ url' = url
       /\ failures' \in 0..MaxFailures /\ failures' >= failures /\ failures' = failures
       /\ statement' \in {"fetching", "ok", "transient", "fatal"}
       /\ statement' = statement
  BY <1>6, <1>7, ResultAssumption DEF TypeOK
<1>16. CASE /\ rows'[k] = None /\ crashed' = TRUE /\ pending' = Tail(pending)
            /\ stream' = [stream EXCEPT ![s] = st]
  <2>1. Given(s, {}) /\ SameLoads
    BY ONLY <1>7, <1>16, RestGiven
  <2>2. stream'[s] = st /\ \A t \in scenario.streams \ {s} : stream'[t] = stream[t]
    BY <1>7, <1>16 DEF TypeOK
  <2>3. OnlyFor(s)
    BY ONLY <1>1, <1>15, <2>1, <2>2, RowsInv, SameWaits
  <2>4. Calls(s)' = {}
    BY <2>1, Constant DEF Given, Calls
  <2>5. Stage(s)'
    <3>1. /\ LastChunk' = LastChunk /\ Returned' = Returned /\ EndIndex(k + 1)' = EndIndex(k + 1)
      BY Constant
    <3> QED
      BY ONLY <1>7, <1>8, <1>10, <1>11, <2>2, <3>1 DEF Stage
  <2>6. InterruptInv(s)'
    <3>1. stream'[s].phase = "waiting"
      BY <1>7, <1>10, <2>2
    <3> QED
      BY <1>10, <1>14, <1>15, <2>2, <2>4, <3>1, Constant DEF InterruptInv
  <2>7. PushedInv(s)'
    <3>1. stream'[s].phase = "waiting" /\ stream'[s].out = stream[s].out
          /\ stream'[s].window = stream[s].window
      BY <1>7, <1>10, <2>2
    <3> QED
      BY <1>8, <1>13, <3>1, Constant DEF PushedInv
  <2>8. StreamInv(s)'
    BY <1>16, <2>5, <2>6, <2>7 DEF StreamInv
  <2>9. Sound => \A j \in Chunks : Own(j)' /\ Held(j)'
    <3>1. /\ stream'[s].phase = "waiting" /\ stream'[s].current = k + 1 /\ stream'[s].previous = k
          /\ stream'[s].window = stream[s].window
          /\ \A c \in Calls(s)' : c.fn # "onResultStreamData"
      BY <1>7, <1>10, <2>2, <2>4
    <3> QED
      BY ONLY <1>1, <1>2, <1>5, <1>15, <2>3, <3>1, RowsInv, scenario' = scenario, MovesOn
  <2>10. crashed' \in BOOLEAN /\ (st.index # 0 => st.index < Len(st.buffer))
    BY <1>8, <1>9, <1>10, <1>16
  <2> QED
    BY ONLY <1>1, <1>7, <1>10, <1>12, <1>15, <1>16, <2>1, <2>3, <2>8, <2>9, <2>10, RowsInv,
            scenario' = scenario, StreamStep
<1>17. CASE /\ rows'[k] # None /\ processRowBuffer(s, sb, Tail(pending)) /\ crashed' = crashed
  <2>1. PICK bf : bf = Slice(k, rows[k], st.window)
    OBVIOUS
  <2>2. rows[k] \in Chunks
    BY <1>12, <1>17
  <2>3. bf \in Seq(0..(Returned - 1))
    BY ONLY <1>8, <1>9, <1>10, <2>1, <2>2, SliceType
  <2>4. /\ sb \in StreamState
        /\ sb.phase = st.phase /\ sb.initialized = st.initialized /\ sb.refreshing = st.refreshing
        /\ sb.buffer = bf /\ sb.index = 0
        /\ sb.current = st.current /\ sb.window = st.window
        /\ sb.previous = st.previous /\ sb.out = st.out
        /\ sb.interrupts = st.interrupts
    BY ONLY <1>4, <1>10, <2>1, <2>3 DEF StreamState
  <2>5. PICK w, a, b : w = stream[s].window /\ a = From(k, w) /\ b = From(k + 1, w)
    OBVIOUS
  <2>6. ASSUME Sound
        PROVE  /\ sb.out = RowsFrom(w.start, w.start + Len(sb.out) - 1)
               /\ w.start + Len(sb.out) <= w.end + 1
               /\ bf # <<>> /\ bf = RowsFrom(a, b - 1)
               /\ w.start + Len(sb.out) = a + 0
    <3>1. rows[k] = k
      <4>1. Own(k)
        BY <1>8, <2>6 DEF RowsInv, ChunkInv
      <4> QED
        BY ONLY <1>7, <1>12, <1>17, <4>1 DEF Own
    <3>2. bf = RowsFrom(a, b - 1)
      <4>1. Slice(k, k, w) = RowsFrom(From(k, w), From(k + 1, w) - 1)
        BY ONLY <1>8, <1>9, <2>5, SliceFacts
      <4> QED
        BY ONLY <1>10, <2>1, <2>5, <3>1, <4>1
    <3>3. a \in Int /\ b \in Int /\ a < b
      <4>1. /\ From(k, w) \in w.start..(w.end + 1)
            /\ From(k + 1, w) \in w.start..(w.end + 1)
            /\ k \in Overlapping(w) => From(k, w) < From(k + 1, w)
        BY ONLY <1>8, <1>9, <2>5, FromFacts
      <4> QED
        BY ONLY <1>8, <1>9, <2>5, <4>1
    <3>4. bf # <<>>
      <4>1. PICK c : c = b - 1
        OBVIOUS
      <4>2. c \in Int /\ a <= c + 1 /\ a # c + 1
        BY ONLY <3>3, <4>1
      <4>3. RowsFrom(a, c) = <<>> <=> a = c + 1
        BY ONLY <3>3, <4>2, RowsFromFacts
      <4> QED
        BY ONLY <3>2, <4>1, <4>2, <4>3
    <3>5. \A c \in Calls(s) : c.fn # "pushRows"
      BY <1>8, CallFields
    <3>6. w.start + Len(sb.out) = a
      BY ONLY <1>7, <1>8, <1>10, <1>13, <2>4, <2>5, <2>6, <3>5 DEF Position
    <3>7. /\ sb.out = RowsFrom(w.start, w.start + Len(sb.out) - 1)
          /\ w.start + Len(sb.out) <= w.end + 1
      BY <1>8, <1>10, <1>13, <2>4, <2>5, <2>6 DEF PushedInv
    <3>8. a + 0 = a
      BY ONLY <3>3
    <3> QED
      BY ONLY <3>2, <3>4, <3>6, <3>7, <3>8
  <2>7. bf # <<>> => 0 < Len(bf)
    <3>1. Len(bf) \in Nat
      BY ONLY <2>3, LenProperties
    <3>2. bf # <<>> => Len(bf) # 0
      BY ONLY <2>3, EmptySeq
    <3> QED
      BY ONLY <3>1, <3>2
  <2>8. k + 1 > 1
    BY ONLY <1>11
  <2>9. Taking(sb)
    BY ONLY <1>7, <1>8, <1>10, <1>11, <1>14, <2>4, <2>5, <2>6, <2>7, <2>8 DEF Taking
  <2>10. PICK r, C :
              /\ r \in StreamState
              /\ stream' = [stream EXCEPT ![s] = r]
              /\ r.index # 0 => r.index < Len(r.buffer)
              /\ r.phase = "waiting" /\ r.current = sb.current
              /\ r.window = sb.window /\ r.previous = sb.previous
              /\ Given(s, C) /\ SameLoads /\ OnlyFor(s) /\ StreamInv(s)'
              /\ \A c \in Calls(s)' : c.fn # "onResultStreamData"
    BY ONLY <1>1, <1>7, <1>15, <1>17, <2>9, RowsInv, scenario' = scenario, TakeStream
  <2>11. stream'[s] = r
    BY <1>7, <2>10 DEF TypeOK
  <2>12. Sound => \A j \in Chunks : Own(j)' /\ Held(j)'
    <3>1. /\ stream'[s].phase = "waiting" /\ stream'[s].current = k + 1 /\ stream'[s].previous = k
          /\ stream'[s].window = stream[s].window
          /\ \A c \in Calls(s)' : c.fn # "onResultStreamData"
      BY <1>10, <2>4, <2>10, <2>11
    <3> QED
      BY ONLY <1>1, <1>2, <1>5, <1>15, <2>10, <3>1, RowsInv, scenario' = scenario, MovesOn
  <2>13. crashed' \in BOOLEAN
    BY <1>7, <1>17 DEF TypeOK
  <2> QED
    BY ONLY <1>1, <1>7, <1>12, <1>15, <2>10, <2>12, <2>13, RowsInv, scenario' = scenario,
       StreamStep
<1> QED
  BY ONLY <1>5, <1>16, <1>17

\* A stream closes: it ends when it has no more chunks to load, or fails.
LEMMA CloseStep ==
    ASSUME RowsInv, ~crashed, scenario' = scenario, NEW s \in scenario.streams,
           stream[s].phase = "waiting",
           NEW st \in StreamState, st.initialized,
           st.current = stream[s].current, st.window = stream[s].window,
           st.previous = stream[s].previous, st.out = stream[s].out,
           NEW to \in {"ended", "failed"}, NEW u, u \in [Chunks -> Chunks \cup {None}],
           Close(s, st, to, u), url' = u,
           Rest(pending', s), Queued(s) = {}, \A k \in Chunks : Waits(s, k) = {},
           statement' # "fetching", statement' \in {"fetching", "ok", "transient", "fatal"},
           \/ statement' = statement
           \/ ~Alone /\ statement # "fetching"
           \/ Alone,
           UNCHANGED <<fetch, completing, listeners, onComplete, crashed>>,
           failures' \in 0..MaxFailures, failures' >= failures,
           to = "ended" =>
              /\ u = url
              /\ st.current = None => st.window.start > st.window.end
              /\ st.current # None => /\ \A j \in Overlapping(st.window) : ~(j >= st.current)
                                      /\ Sound => st.window.start + Len(st.out) = st.window.end + 1,
           to = "failed" /\ st.current # None /\ Shift = 0 /\ scenario.faults \subseteq {"forbidden"}
              => failures' > StreamInterrupts,
           u = url \/ (Sound => Alone)
    PROVE  RowsInv'
<1>1. TypeOK /\ StreamInv(s) /\ OnceInv(s) /\ stream[s].phase # "failed"
  BY OnceOf
<1>2. PICK r : r = [st EXCEPT !.phase = to, !.buffer = <<>>, !.index = 0,
                              !.interrupts = 0, !.previous = None, !.refreshing = "no"]
  OBVIOUS
<1>3. stream' = [stream EXCEPT ![s] = r] /\ rows' = ClearRows(st.previous, u)
  BY <1>2 DEF Close
<1>4. /\ r \in StreamState
      /\ r.phase = to /\ r.initialized = st.initialized /\ r.refreshing = "no"
      /\ r.buffer = <<>> /\ r.index = 0 /\ r.out = st.out
      /\ r.current = st.current /\ r.window = st.window
      /\ r.previous = None /\ r.interrupts = 0
  <2>1. /\ 0 \in 0..StreamInterrupts /\ None \in Chunks \cup {None}
        /\ <<>> \in Seq(0..(Returned - 1))
    BY ResultAssumption
  <2> QED
    BY ONLY <1>2, <2>1, st \in StreamState, to \in {"ended", "failed"} DEF StreamState
<1>5. stream'[s] = r /\ \A t \in scenario.streams \ {s} : stream'[t] = stream[t]
  BY <1>1, <1>3 DEF TypeOK
<1>6. Given(s, {}) /\ SameLoads
  BY ONLY Rest(pending', s), s \in scenario.streams, RestGiven
<1>7. OnlyFor(s)
  <2>1. onComplete' = onComplete /\ listeners' = listeners
    OBVIOUS
  <2> QED
    BY ONLY <1>5, <1>6, <2>1, RowsInv, ~crashed, SameWaits
<1>8. Calls(s)' = {} /\ Queued(s)' = {} /\ \A k \in Chunks : Waits(s, k)' = {}
  BY <1>6, Constant DEF Given, Calls, Waits, Queued
<1>9. Stage(s) /\ InterruptInv(s) /\ PushedInv(s)
  BY <1>1 DEF StreamInv
<1>10. Stage(s)'
  <2>1. PICK k, w : k = r.current /\ w = r.window
    OBVIOUS
  <2>2. /\ k # None => /\ k \in 1..(LastChunk + 1)
                       /\ 0 <= w.start /\ w.start <= w.end /\ w.end < Returned
                       /\ k <= LastChunk => w.start <= EndIndex(k)
        /\ k = None => r.out = <<>>
        /\ k = None => to = "failed" \/ w.start > w.end
    BY <1>4, <1>9, <2>1 DEF Stage
  <2>3. LastChunk' = LastChunk /\ Returned' = Returned /\ EndIndex(k)' = EndIndex(k)
    BY Constant
  <2> QED
    BY ONLY <1>4, <1>5, <2>1, <2>2, <2>3, st.initialized, to \in {"ended", "failed"} DEF Stage
<1>11. InterruptInv(s)'
  <2>1. failures' \in Nat
    BY ResultAssumption
  <2>2. r.interrupts <= failures'
    BY ONLY <1>4, <2>1
  <2>3. Shift' = Shift /\ (r.phase = "failed" /\ r.current # None /\ Shift = 0
                           /\ scenario.faults \subseteq {"forbidden"} => failures' > StreamInterrupts)
    BY <1>4, Constant
  <2> QED
    BY ONLY <1>5, <1>8, <2>2, <2>3, scenario' = scenario DEF InterruptInv
<1>12. PushedInv(s)'
  <2>1. PICK w : w = r.window
    OBVIOUS
  <2>2. Sound /\ r.current # None =>
          /\ r.out = RowsFrom(w.start, w.start + Len(r.out) - 1)
          /\ w.start + Len(r.out) <= w.end + 1
          /\ r.phase = "ended" => w.start + Len(r.out) = w.end + 1
    BY <1>4, <1>9, <2>1 DEF PushedInv
  <2> QED
    BY ONLY <1>5, <2>1, <2>2, scenario' = scenario, Constant DEF PushedInv
<1>13. CallInv(s)' /\ QueuedInv(s)' /\ ListenInv(s)'
  BY <1>8, Constant DEF CallInv, QueuedInv, ListenInv
<1>14. Position(s)'
  BY <1>4, <1>5 DEF Position
<1>15. RefreshInv(s)'
  BY <1>4, <1>5 DEF RefreshInv
<1>16. OnceInv(s)'
  BY <1>1, <1>7, Constant DEF OnlyFor, OnceInv
<1>17. StreamInv(s)'
  BY <1>10, <1>11, <1>12, <1>13, <1>14, <1>15, <1>16 DEF StreamInv, WaitInv
<1>18. /\ rows' \in [Chunks -> Chunks \cup {None}]
       /\ \A j \in Chunks : rows'[j] = IF j = st.previous /\ u[j] # None THEN None ELSE rows[j]
  BY <1>1, <1>3 DEF TypeOK, ClearRows
<1>19. \A j \in Chunks : rows'[j] \in {None, rows[j]}
  BY <1>18
<1>20. ASSUME Sound, NEW j \in Chunks
       PROVE  Own(j)' /\ Held(j)'
  <2>1. Own(j) /\ Held(j)
    BY <1>20 DEF RowsInv, ChunkInv
  <2>2. Own(j)'
    <3>1. CASE u = url
      <4>1. url' = url /\ fetch'[j] \in {fetch[j], url[j]} /\ rows'[j] \in {None, rows[j]}
        BY <1>19, <3>1
      <4> QED
        BY ONLY <1>1, <2>1, <4>1, scenario' = scenario, s \in scenario.streams, j \in Chunks,
           OwnKept
    <3>2. CASE u # url
      <4>1. Alone /\ to = "failed"
        BY <1>20, <3>2
      <4>2. \A t \in scenario.streams : stream'[t].phase = "failed"
        BY <1>4, <1>5, <4>1 DEF Alone
      <4> QED
        BY <4>2 DEF Own
    <3> QED
      BY <3>1, <3>2
  <2>3. Held(j)'
    <3>1. CASE to = "failed"
      <4>1. WillLoad(s, j)'
        BY <1>4, <1>5, <3>1 DEF WillLoad
      <4>2. Keeps(s, j)' /\ Fetches(s, j)'
        BY <1>8, <4>1 DEF Keeps, Fetches
      <4> QED
        BY <4>2 DEF Held
    <3>2. CASE to = "ended"
      <4>1. ~WillLoad(s, j)
        BY <1>1, <3>2 DEF WillLoad
      <4>2. ~Fetches(s, j)
        BY <4>1 DEF Fetches
      <4>3. u = url /\ url' = url
        BY <3>2
      <4>4. Keeps(s, j) => rows'[j] = None \/ url[j] = None
        BY <1>18, <4>1, <4>3 DEF Keeps
      <4>5. /\ rows'[j] # None => rows[j] # None
            /\ fetch'[j] # None => fetch[j] # None
        BY <1>18
      <4> QED
        BY ONLY <1>7, <2>1, <4>2, <4>3, <4>4, <4>5, scenario' = scenario,
           s \in scenario.streams, j \in Chunks,
                HeldKept
    <3> QED
      BY <3>1, <3>2
  <2> QED
    BY <2>2, <2>3
<1>21. /\ onComplete' \in Seq(scenario.streams) /\ crashed' \in BOOLEAN
       /\ fetch' = fetch /\ completing' = completing /\ listeners' = listeners
       /\ url' \in [Chunks -> Chunks \cup {None}]
       /\ r.index # 0 => r.index < Len(r.buffer)
       /\ \/ statement' = statement
          \/ ~Alone /\ statement # "fetching" /\ statement' # "fetching"
          \/ Alone
  BY <1>1, <1>4 DEF TypeOK
<1> QED
  BY ONLY <1>3, <1>4, <1>6, <1>7, <1>17, <1>18, <1>19, <1>20, <1>21, RowsInv, ~crashed,
     scenario' = scenario,
          s \in scenario.streams, statement' \in {"fetching", "ok", "transient", "fatal"},
          failures' \in 0..MaxFailures, failures' >= failures, StreamStep

\* A stream that has loaded the last chunk of its window has pushed its last row.
LEMMA AtTheEnd ==
    ASSUME RowsInv, ~crashed, NEW s \in scenario.streams, stream[s].phase = "waiting",
           stream[s].buffer = <<>>, \A c \in Calls(s) : c.fn # "pushRows",
           stream[s].current # None, stream[s].current \notin Overlapping(stream[s].window)
    PROVE  /\ \A j \in Overlapping(stream[s].window) : ~(j >= stream[s].current)
           /\ Sound => stream[s].window.start + Len(stream[s].out) = stream[s].window.end + 1
<1>1. TypeOK /\ Stage(s) /\ Position(s)
  BY OnceOf DEF StreamInv
<1>2. PICK w, k, x, y : w = stream[s].window /\ k = stream[s].current /\ x = w.start /\ y = w.end
  OBVIOUS
<1>3. scenario \in Scenarios /\ LastChunk \in Nat /\ Returned \in Nat /\ Chunks = 1..LastChunk
      /\ x \in Int /\ y \in Int /\ k \in Nat
  BY <1>1, <1>2, WindowTypes
<1>4. /\ k \in 1..(LastChunk + 1) /\ x <= y /\ y < Returned
      /\ k <= LastChunk => x <= EndIndex(k)
  BY <1>1, <1>2 DEF Stage
<1>5. StartIndex(k) \in Nat
  BY ONLY <1>3, <1>4, ChunkFacts
<1>6. StartIndex(k) > y
  <2>1. CASE k <= LastChunk
    <3>1. k \in Chunks
      BY ONLY <1>3, <1>4, <2>1
    <3>2. k \in Overlapping(w) <=> StartIndex(k) <= w.end /\ w.start <= EndIndex(k)
      BY ONLY <1>2, <1>3, <1>4, <3>1, OverlapFacts
    <3>3. ~(StartIndex(k) <= y)
      BY <1>2, <1>4, <2>1, <3>2
    <3> QED
      BY ONLY <1>3, <1>5, <3>3
  <2>2. CASE ~(k <= LastChunk)
    <3>1. k = LastChunk + 1
      BY ONLY <1>3, <1>4, <2>2
    <3>2. StartIndex(k) = Returned
      BY ONLY <1>3, <3>1, ChunkFacts
    <3> QED
      BY ONLY <1>3, <1>4, <3>2
  <2> QED
    BY <2>1, <2>2
<1>7. ASSUME NEW j \in Overlapping(w)
      PROVE  ~(j >= k)
  <2>1. j \in Chunks /\ j \in Nat
    BY <1>3, <1>7 DEF Overlapping
  <2>2. StartIndex(j) <= y
    <3>1. j \in Overlapping(w) <=> StartIndex(j) <= w.end /\ w.start <= EndIndex(j)
      BY ONLY <1>2, <1>3, <1>4, <2>1, OverlapFacts
    <3> QED
      BY ONLY <1>2, <1>7, <3>1
  <2>3. j \in 1..(LastChunk + 1)
    BY ONLY <1>3, <2>1
  <2>4. k < j => StartIndex(k) < StartIndex(j)
    BY ONLY <1>3, <1>4, <2>3, StartsGrow
  <2>5. StartIndex(j) \in Nat
    BY ONLY <1>3, <2>3, ChunkFacts
  <2>6. k # j
    BY ONLY <1>3, <1>5, <1>6, <2>2
  <2> QED
    BY ONLY <1>3, <1>5, <1>6, <2>1, <2>2, <2>4, <2>5, <2>6
<1>8. From(k, w) = y + 1
  BY ONLY <1>2, <1>3, <1>4, <1>5, <1>6 DEF From
<1>9. Sound => x + Len(stream[s].out) = From(k, w)
  BY <1>1, <1>2 DEF Position
<1> QED
  BY ONLY <1>2, <1>7, <1>8, <1>9

\* A 403 sends the stream to a refresh.
LEMMA RetryStep ==
    ASSUME RowsInv, ~crashed, scenario' = scenario, pending # <<>>,
           Head(pending).fn = "onResultStreamClose",
           NEW s, s = Head(pending).stream, NEW err, err = Head(pending).err, Retried(s, err),
           stream' = [stream EXCEPT ![s].interrupts = @ + 1, ![s].refreshing = "stream"],
           pending' = Tail(pending),
           UNCHANGED <<statement, url, rows, fetch, completing, listeners, onComplete, failures, crashed>>
    PROVE  RowsInv'
<1>1. /\ TypeOK /\ s \in scenario.streams /\ StreamInv(s)
      /\ Calls(s) = {Head(pending)} /\ Rest(Tail(pending), s)
      /\ Queued(s) = {} /\ \A k \in Chunks : Waits(s, k) = {}
      /\ stream[s].phase = "waiting" /\ statement # "fetching"
  BY HeadFacts
<1>2. /\ CallInv(s) /\ Stage(s) /\ PushedInv(s) /\ Position(s) /\ InterruptInv(s) /\ OnceInv(s)
  BY <1>1 DEF StreamInv, WaitInv
<1>3. err = "forbidden" /\ stream[s].interrupts < StreamInterrupts
  BY DEF Retried
<1>4. stream[s].current # None /\ stream[s].initialized /\ stream[s].buffer = <<>>
  BY <1>1, <1>2, <1>3 DEF CallInv
<1>5. PICK r : r = [stream[s] EXCEPT !.interrupts = stream[s].interrupts + 1, !.refreshing = "stream"]
  OBVIOUS
<1>6. stream[s] \in StreamState /\ stream[s].interrupts \in Nat /\ failures \in Nat
  <2>1. stream[s] \in StreamState /\ failures \in 0..MaxFailures
    BY <1>1 DEF TypeOK
  <2>2. stream[s].interrupts \in 0..StreamInterrupts
    BY ONLY <2>1 DEF StreamState
  <2> QED
    BY ONLY <2>1, <2>2, ResultAssumption
<1>7. /\ r \in StreamState
      /\ r.phase = stream[s].phase /\ r.initialized = stream[s].initialized /\ r.refreshing = "stream"
      /\ r.buffer = stream[s].buffer /\ r.index = stream[s].index /\ r.out = stream[s].out
      /\ r.current = stream[s].current /\ r.window = stream[s].window
      /\ r.previous = stream[s].previous /\ r.interrupts = stream[s].interrupts + 1
  <2>1. stream[s].interrupts + 1 \in 0..StreamInterrupts
    BY <1>3, <1>6, ResultAssumption
  <2> QED
    BY ONLY <1>5, <1>6, <2>1 DEF StreamState
<1>8. stream' = [stream EXCEPT ![s] = r]
  <2>1. stream \in [scenario.streams -> StreamState]
    BY <1>1 DEF TypeOK
  <2> QED
    BY ONLY <1>1, <1>5, <1>6, <2>1,
            stream' = [stream EXCEPT ![s].interrupts = @ + 1, ![s].refreshing = "stream"]
       DEF StreamState
<1>9. stream'[s] = r /\ \A t \in scenario.streams \ {s} : stream'[t] = stream[t]
  BY <1>1, <1>8 DEF TypeOK
<1>10. Given(s, {}) /\ SameLoads
  BY ONLY <1>1, pending' = Tail(pending), RestGiven
<1>11. OnlyFor(s)
  <2>1. onComplete' = onComplete /\ listeners' = listeners
    OBVIOUS
  <2> QED
    BY ONLY <1>9, <1>10, <2>1, RowsInv, ~crashed, SameWaits
<1>12. Calls(s)' = {} /\ Queued(s)' = {} /\ \A k \in Chunks : Waits(s, k)' = {}
  BY <1>1, <1>10, Constant DEF Given, Calls, Waits, Queued
<1>13. Stage(s)'
  <2>1. PICK k, w : k = r.current /\ w = r.window
    OBVIOUS
  <2>2. /\ k \in 1..(LastChunk + 1) /\ 0 <= w.start /\ w.start <= w.end /\ w.end < Returned
        /\ k <= LastChunk => w.start <= EndIndex(k)
        /\ r.previous \in {None, k - 1} /\ k # None /\ r.initialized
    BY <1>2, <1>4, <1>7, <2>1 DEF Stage
  <2>3. LastChunk' = LastChunk /\ Returned' = Returned /\ EndIndex(k)' = EndIndex(k)
    BY Constant
  <2> QED
    BY ONLY <1>9, <2>1, <2>2, <2>3 DEF Stage
<1>14. InterruptInv(s)'
  <2>1. Shift = 0 /\ scenario.faults \subseteq {"forbidden"} => stream[s].interrupts < failures
    BY <1>1, <1>2, <1>3 DEF InterruptInv
  <2>2. Shift = 0 /\ scenario.faults \subseteq {"forbidden"} => r.interrupts <= failures'
    BY <1>6, <1>7, <2>1
  <2>3. r.phase # "failed" /\ Shift' = Shift
    BY <1>1, <1>7, Constant
  <2> QED
    BY ONLY <1>9, <1>12, <2>2, <2>3, scenario' = scenario DEF InterruptInv
<1>15. PushedInv(s)'
  BY <1>2, <1>7, <1>9, Constant DEF PushedInv
<1>16. CallInv(s)' /\ QueuedInv(s)' /\ ListenInv(s)'
  BY <1>12, Constant DEF CallInv, QueuedInv, ListenInv
<1>17. Position(s)'
  <2>1. PICK k, w : k = r.current /\ w = r.window
    OBVIOUS
  <2>2. Sound' = Sound /\ From(k, w)' = From(k, w)
    BY Constant
  <2>3. Sound => w.start + Len(r.out) = From(k, w)
    BY <1>1, <1>2, <1>4, <1>7, <2>1 DEF Position
  <2>4. r.buffer = <<>>
    BY <1>4, <1>7
  <2> QED
    BY ONLY <1>9, <1>12, <2>1, <2>2, <2>3, <2>4 DEF Position
<1>18. RefreshInv(s)'
  BY <1>1, <1>4, <1>7, <1>9, <1>12 DEF RefreshInv
<1>19. OnceInv(s)'
  <2>1. onComplete' = onComplete /\ listeners' = listeners /\ CallsOf(s)' = CallsOf(s) /\ Chunks' = Chunks
    BY Constant
  <2>2. Single(pending', CallsOf(s))
    BY <1>1, <1>11 DEF OnlyFor
  <2> QED
    BY ONLY <1>2, <2>1, <2>2 DEF OnceInv
<1>20. StreamInv(s)'
  BY <1>13, <1>14, <1>15, <1>16, <1>17, <1>18, <1>19 DEF StreamInv, WaitInv
<1>21. Sound => \A j \in Chunks : Own(j)' /\ Held(j)'
  <2>1. /\ stream[s].phase \in {"idle", "waiting"} /\ stream'[s].phase \in {"idle", "waiting"}
        /\ stream'[s].current = stream[s].current /\ stream'[s].window = stream[s].window
        /\ stream'[s].previous = stream[s].previous
        /\ \A c \in Calls(s)' : c.fn # "onResultStreamData"
        /\ fetch' = fetch /\ url' = url /\ rows' = rows
    BY <1>1, <1>7, <1>9, <1>12
  <2> QED
    BY ONLY <1>1, <1>11, <2>1, RowsInv, ~crashed, scenario' = scenario, GoesOn
<1>22. /\ fetch' = fetch /\ completing' = completing /\ listeners' = listeners
       /\ onComplete' \in Seq(scenario.streams)
       /\ url' \in [Chunks -> Chunks \cup {None}]
       /\ rows' \in [Chunks -> Chunks \cup {None}] /\ \A j \in Chunks : rows'[j] \in {None, rows[j]}
       /\ failures' \in 0..MaxFailures /\ failures' >= failures /\ crashed' \in BOOLEAN
       /\ statement' \in {"fetching", "ok", "transient", "fatal"}
       /\ statement' = statement
  BY <1>1, <1>6 DEF TypeOK
<1>23. r.index # 0 => r.index < Len(r.buffer)
  BY <1>1, <1>7 DEF TypeOK
<1> QED
  BY ONLY <1>1, <1>7, <1>8, <1>10, <1>11, <1>20, <1>21, <1>22, <1>23, RowsInv, ~crashed,
     scenario' = scenario,
          StreamStep

\* The close event keeps the invariant: the stream ends, fails, or refreshes the urls.
LEMMA OnCloseStep ==
    ASSUME RowsInv, scenario' = scenario, onResultStreamClose
    PROVE  RowsInv'
<1>1. ~crashed /\ pending # <<>> /\ Head(pending).fn = "onResultStreamClose" /\ pending' = Tail(pending)
  BY DEF onResultStreamClose, Due
<1>2. UNCHANGED <<statement, url, fetch, completing, listeners, onComplete, failures, crashed>>
  BY DEF onResultStreamClose
<1>3. PICK s, err, to : /\ s = Head(pending).stream /\ err = Head(pending).err
                        /\ to = IF err = "none" THEN "ended" ELSE "failed"
  OBVIOUS
<1>4. \/ /\ Retried(s, err) /\ rows' = rows
         /\ stream' = [stream EXCEPT ![s].interrupts = @ + 1, ![s].refreshing = "stream"]
      \/ ~Retried(s, err) /\ Close(s, stream[s], to, url)
  BY ONLY <1>3, onResultStreamClose, Zenon DEF onResultStreamClose
<1>5. CASE /\ Retried(s, err) /\ rows' = rows
           /\ stream' = [stream EXCEPT ![s].interrupts = @ + 1, ![s].refreshing = "stream"]
  <2>1. UNCHANGED <<statement, url, rows, fetch, completing, listeners, onComplete, failures, crashed>>
    BY <1>2, <1>5
  <2> QED
    BY ONLY <1>1, <1>3, <1>5, <2>1, RowsInv, scenario' = scenario, RetryStep
<1>6. CASE ~Retried(s, err) /\ Close(s, stream[s], to, url)
  <2>1. /\ TypeOK /\ s \in scenario.streams /\ StreamInv(s) /\ Head(pending) \in Callback
        /\ Calls(s) = {Head(pending)} /\ Rest(Tail(pending), s)
        /\ Queued(s) = {} /\ \A k \in Chunks : Waits(s, k) = {}
        /\ stream[s].phase = "waiting" /\ statement # "fetching"
    BY <1>1, <1>3, HeadFacts
  <2>2. CallInv(s) /\ Stage(s) /\ InterruptInv(s)
    BY <1>1, <2>1 DEF StreamInv
  <2>3. /\ stream[s].initialized /\ stream[s].buffer = <<>>
        /\ err = "none" => stream[s].current \notin Overlapping(stream[s].window)
        /\ \A c \in Calls(s) : c.fn # "pushRows"
    BY <1>1, <1>3, <2>1, <2>2 DEF CallInv
  <2>4. err \in {"none", "forbidden", "other"}
    BY <1>1, <1>3, <2>1, CallKinds
  <2>5. to \in {"ended", "failed"} /\ (to = "ended" => err = "none") /\ (to = "failed" => err # "none")
    BY <1>3
  <2>6. to = "ended" =>
              /\ stream[s].current = None => stream[s].window.start > stream[s].window.end
              /\ stream[s].current # None =>
                    /\ \A j \in Overlapping(stream[s].window) : ~(j >= stream[s].current)
                    /\ Sound => stream[s].window.start + Len(stream[s].out) = stream[s].window.end + 1
    <3>1. stream[s].current = None => stream[s].window.start > stream[s].window.end
      BY <2>1, <2>2, <2>3 DEF Stage
    <3>2. to = "ended" /\ stream[s].current # None =>
                    /\ \A j \in Overlapping(stream[s].window) : ~(j >= stream[s].current)
                    /\ Sound => stream[s].window.start + Len(stream[s].out) = stream[s].window.end + 1
      BY ONLY <1>1, <2>1, <2>3, <2>5, RowsInv, AtTheEnd
    <3> QED
      BY <3>1, <3>2
  <2>7. to = "failed" /\ stream[s].current # None /\ Shift = 0 /\ scenario.faults \subseteq {"forbidden"}
              => failures' > StreamInterrupts
    <3>1. failures \in Nat /\ stream[s].interrupts \in Nat /\ StreamInterrupts \in Nat
      BY <2>1, ResultAssumption DEF TypeOK, StreamState
    <3>2. err # "none" /\ Shift = 0 /\ scenario.faults \subseteq {"forbidden"}
             => err = "forbidden" /\ stream[s].interrupts < failures
      BY <1>1, <1>3, <2>1, <2>2 DEF InterruptInv
    <3>3. err = "forbidden" => ~(stream[s].interrupts < StreamInterrupts)
      BY <1>6 DEF Retried
    <3> QED
      BY <1>2, <2>5, <3>1, <3>2, <3>3
  <2>8. /\ stream[s] \in StreamState /\ url \in [Chunks -> Chunks \cup {None}]
        /\ statement' \in {"fetching", "ok", "transient", "fatal"} /\ statement' # "fetching"
        /\ statement' = statement /\ url' = url
        /\ failures' \in 0..MaxFailures /\ failures' >= failures
        /\ UNCHANGED <<fetch, completing, listeners, onComplete, crashed>>
    BY <1>2, <2>1, ResultAssumption DEF TypeOK
  <2>9. Rest(pending', s)
    BY <1>1, <2>1
  <2>10. PICK st, u : st = stream[s] /\ u = url
    OBVIOUS
  <2> QED
    BY ONLY <1>1, <1>6, <2>1, <2>3, <2>5, <2>6, <2>7, <2>8, <2>9, <2>10, RowsInv,
       scenario' = scenario, CloseStep
<1> QED
  BY ONLY <1>4, <1>5, <1>6

\* A refresh changes no url, unless there are rows in the response.
LEMMA SameUrls ==
    ASSUME RowsInv
    PROVE  /\ RefreshedUrls \in [Chunks -> Chunks \cup {None}]
           /\ Shift = 0 /\ (\E s \in scenario.streams : stream[s].phase # "failed") => RefreshedUrls = url
<1>1. TypeOK /\ url \in [Chunks -> Chunks \cup {None}]
  BY DEF RowsInv, TypeOK
<1>2. RefreshedUrls \in [Chunks -> Chunks \cup {None}]
  BY <1>1 DEF RefreshedUrls
<1>3. ASSUME Shift = 0, NEW s \in scenario.streams, stream[s].phase # "failed"
      PROVE  RefreshedUrls = url
  <2>1. Chunks = 1..LastChunk /\ LastChunk \in Nat
    BY <1>1, <1>3, WindowTypes
  <2>2. ASSUME NEW k \in Chunks
        PROVE  RefreshedUrls[k] = url[k]
    <3>1. Own(k)
      BY <1>3 DEF RowsInv, ChunkInv, Sound
    <3>2. k \in Nat /\ k >= 1 /\ k + Shift = k
      BY ONLY <1>3, <2>1, <2>2
    <3>3. ~(k <= Shift)
      BY ONLY <1>3, <3>2
    <3>4. url[k] = k
      BY <1>3, <3>1, <3>3 DEF Own
    <3> QED
      BY <2>2, <3>2, <3>4 DEF RefreshedUrls
  <2> QED
    BY <1>1, <1>2, <2>2
<1> QED
  BY <1>2, <1>3

\* What a stream that waits for a refresh finds when it comes.
LEMMA RefreshFacts ==
    ASSUME RowsInv, ~crashed, pending = <<>>, NEW s \in scenario.streams, stream[s].refreshing # "no"
    PROVE  /\ TypeOK /\ StreamInv(s) /\ stream[s] \in StreamState
           /\ Calls(s) = {} /\ Rest(<<>>, s)
           /\ Queued(s) = {} /\ \A k \in Chunks : Waits(s, k) = {}
           /\ stream[s].phase = "waiting" /\ statement # "fetching"
           /\ stream[s].refreshing = "init" => ~stream[s].initialized /\ (Alone => statement = "transient")
           /\ stream[s].refreshing = "stream" =>
                 stream[s].initialized /\ stream[s].buffer = <<>> /\ stream[s].current # None
           /\ Sound /\ (Shift > 0 => stream[s].refreshing = "init") /\ statement = "ok" => RefreshedUrls = url
<1>1. TypeOK /\ StreamInv(s) /\ stream[s] \in StreamState
  BY OnceOf, WindowTypes
<1>2. QueuedInv(s) /\ ListenInv(s) /\ RefreshInv(s)
  BY <1>1 DEF StreamInv, WaitInv
<1>3. Rest(<<>>, s) /\ Calls(s) = {}
  BY QuietRest
<1>4. stream[s].refreshing \in {"init", "stream"}
  BY <1>1 DEF StreamState
<1>5. Queued(s) = {} /\ \A k \in Chunks : Waits(s, k) = {}
  BY <1>2, <1>4 DEF QueuedInv, ListenInv
<1>6. stream[s].phase = "waiting" /\ statement # "fetching"
  BY <1>2, <1>4 DEF RefreshInv
<1>7. stream[s].refreshing = "init" => ~stream[s].initialized /\ (Alone => statement = "transient")
  BY <1>2, <1>3 DEF RefreshInv
<1>8. stream[s].refreshing = "stream" =>
         stream[s].initialized /\ stream[s].buffer = <<>> /\ stream[s].current # None
  BY <1>2 DEF RefreshInv
<1>9. Sound /\ (Shift > 0 => stream[s].refreshing = "init") /\ statement = "ok" => RefreshedUrls = url
  <2>1. Shift \in {0, 1}
    BY <1>1, ChunkFacts DEF TypeOK
  <2>2. Shift = 0 => RefreshedUrls = url
    BY <1>6, SameUrls
  <2> QED
    BY <1>7, <2>1, <2>2 DEF Sound
<1> QED
  BY <1>1, <1>3, <1>5, <1>6, <1>7, <1>8, <1>9

\* The stream begins after the refresh.
LEMMA BeginStep ==
    ASSUME RowsInv, ~crashed, pending = <<>>, scenario' = scenario, NEW s \in scenario.streams,
           stream[s].refreshing = "init", pending' = <<InitStream(s)>>,
           UNCHANGED <<rows, fetch, completing, listeners, onComplete, stream, crashed>>,
           statement' \in {"ok", "transient", "fatal"},
           url' \in [Chunks -> Chunks \cup {None}], Sound => url' = url,
           failures' \in 0..MaxFailures, failures' >= failures
    PROVE  RowsInv'
<1>1. /\ TypeOK /\ StreamInv(s) /\ stream[s] \in StreamState
      /\ Rest(<<>>, s)
      /\ Queued(s) = {} /\ \A k \in Chunks : Waits(s, k) = {}
      /\ stream[s].phase = "waiting" /\ statement # "fetching" /\ ~stream[s].initialized
  BY RefreshFacts
<1>2. Given(s, {InitStream(s)}) /\ SameLoads
  <2>1. InitStream(s) \in CallsOf(s)
    BY NewCalls
  <2>2. pending' = Append(<<>>, InitStream(s))
    OBVIOUS
  <2> QED
    BY ONLY <1>1, <2>1, <2>2, s \in scenario.streams, AppendGiven
<1>3. OnlyFor(s)
  <2>1. onComplete' = onComplete /\ listeners' = listeners
        /\ \A t \in scenario.streams \ {s} : stream'[t] = stream[t]
    OBVIOUS
  <2> QED
    BY ONLY <1>2, <2>1, RowsInv, ~crashed, SameWaits
<1>4. Calls(s)' = {InitStream(s)} /\ Queued(s)' = {} /\ \A k \in Chunks : Waits(s, k)' = {}
  BY <1>1, <1>2, Constant DEF Given, Calls, Waits, Queued
<1>5. \A c \in Calls(s)' : c.fn = "init"
  BY <1>4, CallFields
<1>6. Stage(s) /\ InterruptInv(s) /\ PushedInv(s) /\ OnceInv(s)
  BY <1>1 DEF StreamInv, WaitInv
<1>7. stream[s].current = None
  BY <1>1, <1>6 DEF Stage
<1>8. Stage(s)'
  BY <1>6, Constant DEF Stage
<1>9. InterruptInv(s)'
  <2>1. failures \in Nat /\ failures' \in Nat /\ stream[s].interrupts \in 0..StreamInterrupts
        /\ StreamInterrupts \in Nat
    BY <1>1, ResultAssumption DEF TypeOK, StreamState
  <2>2. Shift = 0 /\ scenario.faults \subseteq {"forbidden"} => stream[s].interrupts <= failures
    BY <1>6 DEF InterruptInv
  <2>3. Shift = 0 /\ scenario.faults \subseteq {"forbidden"} => stream[s].interrupts <= failures'
    BY ONLY <2>1, <2>2, failures' >= failures
  <2>4. Shift' = Shift /\ stream' = stream
    BY Constant
  <2> QED
    BY ONLY <1>5, <1>7, <2>3, <2>4, scenario' = scenario DEF InterruptInv
<1>10. PushedInv(s)' /\ Position(s)'
  BY <1>7 DEF PushedInv, Position
<1>11. CallInv(s)'
  BY <1>1, <1>5 DEF CallInv
<1>12. QueuedInv(s)' /\ ListenInv(s)'
  BY <1>4, Constant DEF QueuedInv, ListenInv
<1>13. RefreshInv(s)'
  BY <1>1, <1>4 DEF RefreshInv
<1>14. OnceInv(s)'
  <2>1. onComplete' = onComplete /\ listeners' = listeners /\ CallsOf(s)' = CallsOf(s) /\ Chunks' = Chunks
    BY Constant
  <2>2. Single(pending', CallsOf(s))
    BY <1>3 DEF OnlyFor
  <2> QED
    BY ONLY <1>6, <2>1, <2>2 DEF OnceInv
<1>15. StreamInv(s)'
  BY <1>8, <1>9, <1>10, <1>11, <1>12, <1>13, <1>14 DEF StreamInv, WaitInv
<1>16. Sound => \A j \in Chunks : Own(j)' /\ Held(j)'
  <2>1. /\ stream[s].phase \in {"idle", "waiting"} /\ stream'[s].phase \in {"idle", "waiting"}
        /\ stream'[s].current = stream[s].current /\ stream'[s].window = stream[s].window
        /\ stream'[s].previous = stream[s].previous
        /\ \A c \in Calls(s)' : c.fn # "onResultStreamData"
        /\ fetch' = fetch /\ rows' = rows
    BY <1>1, <1>5
  <2> QED
    BY ONLY <1>3, <2>1, RowsInv, ~crashed, scenario' = scenario, s \in scenario.streams,
            Sound => url' = url, GoesOn
<1>17. /\ fetch' = fetch /\ completing' = completing /\ listeners' = listeners
       /\ onComplete' \in Seq(scenario.streams) /\ crashed' \in BOOLEAN
       /\ rows' \in [Chunks -> Chunks \cup {None}] /\ \A j \in Chunks : rows'[j] \in {None, rows[j]}
       /\ statement' \in {"fetching", "ok", "transient", "fatal"}
       /\ \/ ~Alone /\ statement # "fetching" /\ statement' # "fetching"
          \/ Alone
       /\ stream[s].index # 0 => stream[s].index < Len(stream[s].buffer)
       /\ stream' = [stream EXCEPT ![s] = stream[s]]
  BY <1>1 DEF TypeOK
<1>18. PICK st : st = stream[s]
  OBVIOUS
<1> QED
  BY ONLY <1>1, <1>2, <1>3, <1>15, <1>16, <1>17, <1>18, RowsInv, ~crashed,
     scenario' = scenario,
          s \in scenario.streams, url' \in [Chunks -> Chunks \cup {None}],
          failures' \in 0..MaxFailures, failures' >= failures, StreamStep

\* A refresh that fails keeps the invariant,
LEMMA RefreshFailsStep ==
    ASSUME RowsInv, scenario' = scenario, NEW s \in scenario.streams,
           NEW outcome \in {"transient", "fatal"}, refreshFails(s, outcome)
    PROVE  RowsInv'
<1>1. /\ ~crashed /\ pending = <<>> /\ stream[s].refreshing # "no"
      /\ "refresh" \in scenario.faults /\ failures < MaxFailures /\ failures' = failures + 1
      /\ statement' = IF statement = "ok" THEN "ok" ELSE outcome
      /\ UNCHANGED <<url, fetch, completing, listeners, onComplete, crashed>>
  BY DEF refreshFails, Quiet
<1>2. /\ TypeOK /\ StreamInv(s) /\ stream[s] \in StreamState
      /\ Rest(<<>>, s)
      /\ Queued(s) = {} /\ \A k \in Chunks : Waits(s, k) = {}
      /\ stream[s].phase = "waiting" /\ statement # "fetching"
      /\ stream[s].refreshing = "stream" => stream[s].initialized
  BY <1>1, RefreshFacts
<1>3. /\ failures' \in 0..MaxFailures /\ failures' >= failures
      /\ url' \in [Chunks -> Chunks \cup {None}] /\ url' = url
      /\ statement' \in {"ok", "transient", "fatal"}
  BY <1>1, <1>2, ResultAssumption DEF TypeOK
<1>4. CASE stream[s].refreshing = "init" /\ pending' = <<InitStream(s)>> /\ UNCHANGED <<rows, stream>>
  <2>1. UNCHANGED <<rows, fetch, completing, listeners, onComplete, stream, crashed>>
    BY <1>1, <1>4
  <2> QED
    BY ONLY <1>1, <1>3, <1>4, <2>1, RowsInv, scenario' = scenario, s \in scenario.streams,
       BeginStep
<1>5. CASE stream[s].refreshing = "stream" /\ Close(s, stream[s], "failed", url) /\ UNCHANGED pending
  <2>1. Rest(pending', s) /\ ~(scenario.faults \subseteq {"forbidden"}) /\ stream[s].initialized
    BY <1>1, <1>2, <1>5
  <2>2. statement' \in {"fetching", "ok", "transient", "fatal"} /\ statement' # "fetching"
        /\ UNCHANGED <<fetch, completing, listeners, onComplete, crashed>>
    BY <1>1, <1>3
  <2>3. PICK st, u, to : st = stream[s] /\ u = url /\ to = "failed"
    OBVIOUS
  <2>4. to \in {"ended", "failed"} /\ to # "ended" /\ Close(s, st, to, u)
    BY <1>5, <2>3
  <2> QED
    BY ONLY <1>1, <1>2, <1>3, <2>1, <2>2, <2>3, <2>4, RowsInv, scenario' = scenario,
       s \in scenario.streams,
            CloseStep
<1> QED
  BY <1>4, <1>5 DEF refreshFails

\* and so does one that succeeds and moves the urls.
LEMMA RefreshedStep ==
    ASSUME RowsInv, scenario' = scenario, NEW s \in scenario.streams, refreshed(s)
    PROVE  RowsInv'
<1>1. /\ ~crashed /\ pending = <<>> /\ stream[s].refreshing # "no"
      /\ statement' = "ok" /\ url' = (IF statement = "ok" THEN RefreshedUrls ELSE url)
      /\ UNCHANGED <<onComplete, failures, crashed>>
  BY DEF refreshed, Quiet
<1>2. /\ TypeOK /\ StreamInv(s) /\ stream[s] \in StreamState
      /\ Calls(s) = {} /\ Rest(<<>>, s)
      /\ Queued(s) = {} /\ \A k \in Chunks : Waits(s, k) = {}
      /\ stream[s].phase = "waiting" /\ statement # "fetching"
      /\ stream[s].refreshing = "stream" =>
            stream[s].initialized /\ stream[s].buffer = <<>> /\ stream[s].current # None
      /\ Sound /\ (Shift > 0 => stream[s].refreshing = "init") /\ statement = "ok" => RefreshedUrls = url
  BY <1>1, RefreshFacts
<1>3. /\ failures' \in 0..MaxFailures /\ failures' >= failures /\ failures' = failures
      /\ url' \in [Chunks -> Chunks \cup {None}]
      /\ statement' \in {"ok", "transient", "fatal"} /\ statement' # "fetching"
      /\ statement' \in {"fetching", "ok", "transient", "fatal"}
      /\ Sound /\ (Shift > 0 => stream[s].refreshing = "init") => url' = url
  BY <1>1, <1>2, SameUrls, ResultAssumption DEF TypeOK
<1>4. CASE /\ stream[s].refreshing = "init" /\ pending' = <<InitStream(s)>>
           /\ UNCHANGED <<rows, fetch, completing, listeners, stream>>
  <2>1. UNCHANGED <<rows, fetch, completing, listeners, onComplete, stream, crashed>>
    BY <1>1, <1>4
  <2> QED
    BY ONLY <1>1, <1>3, <1>4, <2>1, RowsInv, scenario' = scenario, s \in scenario.streams,
       BeginStep
<1>5. CASE /\ stream[s].refreshing = "stream" /\ RefreshThrows
           /\ Close(s, stream[s], "failed", url')
           /\ UNCHANGED <<fetch, completing, listeners, pending>>
  <2>1. Rest(pending', s) /\ stream[s].initialized
    BY <1>1, <1>2, <1>5
  <2>2. UNCHANGED <<fetch, completing, listeners, onComplete, crashed>>
    BY <1>1, <1>5
  <2>3. PICK st, u, to : st = stream[s] /\ u = url' /\ to = "failed"
    OBVIOUS
  <2>4. to \in {"ended", "failed"} /\ to # "ended" /\ Close(s, st, to, u) /\ url' = u
    BY <1>5, <2>3
  <2>5. Shift # 0 /\ (Sound => Alone)
    BY <1>5 DEF RefreshThrows, Sound
  <2> QED
    BY ONLY <1>1, <1>2, <1>3, <2>1, <2>2, <2>3, <2>4, <2>5, RowsInv, scenario' = scenario,
       s \in scenario.streams,
            CloseStep
<1>6. CASE /\ stream[s].refreshing = "stream" /\ ~RefreshThrows
           /\ stream' = [stream EXCEPT ![s].refreshing = "no"]
           /\ doLoad(s, stream[s], <<>>)
           /\ UNCHANGED rows
  <2>1. Shift = 0 /\ ~(Shift > 0) /\ Sound /\ url' = url
    <3>1. Shift \in {0, 1}
      BY <1>2, ChunkFacts DEF TypeOK
    <3>2. Shift = 0 /\ ~(Shift > 0)
      BY ONLY <1>6, <3>1 DEF RefreshThrows
    <3> QED
      BY <1>3, <3>2 DEF Sound
  <2>2. PICK st : st = [stream[s] EXCEPT !.refreshing = "no"]
    OBVIOUS
  <2>3. /\ st \in StreamState
        /\ st.phase = stream[s].phase /\ st.initialized = stream[s].initialized /\ st.refreshing = "no"
        /\ st.buffer = stream[s].buffer /\ st.index = stream[s].index
        /\ st.current = stream[s].current /\ st.window = stream[s].window
        /\ st.previous = stream[s].previous /\ st.out = stream[s].out
        /\ st.interrupts = stream[s].interrupts
    BY ONLY <1>2, <2>2 DEF StreamState
  <2>4. stream' = [stream EXCEPT ![s] = st]
    BY ONLY <1>6, <2>2
  <2>5. doLoad(s, st, <<>>)
    <3>1. st.window = stream[s].window /\ st.current = stream[s].current
      BY <2>3
    <3> QED
      BY ONLY <1>6, <3>1 DEF doLoad
  <2>6. st.interrupts \in Nat /\ st.interrupts <= stream[s].interrupts
    BY <1>2, <2>3, ResultAssumption DEF StreamState
  <2>7. Ready(st)
    <3>1. /\ stream[s].phase \in {"idle", "waiting"} /\ stream[s].current # None /\ stream[s].initialized
          /\ \A c \in Calls(s) : c.fn # "pushRows"
          /\ st.phase = "waiting" /\ st.initialized /\ st.buffer = <<>>
      BY <1>2, <1>6, <2>3
    <3> QED
      BY ONLY <1>1, <2>3, <2>6, <3>1, RowsInv, s \in scenario.streams, ReadyFacts
  <2>8. PICK q : q = <<>>
    OBVIOUS
  <2>9. /\ rows' = rows /\ onComplete' = onComplete /\ crashed' = crashed
        /\ stream[s].phase \in {"idle", "waiting"} /\ stream[s].current # None
        /\ Rest(q, s) /\ doLoad(s, st, q)
    BY <1>1, <1>2, <1>6, <2>5, <2>8
  <2> QED
    BY ONLY <1>1, <1>2, <1>3, <2>1, <2>3, <2>4, <2>7, <2>9, RowsInv, scenario' = scenario,
       s \in scenario.streams,
            LoadStream
<1> QED
  BY <1>4, <1>5, <1>6 DEF refreshed

\* The window is a window of the result.
LEMMA ClipFacts ==
    ASSUME scenario \in Scenarios, NEW w \in [start : Int, end : Int], NEW v, v = Clip(w)
    PROVE  /\ v \in [start : Int, end : Int] /\ v.start \in Int /\ v.end \in Int
           /\ v.start >= 0 /\ v.end < Returned
<1>1. Returned \in Nat
  BY ChunkFacts
<1>2. PICK a, b : /\ a = (IF w.start < 0 THEN 0 ELSE w.start)
                  /\ b = (IF w.end >= Returned THEN Returned - 1 ELSE w.end)
  OBVIOUS
<1>3. w.start \in Int /\ w.end \in Int
  OBVIOUS
<1>4. a \in Int /\ b \in Int /\ a >= 0 /\ b < Returned
  BY ONLY <1>1, <1>2, <1>3
<1>5. v = [start |-> a, end |-> b]
  BY ONLY <1>2, v = Clip(w) DEF Clip
<1> QED
  BY ONLY <1>4, <1>5

\* The first chunk of a window is the one that holds its first row.
LEMMA FirstChunk ==
    ASSUME scenario \in Scenarios, NEW w, w.start \in Int, w.end \in Int,
           0 <= w.start, w.start <= w.end, w.end < Returned
    PROVE  /\ Overlapping(w) # {}
           /\ Min(Overlapping(w)) \in Overlapping(w)
           /\ From(Min(Overlapping(w)), w) = w.start
<1>1. LastChunk \in Nat /\ Chunks = 1..LastChunk /\ Returned \in Nat
  BY ChunkFacts
<1>2. PICK x, y, O : x = w.start /\ y = w.end /\ O = Overlapping(w)
  OBVIOUS
<1>3. x \in Nat /\ x < Returned /\ x \in Int /\ y \in Int /\ x <= y
  BY <1>1, <1>2
<1>4. PICK k \in Chunks : StartIndex(k) <= x /\ x <= EndIndex(k)
  BY ONLY <1>3, scenario \in Scenarios, EveryRowInAChunk
<1>5. \A j \in Chunks : j \in 1..(LastChunk + 1) /\ j \in Nat
  BY ONLY <1>1
<1>6. \A j \in Chunks : StartIndex(j) \in Nat
  BY ONLY <1>5, scenario \in Scenarios, ChunkFacts
<1>7. k \in O
  <2>1. k \in Overlapping(w) <=> StartIndex(k) <= w.end /\ w.start <= EndIndex(k)
    BY ONLY <1>2, <1>3, k \in Chunks, scenario \in Scenarios, OverlapFacts
  <2>2. StartIndex(k) <= y
    BY ONLY <1>3, <1>4, <1>6
  <2> QED
    BY ONLY <1>2, <1>4, <2>1, <2>2
<1>8. O \subseteq Chunks /\ O \subseteq Nat
  BY ONLY <1>2, <1>5 DEF Overlapping
<1>9. Min(O) \in O /\ \A j \in O : Min(O) <= j
  <2>1. \E j \in O : \A i \in O : j <= i
    BY ONLY <1>7, <1>8, LeastNatural
  <2> QED
    BY ONLY <2>1 DEF Min
<1>10. PICK m : m = Min(O)
  OBVIOUS
<1>11. m \in Chunks /\ m \in Nat /\ m <= k /\ k \in Nat
  BY ONLY <1>4, <1>5, <1>7, <1>8, <1>9, <1>10
<1>12. StartIndex(m) <= x /\ StartIndex(m) \in Nat
  <2>1. m < k => StartIndex(m) < StartIndex(k)
    BY ONLY <1>4, <1>5, <1>11, scenario \in Scenarios, StartsGrow
  <2>2. StartIndex(m) \in Nat /\ StartIndex(k) \in Nat
    BY ONLY <1>4, <1>6, <1>11
  <2>3. m = k => StartIndex(m) = StartIndex(k)
    OBVIOUS
  <2>4. StartIndex(m) <= StartIndex(k)
    BY ONLY <1>11, <2>1, <2>2, <2>3
  <2> QED
    BY ONLY <1>3, <1>4, <2>2, <2>4
<1>13. From(m, w) = x
  BY ONLY <1>2, <1>3, <1>12 DEF From
<1> QED
  BY ONLY <1>2, <1>7, <1>9, <1>10, <1>13

\* A stream without rows closes.
LEMMA EmptyStep ==
    ASSUME RowsInv, ~crashed, scenario' = scenario, pending # <<>>, Head(pending).fn = "init",
           NEW s, s = Head(pending).stream, statement = "ok",
           NEW sw \in StreamState, sw.window.start > sw.window.end,
           sw.phase = "waiting", sw.initialized, sw.refreshing = "no",
           sw.buffer = stream[s].buffer, sw.index = stream[s].index, sw.current = stream[s].current,
           sw.previous = stream[s].previous, sw.out = stream[s].out,
           sw.interrupts = stream[s].interrupts,
           stream' = [stream EXCEPT ![s] = sw], pending' = Append(Tail(pending), OnClose(s, "none")),
           UNCHANGED <<statement, url, rows, fetch, completing, listeners, onComplete, failures, crashed>>
    PROVE  RowsInv'
<1>1. /\ TypeOK /\ s \in scenario.streams /\ StreamInv(s)
      /\ Calls(s) = {Head(pending)} /\ Rest(Tail(pending), s)
      /\ Queued(s) = {} /\ \A k \in Chunks : Waits(s, k) = {}
      /\ stream[s].phase = "waiting"
  BY HeadFacts
<1>2. /\ CallInv(s) /\ Stage(s) /\ InterruptInv(s) /\ OnceInv(s)
  BY <1>1 DEF StreamInv, WaitInv
<1>3. /\ ~stream[s].initialized /\ stream[s].current = None /\ stream[s].previous = None
      /\ stream[s].buffer = <<>> /\ stream[s].out = <<>>
  BY <1>1, <1>2 DEF CallInv, Stage
<1>4. Given(s, {OnClose(s, "none")}) /\ SameLoads
  <2>1. OnClose(s, "none") \in CallsOf(s)
    BY <1>1, NewCalls
  <2> QED
    BY ONLY <1>1, <2>1, pending' = Append(Tail(pending), OnClose(s, "none")), AppendGiven
<1>5. stream'[s] = sw /\ \A t \in scenario.streams \ {s} : stream'[t] = stream[t]
  BY <1>1 DEF TypeOK
<1>6. OnlyFor(s)
  <2>1. onComplete' = onComplete /\ listeners' = listeners
    OBVIOUS
  <2> QED
    BY ONLY <1>4, <1>5, <2>1, RowsInv, ~crashed, SameWaits
<1>7. Calls(s)' = {OnClose(s, "none")} /\ Queued(s)' = {} /\ \A k \in Chunks : Waits(s, k)' = {}
  BY <1>1, <1>4, Constant DEF Given, Calls, Waits, Queued
<1>8. \A c \in Calls(s)' : c.fn = "onResultStreamClose" /\ c.err = "none"
  BY <1>7, CallFields
<1>9. Stage(s)'
  BY ONLY <1>3, <1>5, sw.window.start > sw.window.end, sw.phase = "waiting", sw.initialized,
          sw.buffer = stream[s].buffer, sw.current = stream[s].current,
          sw.previous = stream[s].previous, sw.out = stream[s].out DEF Stage
<1>10. InterruptInv(s)'
  <2>1. Shift' = Shift /\ failures' = failures
    BY Constant
  <2> QED
    BY <1>2, <1>5, <1>8, <2>1 DEF InterruptInv
<1>11. PushedInv(s)' /\ Position(s)'
  BY <1>3, <1>5 DEF PushedInv, Position
<1>12. CallInv(s)'
  <2>1. None \notin Overlapping(sw.window)'
    <3>1. None \notin Chunks
      BY <1>1, WindowTypes DEF None
    <3> QED
      BY <3>1, Constant DEF Overlapping
  <2> QED
    BY <1>3, <1>5, <1>8, <2>1 DEF CallInv
<1>13. QueuedInv(s)' /\ ListenInv(s)'
  BY <1>7, Constant DEF QueuedInv, ListenInv
<1>14. RefreshInv(s)'
  BY <1>5 DEF RefreshInv
<1>15. OnceInv(s)'
  <2>1. onComplete' = onComplete /\ listeners' = listeners /\ CallsOf(s)' = CallsOf(s) /\ Chunks' = Chunks
    BY Constant
  <2>2. Single(pending', CallsOf(s))
    BY <1>1, <1>6 DEF OnlyFor
  <2> QED
    BY ONLY <1>2, <2>1, <2>2 DEF OnceInv
<1>16. StreamInv(s)'
  BY <1>9, <1>10, <1>11, <1>12, <1>13, <1>14, <1>15 DEF StreamInv, WaitInv
<1>17. ASSUME Sound, NEW j \in Chunks
       PROVE  Own(j)' /\ Held(j)'
  <2>1. Own(j) /\ Held(j)
    BY <1>17 DEF RowsInv, ChunkInv
  <2>2. j # None
    BY <1>1, WindowTypes DEF None
  <2>3. ~Keeps(s, j) /\ ~Fetches(s, j)
    BY <1>1, <1>3, <2>2 DEF Keeps, Fetches, WillLoad
  <2>4. /\ url' = url /\ rows'[j] \in {None, rows[j]} /\ fetch'[j] \in {fetch[j], url[j]}
        /\ stream[s].phase # "failed"
        /\ rows'[j] # None => rows[j] # None
        /\ fetch'[j] # None => fetch[j] # None
    BY <1>1
  <2>5. Own(j)'
    BY ONLY <1>1, <2>1, <2>4, scenario' = scenario, j \in Chunks, OwnKept
  <2>6. Held(j)'
    BY ONLY <1>1, <1>6, <2>1, <2>3, <2>4, scenario' = scenario, j \in Chunks, HeldKept
  <2> QED
    BY <2>5, <2>6
<1>18. /\ fetch' = fetch /\ completing' = completing /\ listeners' = listeners
       /\ onComplete' \in Seq(scenario.streams)
       /\ url' \in [Chunks -> Chunks \cup {None}]
       /\ rows' \in [Chunks -> Chunks \cup {None}] /\ \A j \in Chunks : rows'[j] \in {None, rows[j]}
       /\ failures' \in 0..MaxFailures /\ failures' >= failures /\ crashed' \in BOOLEAN
       /\ statement' \in {"fetching", "ok", "transient", "fatal"}
       /\ statement' = statement
       /\ sw.index # 0 => sw.index < Len(sw.buffer)
  BY <1>1, ResultAssumption DEF TypeOK
<1> QED
  BY ONLY <1>1, <1>4, <1>6, <1>16, <1>17, <1>18, RowsInv, ~crashed, scenario' = scenario,
          sw \in StreamState, stream' = [stream EXCEPT ![s] = sw], StreamStep

\* The initialization of a stream keeps the invariant.
LEMMA InitStep ==
    ASSUME RowsInv, scenario' = scenario, init
    PROVE  RowsInv'
<1>1. ~crashed /\ pending # <<>> /\ Head(pending).fn = "init"
  BY DEF init, Due
<1>2. UNCHANGED <<statement, url, onComplete, failures, crashed>>
  BY DEF init
<1>3. PICK s : s = Head(pending).stream
  OBVIOUS
<1>4. PICK w, st : /\ w = Clip(stream[s].window)
                   /\ st = [stream[s] EXCEPT !.initialized = TRUE, !.refreshing = "no"]
  OBVIOUS
<1>5. PICK sw : sw = [st EXCEPT !.window = w]
  OBVIOUS
<1>6. PICK first : first = [sw EXCEPT !.current = Min(Overlapping(w))]
  OBVIOUS
<1>7. \/ /\ statement # "ok" /\ Close(s, st, "failed", url) /\ pending' = Tail(pending)
         /\ UNCHANGED <<fetch, completing, listeners>>
      \/ /\ statement = "ok" /\ (Overlapping(w) = {} \/ w.start > w.end)
         /\ stream' = [stream EXCEPT ![s] = sw]
         /\ pending' = Append(Tail(pending), OnClose(s, "none"))
         /\ UNCHANGED <<rows, fetch, completing, listeners>>
      \/ /\ statement = "ok" /\ Overlapping(w) # {} /\ w.start <= w.end
         /\ stream' = [stream EXCEPT ![s] = first]
         /\ doLoad(s, first, Tail(pending))
         /\ UNCHANGED rows
  BY ONLY <1>3, <1>4, <1>5, <1>6, init, Zenon DEF init
<1>8. /\ TypeOK /\ s \in scenario.streams /\ StreamInv(s)
      /\ Calls(s) = {Head(pending)} /\ Rest(Tail(pending), s)
      /\ Queued(s) = {} /\ \A k \in Chunks : Waits(s, k) = {}
      /\ stream[s].phase = "waiting" /\ statement # "fetching"
  BY <1>1, <1>3, HeadFacts
<1>9. CallInv(s) /\ Stage(s) /\ InterruptInv(s)
  BY <1>1, <1>8 DEF StreamInv
<1>10. /\ ~stream[s].initialized /\ stream[s].current = None /\ stream[s].previous = None
       /\ stream[s].buffer = <<>> /\ stream[s].out = <<>>
  BY <1>1, <1>8, <1>9 DEF CallInv, Stage
<1>11. /\ stream[s] \in StreamState /\ scenario \in Scenarios /\ LastChunk \in Nat /\ Chunks = 1..LastChunk
       /\ stream[s].index = 0
  BY <1>8, <1>10, WindowTypes
<1>12. stream[s].window \in [start : Int, end : Int]
  BY <1>11 DEF StreamState
<1>13. /\ w \in [start : Int, end : Int] /\ w.start \in Int /\ w.end \in Int
       /\ w.start >= 0 /\ w.end < Returned
  BY ONLY <1>4, <1>11, <1>12, ClipFacts
<1>14. /\ st \in StreamState
       /\ st.phase = stream[s].phase /\ st.initialized /\ st.refreshing = "no"
       /\ st.buffer = stream[s].buffer /\ st.index = stream[s].index
       /\ st.current = stream[s].current /\ st.window = stream[s].window
       /\ st.previous = stream[s].previous /\ st.out = stream[s].out
       /\ st.interrupts = stream[s].interrupts
  BY ONLY <1>4, <1>11 DEF StreamState
<1>15. /\ sw \in StreamState
       /\ sw.phase = stream[s].phase /\ sw.initialized /\ sw.refreshing = "no"
       /\ sw.buffer = stream[s].buffer /\ sw.index = stream[s].index
       /\ sw.current = stream[s].current /\ sw.window = w
       /\ sw.previous = stream[s].previous /\ sw.out = stream[s].out
       /\ sw.interrupts = stream[s].interrupts
  BY ONLY <1>5, <1>13, <1>14 DEF StreamState
<1>16. /\ statement' = statement /\ url' = url /\ onComplete' = onComplete
       /\ failures' = failures /\ crashed' = crashed
       /\ failures' \in 0..MaxFailures /\ failures' >= failures
       /\ statement' \in {"fetching", "ok", "transient", "fatal"} /\ statement' # "fetching"
       /\ url \in [Chunks -> Chunks \cup {None}]
  BY <1>2, <1>8, ResultAssumption DEF TypeOK
<1>17. CASE /\ statement # "ok" /\ Close(s, st, "failed", url) /\ pending' = Tail(pending)
            /\ UNCHANGED <<fetch, completing, listeners>>
  <2>1. PICK u, to : u = url /\ to = "failed"
    OBVIOUS
  <2>2. to \in {"ended", "failed"} /\ to # "ended" /\ Close(s, st, to, u) /\ url' = u
        /\ UNCHANGED <<fetch, completing, listeners, onComplete, crashed>> /\ Rest(pending', s)
    BY <1>8, <1>16, <1>17, <2>1
  <2> QED
    BY ONLY <1>1, <1>8, <1>10, <1>14, <1>16, <2>1, <2>2, RowsInv, scenario' = scenario,
       CloseStep
<1>18. CASE /\ statement = "ok" /\ (Overlapping(w) = {} \/ w.start > w.end)
            /\ stream' = [stream EXCEPT ![s] = sw]
            /\ pending' = Append(Tail(pending), OnClose(s, "none"))
            /\ UNCHANGED <<rows, fetch, completing, listeners>>
  <2>1. w.start > w.end
    <3>1. w.start <= w.end => Overlapping(w) # {}
      <4>1. 0 <= w.start
        BY ONLY <1>13
      <4> QED
        BY ONLY <1>11, <1>13, <4>1, FirstChunk
    <3>2. ~(w.start <= w.end)
      BY <1>13, <1>18, <3>1
    <3> QED
      BY ONLY <1>13, <3>2
  <2>2. sw.window.start > sw.window.end /\ sw.phase = "waiting"
        /\ UNCHANGED <<statement, url, rows, fetch, completing, listeners, onComplete, failures, crashed>>
    BY <1>2, <1>8, <1>15, <1>18, <2>1
  <2> QED
    BY ONLY <1>1, <1>3, <1>15, <1>18, <2>2, RowsInv, scenario' = scenario, EmptyStep
<1>19. CASE /\ statement = "ok" /\ Overlapping(w) # {} /\ w.start <= w.end
            /\ stream' = [stream EXCEPT ![s] = first]
            /\ doLoad(s, first, Tail(pending))
            /\ UNCHANGED rows
  <2>1. PICK m : m = Min(Overlapping(w))
    OBVIOUS
  <2>2. m \in Overlapping(w) /\ From(m, w) = w.start
    <3>1. 0 <= w.start /\ w.start <= w.end
      BY <1>13, <1>19
    <3> QED
      BY ONLY <1>11, <1>13, <2>1, <3>1, FirstChunk
  <2>3. m \in Chunks /\ m \in Nat /\ m \in 1..(LastChunk + 1)
    BY <1>11, <2>2 DEF Overlapping
  <2>4. w.start <= EndIndex(m)
    <3>1. w.start <= w.end
      BY <1>19
    <3>2. m \in Overlapping(w) <=> StartIndex(m) <= w.end /\ w.start <= EndIndex(m)
      BY ONLY <1>11, <1>13, <2>3, <3>1, OverlapFacts
    <3> QED
      BY ONLY <2>2, <3>2
  <2>5. /\ first \in StreamState
        /\ first.phase = stream[s].phase /\ first.initialized /\ first.refreshing = "no"
        /\ first.buffer = stream[s].buffer /\ first.index = stream[s].index
        /\ first.current = m /\ first.window = w
        /\ first.previous = stream[s].previous /\ first.out = stream[s].out
        /\ first.interrupts = stream[s].interrupts
    BY ONLY <1>6, <1>15, <2>1, <2>3 DEF StreamState
  <2>6. Shift = 0 /\ scenario.faults \subseteq {"forbidden"} => first.interrupts <= failures
    BY <1>9, <2>5 DEF InterruptInv
  <2>7. /\ first.out = RowsFrom(w.start, w.start + Len(first.out) - 1)
        /\ w.start + Len(first.out) <= w.end + 1
        /\ w.start + Len(first.out) = From(m, w)
    <3>1. first.out = <<>> /\ Len(first.out) = 0
      BY <1>10, <2>5
    <3>2. PICK x, y, z : x = w.start /\ y = w.end /\ z = w.start + Len(first.out) - 1
      OBVIOUS
    <3>3. x \in Int /\ y \in Int /\ x <= y
      BY ONLY <1>13, <1>19, <3>2
    <3>4. z \in Int /\ x = z + 1 /\ x <= z + 1 /\ x + 0 = x /\ x <= y + 1
      BY ONLY <3>1, <3>2, <3>3
    <3>5. RowsFrom(x, z) = <<>>
      BY ONLY <3>3, <3>4, RowsFromFacts
    <3>6. first.out = RowsFrom(w.start, w.start + Len(first.out) - 1)
      BY ONLY <3>1, <3>2, <3>5
    <3> QED
      BY ONLY <2>2, <3>1, <3>2, <3>4, <3>6
  <2>8. Ready(first)
    <3>1. first.phase = "waiting" /\ first.buffer = <<>> /\ first.index = 0 /\ first.previous = None
          /\ 0 <= w.start /\ w.start <= w.end
      BY <1>8, <1>10, <1>11, <1>13, <1>19, <2>5
    <3> QED
      BY ONLY <1>13, <2>3, <2>4, <2>5, <2>6, <2>7, <3>1 DEF Ready
  <2>9. PICK q : q = Tail(pending)
    OBVIOUS
  <2>10. /\ Rest(q, s) /\ doLoad(s, first, q) /\ rows' = rows
         /\ stream[s].phase \in {"idle", "waiting"}
    BY <1>8, <1>19, <2>9
  <2> QED
    BY ONLY <1>1, <1>8, <1>10, <1>16, <1>19, <2>8, <2>10, RowsInv, scenario' = scenario,
       LoadStream
<1> QED
  BY ONLY <1>7, <1>17, <1>18, <1>19

\* The streams that wait for the statement are initialized.
LEMMA CompletedCalls ==
    ASSUME onComplete \in Seq(scenario.streams),
           NEW e, e = [i \in DOMAIN onComplete |-> InitStream(onComplete[i])]
    PROVE  /\ e \in Seq(Callback)
           /\ \A t \in scenario.streams :
                 /\ Queued(t) = {} => Within(e, CallsOf(t)) = {}
                 /\ Queued(t) # {} => Within(e, CallsOf(t)) = {InitStream(t)}
                 /\ Single(onComplete, {t}) => Single(e, CallsOf(t))
           /\ \A j : Within(e, {CompleteLoad(j)}) = {} /\ Single(e, {CompleteLoad(j)})
<1>1. PICK l : l = onComplete
  OBVIOUS
<1>2. l \in Seq(scenario.streams) /\ Len(l) \in Nat /\ DOMAIN l = 1..Len(l)
  BY <1>1, LenProperties
<1>3. \A i \in 1..Len(l) : l[i] \in scenario.streams
  BY <1>2
<1>4. e = [i \in 1..Len(l) |-> InitStream(l[i])]
  BY <1>1, <1>2
<1>5. \A i \in 1..Len(l) : InitStream(l[i]) \in Callback /\ InitStream(l[i]) \in CallsOf(l[i])
  BY <1>3, NewCalls
<1>6. e \in Seq(Callback) /\ Len(e) = Len(l)
  <2>1. e \in [1..Len(l) -> Callback]
    BY <1>4, <1>5
  <2> QED
    BY <2>1, <1>2
<1>7. \A i \in 1..Len(e) : e[i] = InitStream(l[i])
  BY <1>4, <1>6
<1>8. ASSUME NEW t \in scenario.streams, NEW i \in 1..Len(e)
      PROVE  e[i] \in CallsOf(t) <=> l[i] = t
  <2>1. l[i] \in scenario.streams /\ e[i] \in CallsOf(l[i])
    BY <1>3, <1>5, <1>6, <1>7
  <2> QED
    BY <2>1, NewCalls
<1>9. ASSUME NEW t \in scenario.streams
      PROVE  /\ Queued(t) = {} => Within(e, CallsOf(t)) = {}
             /\ Queued(t) # {} => Within(e, CallsOf(t)) = {InitStream(t)}
             /\ Single(l, {t}) => Single(e, CallsOf(t))
  <2>1. /\ \A c : c \in Within(e, CallsOf(t)) <=> c \in CallsOf(t) /\ \E i \in 1..Len(e) : e[i] = c
        /\ Single(e, CallsOf(t)) <=>
              \A i, j \in 1..Len(e) : e[i] \in CallsOf(t) /\ e[j] \in CallsOf(t) => i = j
    BY <1>6, WithinFacts, SMTT(30)
  <2>2. /\ \A c : c \in Queued(t) <=> c \in {t} /\ \E i \in 1..Len(l) : l[i] = c
        /\ Single(l, {t}) <=> \A i, j \in 1..Len(l) : l[i] \in {t} /\ l[j] \in {t} => i = j
    BY <1>1, <1>2, WithinFacts DEF Queued
  <2>3. ASSUME NEW c \in Within(e, CallsOf(t))
        PROVE  c = InitStream(t) /\ Queued(t) # {}
    <3>1. PICK i \in 1..Len(e) : e[i] = c
      BY <2>1
    <3>2. l[i] = t /\ i \in 1..Len(l)
      BY <3>1, <2>1, <1>6, <1>8
    <3>3. c = InitStream(t)
      BY <3>1, <3>2, <1>7
    <3>4. t \in Queued(t)
      BY <3>2, <2>2
    <3> QED
      BY <3>3, <3>4
  <2>4. ASSUME Queued(t) # {}
        PROVE  InitStream(t) \in Within(e, CallsOf(t))
    <3>1. PICK i \in 1..Len(l) : l[i] = t
      BY <2>2, <2>4
    <3>2. e[i] = InitStream(t) /\ i \in 1..Len(e) /\ InitStream(t) \in CallsOf(t)
      BY <3>1, <1>6, <1>7, NewCalls
    <3> QED
      BY <3>2, <2>1
  <2>5. Single(l, {t}) => Single(e, CallsOf(t))
    BY <1>6, <1>8, <2>1, <2>2
  <2> QED
    BY <2>3, <2>4, <2>5
<1>10. ASSUME NEW j
       PROVE  Within(e, {CompleteLoad(j)}) = {} /\ Single(e, {CompleteLoad(j)})
  <2>1. \A i \in 1..Len(e) : e[i] # CompleteLoad(j)
    BY <1>5, <1>6, <1>7, NewCalls
  <2>2. /\ \A c : c \in Within(e, {CompleteLoad(j)}) <=>
                     c \in {CompleteLoad(j)} /\ \E i \in 1..Len(e) : e[i] = c
        /\ Single(e, {CompleteLoad(j)}) <=>
              \A i, n \in 1..Len(e) : e[i] \in {CompleteLoad(j)} /\ e[n] \in {CompleteLoad(j)} => i = n
    BY <1>6, WithinFacts
  <2> QED
    BY <2>1, <2>2
<1> QED
  BY <1>1, <1>6, <1>9, <1>10

\* The statement's completion, which initializes the streams that wait for it, keeps
\* the invariant.
LEMMA CompletesStep ==
    ASSUME RowsInv, scenario' = scenario, NEW outcome \in Outcomes, statementCompletes(outcome)
    PROVE  RowsInv'
<1>1. /\ ~crashed /\ pending = <<>> /\ statement = "fetching" /\ statement' = outcome
      /\ onComplete' = <<>> /\ pending' = [i \in DOMAIN onComplete |-> InitStream(onComplete[i])]
      /\ UNCHANGED <<url, rows, fetch, completing, listeners, stream, failures, crashed>>
  BY DEF statementCompletes, Quiet, chunkVars
<1>2. /\ TypeOK /\ \A t \in scenario.streams : StreamInv(t) /\ OnceInv(t)
      /\ onComplete \in Seq(scenario.streams)
  BY <1>1, OnceOf DEF TypeOK
<1>3. statement' \in {"ok", "transient", "fatal"} /\ statement' # "fetching"
  BY <1>1, ResultAssumption
<1>4. /\ pending' \in Seq(Callback)
      /\ \A t \in scenario.streams :
            /\ Queued(t) = {} => Within(pending', CallsOf(t)) = {}
            /\ Queued(t) # {} => Within(pending', CallsOf(t)) = {InitStream(t)}
            /\ Single(onComplete, {t}) => Single(pending', CallsOf(t))
      /\ \A j : Within(pending', {CompleteLoad(j)}) = {} /\ Single(pending', {CompleteLoad(j)})
  BY ONLY <1>1, <1>2, CompletedCalls
<1>5. TypeOK'
  BY <1>1, <1>2, <1>3, <1>4, Constant DEF TypeOK
<1>6. ASSUME NEW t \in scenario.streams
      PROVE  /\ \A c \in Calls(t)' : c.fn = "init" /\ Queued(t) # {}
             /\ Queued(t)' = {}
  <2>1. Calls(t)' = Within(pending', CallsOf(t))
    BY Constant DEF Calls
  <2>2. Queued(t)' = {}
    BY <1>1, WithinEmpty DEF Queued
  <2>3. \A c \in Calls(t)' : c = InitStream(t) /\ Queued(t) # {}
    BY ONLY <1>4, <2>1, t \in scenario.streams
  <2>4. InitStream(t).fn = "init"
    BY CallFields
  <2> QED
    BY ONLY <2>2, <2>3, <2>4
<1>7. ASSUME NEW t \in scenario.streams
      PROVE  StreamInv(t)'
  <2>1. /\ Stage(t) /\ InterruptInv(t) /\ PushedInv(t) /\ Position(t)
        /\ OnceInv(t) /\ QueuedInv(t) /\ ListenInv(t) /\ RefreshInv(t)
    BY <1>1, <1>2 DEF StreamInv, WaitInv
  <2>2. ~stream[t].initialized /\ stream[t].refreshing = "no"
    BY <1>1, <2>1 DEF RefreshInv
  <2>3. stream' = stream /\ listeners' = listeners /\ failures' = failures
    BY <1>1
  <2>4. stream[t].current = None
    BY <2>1, <2>2 DEF Stage
  <2>5. Stage(t)'
    BY <2>1, <2>3, Constant DEF Stage
  <2>6. InterruptInv(t)'
    <3>1. Shift' = Shift
      BY Constant
    <3> QED
      BY ONLY <1>6, <2>1, <2>3, <3>1, t \in scenario.streams,
         scenario' = scenario DEF InterruptInv
  <2>7. PushedInv(t)' /\ Position(t)'
    BY <2>3, <2>4 DEF PushedInv, Position
  <2>8. CallInv(t)'
    BY <1>6, <2>1, <2>2, <2>3 DEF CallInv, QueuedInv
  <2>9. OnceInv(t)'
    <3>1. Single(onComplete', {t})
      BY <1>1, WithinEmpty
    <3>2. CallsOf(t)' = CallsOf(t) /\ Chunks' = Chunks
      BY Constant
    <3>3. Single(pending', CallsOf(t))
      BY <1>4, <2>1 DEF OnceInv
    <3> QED
      BY ONLY <2>1, <2>3, <3>1, <3>2, <3>3 DEF OnceInv
  <2>10. QueuedInv(t)'
    BY <1>6 DEF QueuedInv
  <2>11. \A k \in Chunks : Waits(t, k)' = {}
    BY <2>1, <2>2, <2>3 DEF ListenInv, Waits
  <2>12. ListenInv(t)'
    BY <2>11, Constant DEF ListenInv
  <2>13. RefreshInv(t)'
    BY <1>3, <2>2, <2>3 DEF RefreshInv
  <2> QED
    BY <2>5, <2>6, <2>7, <2>8, <2>9, <2>10, <2>12, <2>13 DEF StreamInv, WaitInv
<1>8. ASSUME NEW j \in Chunks
      PROVE  ChunkInv(j)'
  <2>1. ChunkInv(j)
    BY DEF RowsInv
  <2>2. LoadInv(j)'
    <3>1. CompleteLoad(j)' = CompleteLoad(j)
      BY DEF CompleteLoad
    <3>2. LoadInv(j)
      BY <2>1 DEF ChunkInv
    <3> QED
      BY <1>1, <1>4, <3>1, <3>2 DEF LoadInv, Loads
  <2>3. Own(j) => Own(j)'
    BY <1>1, Constant DEF Own
  <2>4. \A t : WillLoad(t, j)' <=> WillLoad(t, j)
    BY <1>1, Constant DEF WillLoad
  <2>5. \A t : Keeps(t, j) => Keeps(t, j)'
    BY <1>1, <2>4 DEF Keeps
  <2>6. ASSUME NEW t \in scenario.streams, Fetches(t, j)
        PROVE  Fetches(t, j)'
    <3>1. OnData(t, j)' = OnData(t, j) /\ OnData(t, j) \notin Calls(t)'
      BY <1>6, CallFields DEF OnData
    <3> QED
      BY <2>4, <2>6, <3>1 DEF Fetches
  <2>7. Held(j) => Held(j)'
    BY <1>1, <2>5, <2>6 DEF Held
  <2> QED
    BY <2>1, <2>2, <2>3, <2>7, Constant DEF ChunkInv
<1> QED
  BY <1>5, <1>7, <1>8, Constant DEF RowsInv

-----------------------------------------------------------------------------
(* The theorems                                                            *)

\* A result that no stream has read satisfies the invariant.
LEMMA RowsInvInit ==
    ASSUME Init
    PROVE  RowsInv
<1>1. /\ scenario \in Scenarios /\ statement = "fetching" /\ completing = {}
      /\ onComplete = <<>> /\ pending = <<>> /\ failures = 0 /\ crashed = FALSE
      /\ url = [k \in Chunks |-> IF k <= Shift THEN None ELSE k]
      /\ rows = [k \in Chunks |-> IF k <= Shift THEN k ELSE None]
      /\ fetch = [k \in Chunks |-> None]
      /\ listeners = [k \in Chunks |-> <<>>]
      /\ stream \in [scenario.streams -> {NewStream(w) : w \in scenario.windows}]
  BY DEF Init
<1>2. \A w \in scenario.windows : w \in [start : Int, end : Int]
  BY <1>1, ScenarioAssumption
<1>3. ASSUME NEW s \in scenario.streams
      PROVE  \E w \in scenario.windows : stream[s] = NewStream(w)
  BY <1>1
<1>4. ASSUME NEW w \in scenario.windows
      PROVE  NewStream(w) \in StreamState
  <2>1. /\ <<>> \in Seq(0..(Returned - 1)) /\ None \in Nat /\ None \in Chunks \cup {None}
        /\ 0 \in 0..StreamInterrupts /\ 0 \in Nat /\ w \in [start : Int, end : Int]
    BY <1>2, ResultAssumption DEF None
  <2> QED
    BY ONLY <2>1 DEF NewStream, StreamState
<1>5. TypeOK
  <2>1. stream \in [scenario.streams -> StreamState]
    BY <1>1, <1>4
  <2>2. \A s \in scenario.streams : stream[s].index # 0 => stream[s].index < Len(stream[s].buffer)
    <3>1. ASSUME NEW s \in scenario.streams
          PROVE  stream[s].index = 0
      <4>1. PICK w : stream[s] = NewStream(w)
        BY <1>3
      <4> QED
        BY ONLY <4>1 DEF NewStream
    <3> QED
      BY <3>1
  <2>3. /\ url \in [Chunks -> Chunks \cup {None}] /\ rows \in [Chunks -> Chunks \cup {None}]
        /\ fetch \in [Chunks -> Chunks \cup {None}] /\ completing \subseteq Chunks
        /\ listeners \in [Chunks -> Seq(scenario.streams)]
        /\ onComplete \in Seq(scenario.streams) /\ pending \in Seq(Callback)
        /\ failures \in 0..MaxFailures /\ crashed \in BOOLEAN
    <3>1. \A S : <<>> \in Seq(S)
      OBVIOUS
    <3>2. listeners \in [Chunks -> Seq(scenario.streams)]
      BY ONLY <1>1, <3>1
    <3>3. url \in [Chunks -> Chunks \cup {None}] /\ rows \in [Chunks -> Chunks \cup {None}]
          /\ fetch \in [Chunks -> Chunks \cup {None}]
      BY ONLY <1>1
    <3>4. failures \in 0..MaxFailures
      BY ONLY <1>1, ResultAssumption
    <3> QED
      BY ONLY <1>1, <3>1, <3>2, <3>3, <3>4
  <2> QED
    BY <1>1, <2>1, <2>2, <2>3 DEF TypeOK
<1>6. /\ \A s : Calls(s) = {} /\ Queued(s) = {}
      /\ \A s, k : k \in Chunks => Waits(s, k) = {}
      /\ \A k : Loads(k) = {}
      /\ \A s : OnceInv(s)
      /\ \A k : Single(pending, {CompleteLoad(k)})
  BY <1>1, WithinEmpty DEF Calls, Queued, Waits, Loads, OnceInv
<1>7. ASSUME NEW s \in scenario.streams
      PROVE  StreamInv(s)
  <2>1. PICK w \in scenario.windows : stream[s] = NewStream(w)
    BY <1>3
  <2>2. /\ stream[s].phase = "idle" /\ stream[s].window = w /\ ~stream[s].initialized
        /\ stream[s].current = None /\ stream[s].buffer = <<>> /\ stream[s].previous = None
        /\ stream[s].interrupts = 0 /\ stream[s].refreshing = "no" /\ stream[s].out = <<>>
    BY <2>1 DEF NewStream
  <2>3. Stage(s)
    BY <2>2 DEF Stage
  <2>4. InterruptInv(s) /\ PushedInv(s) /\ Position(s)
    BY <1>1, <1>6, <2>2 DEF InterruptInv, PushedInv, Position
  <2>5. CallInv(s) /\ QueuedInv(s) /\ ListenInv(s) /\ RefreshInv(s)
    BY <1>6, <2>2 DEF CallInv, QueuedInv, ListenInv, RefreshInv
  <2> QED
    BY <1>6, <2>3, <2>4, <2>5 DEF StreamInv, WaitInv
<1>8. ASSUME NEW k \in Chunks
      PROVE  ChunkInv(k)
  <2>1. fetch[k] = None /\ url[k] = (IF k <= Shift THEN None ELSE k)
        /\ rows[k] = (IF k <= Shift THEN k ELSE None)
    BY <1>1
  <2>2. LoadInv(k)
    BY <1>1, <1>6, <2>1 DEF LoadInv
  <2>3. Own(k) /\ Held(k)
    BY <2>1 DEF Own, Held
  <2> QED
    BY <2>2, <2>3 DEF ChunkInv
<1> QED
  BY <1>5, <1>7, <1>8 DEF RowsInv

\* Every step keeps the invariant.
LEMMA RowsInvStep ==
    ASSUME RowsInv, [Next]_vars
    PROVE  RowsInv'
<1>1. CASE UNCHANGED vars
  <2>1. /\ scenario' = scenario /\ statement' = statement /\ url' = url /\ rows' = rows /\ fetch' = fetch
        /\ completing' = completing /\ listeners' = listeners /\ onComplete' = onComplete
        /\ pending' = pending /\ stream' = stream /\ failures' = failures /\ crashed' = crashed
    BY <1>1 DEF vars, chunkVars
  <2>2. TypeOK'
    BY <2>1, Constant DEF RowsInv, TypeOK
  <2>3. ASSUME NEW s \in scenario.streams
        PROVE  StreamInv(s)'
    <3>1. StreamInv(s)
      BY DEF RowsInv
    <3>2. /\ Calls(s)' = Calls(s) /\ Queued(s)' = Queued(s)
          /\ \A k : Waits(s, k)' = Waits(s, k)
      BY <2>1, Constant DEF Calls, Queued, Waits
    <3>3. Stage(s)' /\ PushedInv(s)'
      BY <2>1, <3>1, Constant DEF StreamInv, Stage, PushedInv
    <3>4. InterruptInv(s)'
      BY <2>1, <3>1, <3>2, Constant DEF StreamInv, InterruptInv
    <3>5. ~crashed => CallInv(s)'
      BY <2>1, <3>1, <3>2, Constant DEF StreamInv, CallInv
    <3>6. ~crashed => Position(s)'
      BY <2>1, <3>1, <3>2, Constant DEF StreamInv, Position
    <3>7. ~crashed => OnceInv(s)'
      BY <2>1, <3>1, Constant DEF StreamInv, WaitInv, OnceInv
    <3>8. ~crashed => QueuedInv(s)' /\ ListenInv(s)'
      BY <2>1, <3>1, <3>2, Constant DEF StreamInv, WaitInv, QueuedInv, ListenInv
    <3>9. ~crashed => RefreshInv(s)'
      BY <2>1, <3>1, <3>2, Constant DEF StreamInv, WaitInv, RefreshInv
    <3> QED
      BY <2>1, <3>3, <3>4, <3>5, <3>6, <3>7, <3>8, <3>9 DEF StreamInv, WaitInv
  <2>4. ASSUME NEW k \in Chunks
        PROVE  ChunkInv(k)'
    <3>1. ChunkInv(k)
      BY DEF RowsInv
    <3>2. CompleteLoad(k)' = CompleteLoad(k)
      BY DEF CompleteLoad
    <3>3. LoadInv(k)'
      BY <2>1, <3>1, <3>2 DEF ChunkInv, LoadInv, Loads
    <3>4. Own(k) => Own(k)'
      BY <2>1, Constant DEF Own
    <3>5. \A s : WillLoad(s, k)' <=> WillLoad(s, k)
      BY <2>1, Constant DEF WillLoad
    <3>6. \A s : Keeps(s, k)' <=> Keeps(s, k)
      BY <2>1, <3>5 DEF Keeps
    <3>7. \A s : OnData(s, k)' = OnData(s, k) /\ Calls(s)' = Calls(s)
      BY <2>1, Constant DEF OnData, Calls
    <3>8. \A s : Fetches(s, k)' <=> Fetches(s, k)
      BY <3>5, <3>7 DEF Fetches
    <3>9. Held(k) => Held(k)'
      BY <2>1, <3>6, <3>8 DEF Held
    <3> QED
      BY <3>1, <3>3, <3>4, <3>9, <2>1, Constant DEF ChunkInv
  <2> QED
    BY <2>1, <2>2, <2>3, <2>4, Constant DEF RowsInv
<1>2. CASE Next
  <2>1. scenario' = scenario
    BY <1>2 DEF Next
  <2>2. CASE completeLoad
    BY <2>1, <2>2, CompleteLoadStep
  <2>3. CASE pushRows
    BY <2>1, <2>3, PushRowsStep
  <2>4. CASE init
    BY <2>1, <2>4, InitStep
  <2>5. CASE onResultStreamData
    BY <2>1, <2>5, OnDataStep
  <2>6. CASE onResultStreamClose
    BY <2>1, <2>6, OnCloseStep
  <2>7. ASSUME NEW s \in scenario.streams, read(s)
        PROVE  RowsInv'
    BY <2>1, <2>7, ReadStep
  <2>8. ASSUME NEW k \in Chunks, chunkArrives(k)
        PROVE  RowsInv'
    BY <2>1, <2>8, ChunkArrivesStep
  <2>9. ASSUME NEW k \in Chunks, NEW err \in scenario.faults \cap {"forbidden", "other"}, chunkFails(k, err)
        PROVE  RowsInv'
    BY <2>1, <2>9, ChunkFailsStep
  <2>10. ASSUME NEW outcome \in Outcomes, statementCompletes(outcome)
         PROVE  RowsInv'
    BY <2>1, <2>10, CompletesStep
  <2>11. ASSUME NEW s \in scenario.streams, refreshed(s)
         PROVE  RowsInv'
    BY <2>1, <2>11, RefreshedStep
  <2>12. ASSUME NEW s \in scenario.streams, NEW outcome \in {"transient", "fatal"}, refreshFails(s, outcome)
         PROVE  RowsInv'
    BY <2>1, <2>12, RefreshFailsStep
  <2> QED
    BY ONLY <1>2, <2>2, <2>3, <2>4, <2>5, <2>6, <2>7, <2>8, <2>9, <2>10, <2>11, <2>12 DEF Next
<1> QED
  BY <1>1, <1>2

\* The inductive invariant holds of every behaviour of the streams: each stream waits for
\* one thing at a time, has pushed a beginning of its window, and every chunk in memory is
\* still wanted.
THEOREM RowStreamsInvariant == Spec => []RowsInv
BY RowsInvInit, RowsInvStep, PTL DEF Spec

\* The variables of the streams and of the chunks they share hold values of their
\* kind, and the index into a row buffer (rowstream's rowIndex) stays inside it.
THEOREM RowStreamsTypes == Spec => []TypeOK
<1>1. RowsInv => TypeOK
  BY DEF RowsInv
<1> QED
  BY <1>1, RowStreamsInvariant, PTL

\* The first n of consecutive rows.
LEMMA FirstRows ==
    ASSUME NEW a \in Int, NEW b \in Int, NEW n \in Int, 0 <= n, n <= b - a + 1
    PROVE  SubSeq(RowsFrom(a, b), 1, n) = RowsFrom(a, a + n - 1)
<1>1. 1 \in Int /\ 1 <= 1 /\ 1 <= n + 1
  OBVIOUS
<1>2. PICK i : i = 1
  OBVIOUS
<1>3. SubSeq(RowsFrom(a, b), i, n) = RowsFrom(a + i - 1, a + n - 1)
  BY <1>1, <1>2, SubRows, ZenonT(60)
<1>4. a + i - 1 = a
  BY <1>2
<1> QED
  BY <1>2, <1>3, <1>4

\* The rows from a on are a beginning of those from a to b.
LEMMA RowsPrefix ==
    ASSUME NEW a \in Int, NEW b \in Int, NEW c \in Int, a <= b + 1, b <= c
    PROVE  IsPrefix(RowsFrom(a, b), RowsFrom(a, c))
<1>1. a <= c + 1
  OBVIOUS
<1>2. PICK p, q : p = RowsFrom(a, b) /\ q = RowsFrom(a, c)
  OBVIOUS
<1>3. Len(p) = b - a + 1 /\ Len(q) = c - a + 1
  BY <1>1, <1>2, RowsFromFacts
<1>4. PICK n : n = b - a + 1
  OBVIOUS
<1>5. n \in Int /\ 0 <= n /\ n <= b - a + 1 /\ n <= c - a + 1
  BY <1>4
<1>6. SubSeq(p, 1, n) = RowsFrom(a, a + n - 1)
  BY ONLY <1>2, <1>5, a \in Int, b \in Int, FirstRows
<1>7. SubSeq(q, 1, n) = RowsFrom(a, a + n - 1)
  BY ONLY <1>2, <1>5, a \in Int, c \in Int, FirstRows
<1>8. Len(p) <= Len(q)
  BY <1>3
<1>9. SubSeq(p, 1, Len(p)) = SubSeq(q, 1, Len(p))
  BY ONLY <1>3, <1>4, <1>6, <1>7
<1> QED
  BY ONLY <1>2, <1>8, <1>9 DEF IsPrefix

\* The invariant says that rows come in order.
LEMMA InOrder ==
    ASSUME RowsInv
    PROVE  RowsInOrder
<1>1. SUFFICES ASSUME Sound, NEW s \in scenario.streams
               PROVE  /\ IsPrefix(stream[s].out, Asked(s))
                      /\ stream[s].phase = "ended" => stream[s].out = Asked(s)
  BY DEF RowsInOrder, Sound
<1>2. TypeOK /\ Stage(s) /\ PushedInv(s)
  BY DEF RowsInv, StreamInv
<1>3. PICK w, v, x, y, a, b : /\ w = stream[s].window /\ v = Clip(w) /\ x = w.start /\ y = w.end
                              /\ a = v.start /\ b = v.end
  OBVIOUS
<1>4. x \in Int /\ y \in Int /\ Returned \in Nat /\ Len(stream[s].out) \in Nat
  BY <1>2, <1>3, WindowTypes
<1>5. a = (IF x < 0 THEN 0 ELSE x) /\ b = (IF y >= Returned THEN Returned - 1 ELSE y)
  BY <1>3 DEF Clip
<1>6. Asked(s) = RowsFrom(a, b) /\ a \in Int /\ b \in Int
  <2>1. Asked(s) = RowsFrom(a, b)
    BY <1>3 DEF Asked
  <2> QED
    BY ONLY <1>4, <1>5, <2>1
<1>7. CASE stream[s].current = None
  <2>1. stream[s].out = <<>> /\ (stream[s].phase = "ended" => x > y)
    BY <1>2, <1>3, <1>7 DEF Stage
  <2>2. IsPrefix(<<>>, RowsFrom(a, b))
    <3>1. 0 <= Len(RowsFrom(a, b))
      <4>1. PICK n : n = IF b - a + 1 >= 0 THEN b - a + 1 ELSE 0
        OBVIOUS
      <4>2. n \in Nat /\ 1..(b - a + 1) = 1..n
        BY ONLY <1>6, <4>1
      <4>3. RowsFrom(a, b) = [i \in 1..n |-> a + i - 1]
        BY ONLY <4>2 DEF RowsFrom
      <4>4. RowsFrom(a, b) \in [1..n -> Int]
        BY ONLY <1>6, <4>2, <4>3
      <4>5. RowsFrom(a, b) \in Seq(Int)
        BY ONLY <4>2, <4>4, SeqDef
      <4>6. Len(RowsFrom(a, b)) \in Nat
        BY ONLY <4>5, LenProperties
      <4> QED
        BY ONLY <4>6
    <3>2. \A q : SubSeq(q, 1, 0) = <<>>
      BY SubSeqEmpty
    <3>3. Len(<<>>) = 0
      OBVIOUS
    <3> QED
      BY ONLY <3>1, <3>2, <3>3 DEF IsPrefix
  <2>3. x > y => RowsFrom(a, b) = <<>>
    <3>1. x > y => b - a + 1 <= 0
      BY ONLY <1>4, <1>5
    <3>2. x > y => 1..(b - a + 1) = {}
      BY ONLY <1>6, <3>1
    <3> QED
      BY ONLY <3>2 DEF RowsFrom
  <2> QED
    BY <1>6, <2>1, <2>2, <2>3
<1>8. CASE stream[s].current # None
  <2>1. 0 <= x /\ x <= y /\ y < Returned
    BY <1>2, <1>3, <1>8 DEF Stage
  <2>2. a = x /\ b = y
    BY ONLY <1>4, <1>5, <2>1
  <2>3. PICK o, n : o = stream[s].out /\ n = Len(stream[s].out)
    OBVIOUS
  <2>4. o = RowsFrom(x, x + n - 1) /\ x + n <= y + 1 /\ (stream[s].phase = "ended" => x + n = y + 1)
    BY <1>1, <1>2, <1>3, <1>8, <2>3 DEF PushedInv
  <2>5. PICK m : m = x + n - 1
    OBVIOUS
  <2>6. m \in Int /\ x <= m + 1 /\ m <= y /\ (stream[s].phase = "ended" => m = y)
    <3>1. n \in Nat
      BY ONLY <1>4, <2>3
    <3>2. x + n <= y + 1 /\ (stream[s].phase = "ended" => x + n = y + 1)
      BY ONLY <2>4
    <3>3. m \in Int /\ x <= m + 1 /\ m <= y /\ (x + n = y + 1 => m = y)
      BY ONLY <1>4, <2>5, <3>1, <3>2
    <3> QED
      BY ONLY <3>2, <3>3
  <2>7. IsPrefix(RowsFrom(x, m), RowsFrom(x, y))
    BY ONLY <1>4, <2>6, RowsPrefix
  <2> QED
    BY ONLY <1>6, <2>2, <2>3, <2>4, <2>5, <2>6, <2>7
<1> QED
  BY <1>7, <1>8

\* A row stream pushes the rows of its window in order, none twice and none left out,
\* and ends after the last: for results of any size, any number of streams that share
\* them, and any order of downloads, ticks, 403s and refreshes; two streams need a
\* result without rows in the response, since a refresh moves the urls otherwise.
THEOREM RowsComeInOrder == Spec => []RowsInOrder
BY InOrder, RowStreamsInvariant, PTL

\* Once every stream has ended, no chunk that can be downloaded again is left in
\* memory: what was prefetched has been read, and dropped when the next was.
THEOREM ChunksAreReleased == Spec => []RowsReleased
<1>1. ASSUME RowsInv, (Alone \/ Shift = 0), (\A s \in scenario.streams : stream[s].phase = "ended"),
             NEW k \in Chunks, url[k] # None, rows[k] # None
      PROVE  FALSE
  <2>1. Held(k)
    BY <1>1 DEF RowsInv, ChunkInv, Sound
  <2>2. PICK s \in scenario.streams : Keeps(s, k)
    BY <1>1, <2>1 DEF Held
  <2> QED
    BY <1>1, <2>2 DEF Keeps, WillLoad
<1>2. RowsInv => RowsReleased
  BY <1>1 DEF RowsReleased
<1> QED
  BY <1>2, RowStreamsInvariant, PTL

\* As long as downloads fail with 403 alone, a stream that has begun to read fails only
\* after more of them than onResultStreamClose has refreshes for.
THEOREM InterruptsAreAbsorbed == Spec => []InterruptsAbsorbed
<1>1. RowsInv => InterruptsAbsorbed
  BY DEF RowsInv, StreamInv, InterruptInv, InterruptsAbsorbed
<1> QED
  BY <1>1, RowStreamsInvariant, PTL
=============================================================================
