----------------------------- MODULE ChunkSearch -----------------------------
(***************************************************************************)
(* findOverlappingChunks of lib/connection/result/result.js: the binary    *)
(* search for the first chunk of a result that overlaps with a window of   *)
(* rows, and the collection of the chunks from there on.  The recursion is *)
(* a tail call, so the bounds it passes on are variables.                  *)
(***************************************************************************)
EXTENDS Integers, Sequences

CONSTANTS
    Arrays,   \* the chunks of a result: their first and last rows
    Requests  \* the [start, end] options of streamRows()

\* The number of rows in the chunks a.
RowsIn(a) == IF a = <<>> THEN 0 ELSE a[Len(a)].last + 1

\* createChunks numbers the rows from one chunk to the next; none is empty.
ASSUME ArraysAssumption ==
    \A a \in Arrays :
        /\ a \in Seq([first : Nat, last : Nat])
        /\ \A i \in 1..Len(a) : a[i].first <= a[i].last
        /\ \A i, j \in 1..Len(a) : i < j => a[i].last < a[j].first
        /\ \A r \in 0..(RowsIn(a) - 1) : \E i \in 1..Len(a) : r \in a[i].first..a[i].last

ASSUME RequestsAssumption == Requests \subseteq [start : Int, end : Int]

VARIABLES
    chunks,  \* the array
    request, \* the options
    window,  \* the rows that RowStream makes of the options
    pc,      \* search, collect, done, or thrown
    left,    \* chunkIndexLeft
    right,   \* chunkIndexRight
    index,   \* the index of the first overlapping chunk, then of the next to look at
    found    \* overlappingChunks

searchVars == <<chunks, request, window, pc, left, right, index, found>>

\* RowStream's init: the window stays inside the result.
ClipTo(w, a) ==
    [start |-> IF w.start < 0 THEN 0 ELSE w.start,
     end   |-> IF w.end >= RowsIn(a) THEN RowsIn(a) - 1 ELSE w.end]

LastIndex == Len(chunks) - 1

SearchInit ==
    /\ chunks \in Arrays
    /\ request \in Requests
    /\ window = ClipTo(request, chunks)
    /\ pc = IF Len(chunks) = 0 THEN "done" ELSE "search"
    /\ left = 0
    /\ right = LastIndex
    /\ index = -1
    /\ found = <<>>

\* Chunk.overlapsWithWindow of the chunk at index i.
Overlaps(i) ==
    LET c == chunks[i + 1]
    IN  \/ window.end \in c.first..c.last
        \/ window.start \in c.first..c.last
        \/ window.start <= c.first /\ window.end >= c.last

\* Mutant: the middle is not counted from the left bound.
MiddleFromZero == (right - left) \div 2

Middle == (left + right) \div 2

\* Two chunks are left, or one.
TwoOrFewer == Middle = left \/ Middle = right

checkTwo ==
    /\ pc = "search"
    /\ TwoOrFewer
    /\ index' = IF Overlaps(left) THEN left
                ELSE IF left # right /\ Overlaps(right) THEN right
                ELSE -1
    /\ pc' = "collect"
    /\ UNCHANGED <<chunks, request, window, left, right, found>>

goRight ==
    /\ pc = "search"
    /\ ~TwoOrFewer
    /\ ~Overlaps(Middle) /\ window.start > chunks[Middle + 1].last
    /\ left' = Middle
    /\ UNCHANGED <<chunks, request, window, pc, right, index, found>>

\* Mutant: the chunk before the middle one is not looked at.
IsFirstUnchecked == Overlaps(Middle)

\* The middle chunk overlaps and the one before it does not.
IsFirst == Overlaps(Middle) /\ (Middle # 0 => ~Overlaps(Middle - 1))

goLeft ==
    /\ pc = "search"
    /\ ~TwoOrFewer
    /\ \/ ~Overlaps(Middle) /\ window.start <= chunks[Middle + 1].last
       \/ Overlaps(Middle) /\ ~IsFirst
    /\ right' = Middle
    /\ UNCHANGED <<chunks, request, window, pc, left, index, found>>

middleIsFirst ==
    /\ pc = "search"
    /\ ~TwoOrFewer
    /\ IsFirst
    /\ index' = Middle
    /\ pc' = "collect"
    /\ UNCHANGED <<chunks, request, window, left, right, found>>

\* The loop of findOverlappingChunks.  chunks[-1] is undefined and has no methods.
collect ==
    /\ pc = "collect"
    /\ index \in 0..(Len(chunks) - 1)
    /\ Overlaps(index)
    /\ found' = Append(found, index)
    /\ index' = index + 1
    /\ UNCHANGED <<chunks, request, window, pc, left, right>>

collected ==
    /\ pc = "collect"
    /\ index \in 0..(Len(chunks) - 1) => ~Overlaps(index)
    /\ pc' = IF index = -1 THEN "thrown" ELSE "done"
    /\ UNCHANGED <<chunks, request, window, left, right, index, found>>

SearchNext ==
    \/ checkTwo
    \/ goRight
    \/ goLeft
    \/ middleIsFirst
    \/ collect
    \/ collected

SearchSpec == SearchInit /\ [][SearchNext]_searchVars

SearchFairSpec == SearchSpec /\ WF_searchVars(SearchNext)

-----------------------------------------------------------------------------
(* Properties                                                              *)

\* The bounds and the index stay inside the array.
SearchOK ==
    /\ pc \in {"search", "collect", "done", "thrown"}
    /\ pc = "search" => left \in 0..right /\ right \in 0..(Len(chunks) - 1)
    /\ index \in -1..Len(chunks)
    /\ found \in Seq(0..(Len(chunks) - 1))

\* The search ends with the chunks that have a row of the window, all of them and
\* in order.
FindsOverlapping ==
    pc = "done" /\ window.start <= window.end =>
        /\ \A i \in 0..(Len(chunks) - 1) :
              (\E n \in 1..Len(found) : found[n] = i)
                  <=> chunks[i + 1].first <= window.end /\ chunks[i + 1].last >= window.start
        /\ \A m, n \in 1..Len(found) : m < n => found[m] < found[n]

\* A stream that is opened gets its chunks or learns that there are none: the search
\* does not throw, whatever rows are asked for.
NeverThrows == pc # "thrown"

\* Every call of helper has fewer chunks to look at than its caller.
BoundsShrink ==
    [][pc = "search" /\ pc' = "search" => right' - left' < right - left]_searchVars

\* The search comes to an end.
SearchEnds == <>(pc \in {"done", "thrown"})
=============================================================================
