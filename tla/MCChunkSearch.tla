---------------------------- MODULE MCChunkSearch ----------------------------
(***************************************************************************)
(* Small instances of ChunkSearch for TLC.                                 *)
(***************************************************************************)
EXTENDS ChunkSearch

CONSTANTS MaxChunks, MaxRows

\* The chunks with the row counts that sizes tells.
ArrayOf(sizes) ==
    LET start[k \in 1..Len(sizes)] == IF k = 1 THEN 0 ELSE start[k - 1] + sizes[k - 1]
    IN  [k \in 1..Len(sizes) |-> [first |-> start[k], last |-> start[k] + sizes[k] - 1]]

SmallArrays == {ArrayOf(sizes) : sizes \in UNION {[1..n -> 1..MaxRows] : n \in 0..MaxChunks}}

AllRequests == [start : -1..(MaxChunks * MaxRows), end : -1..(MaxChunks * MaxRows)]

OrderedRequests == {w \in AllRequests : w.start <= w.end}
=============================================================================
