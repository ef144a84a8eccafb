---------------------------- MODULE MCRowStreams ----------------------------
(***************************************************************************)
(* Small instances of RowStreams for TLC.                                  *)
(***************************************************************************)
EXTENDS RowStreams, TLC

FourChunks == <<1, 2, 1, 1>>

\* All rows; the middle, across and within chunks; the ends; nothing.
ManyWindows ==
    {[start |-> -1, end |-> 9], [start |-> 1, end |-> 3], [start |-> 2, end |-> 2],
     [start |-> 5, end |-> 9], [start |-> -3, end |-> -2]}

\* All rows, and a window that starts inside a chunk.
TwoWindows == {[start |-> 0, end |-> 9], [start |-> 2, end |-> 3]}

\* One stream, with everything that may fail; two, with urls that expire.
OneOrTwo ==
    {[streams |-> {CHOOSE s \in Streams : TRUE}, windows |-> ManyWindows, inline |-> 1,
      faults |-> {"forbidden", "other", "refresh"}],
     [streams |-> Streams, windows |-> TwoWindows, inline |-> 0, faults |-> {"forbidden"}]}

=============================================================================
