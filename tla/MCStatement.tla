----------------------------- MODULE MCStatement -----------------------------
(***************************************************************************)
(* Small instances of Statement for TLC.                                   *)
(***************************************************************************)
EXTENDS Statement

Kind(k, stream, async, n, inline) ==
    [kind |-> k, stream |-> stream, async |-> async, results |-> n, inline |-> inline]

\* Every way to make a statement with one result, with its rows streamed or aggregated,
\* and with or without rows in the response.
EveryKind ==
    {Kind(k, stream, FALSE, 0, FALSE) : k \in {"stage", "file", "post"}, stream \in BOOLEAN}
    \cup {Kind("row", stream, FALSE, 0, inline) : stream, inline \in BOOLEAN}
    \cup {Kind("row", stream, TRUE, 0, FALSE) : stream \in BOOLEAN}

\* A query whose rows the application fetches itself.
StreamedRows == {Kind("row", TRUE, FALSE, 0, FALSE)}

\* The same with rows in the response.
InlineRows == {Kind("row", TRUE, FALSE, 0, TRUE)}

\* Two queries in a request.
TwoResults == {Kind("row", stream, FALSE, 2, FALSE) : stream \in BOOLEAN}

\* All of them.
EveryStatement == EveryKind \cup TwoResults

\* The chunks of a single query, and of the two of a request.
ChunksOfQueries == <<2, 2, 1>>
=============================================================================
