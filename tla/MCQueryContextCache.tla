------------------------- MODULE MCQueryContextCache -------------------------
(***************************************************************************)
(* Small instances of QueryContextCache for TLC.                           *)
(***************************************************************************)
EXTENDS QueryContextCache

IdSymmetry == Permutations(Ids)

=============================================================================
