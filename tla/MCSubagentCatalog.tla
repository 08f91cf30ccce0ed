-------------------------- MODULE MCSubagentCatalog --------------------------
(* Three identifiers and two calls, interchangeable.                       *)
EXTENDS SubagentCatalog, TLC

Symmetry == Permutations(Ids) \cup Permutations(Calls)
=============================================================================
