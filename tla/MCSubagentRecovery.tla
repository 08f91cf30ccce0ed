-------------------------- MODULE MCSubagentRecovery --------------------------
EXTENDS SubagentRecovery, TLC

CONSTANTS top, inner, side, root

MCIds == {top, inner, side}

(* The root agent starts top and side; top starts inner. *)
MCParent == (top :> root) @@ (inner :> top) @@ (side :> root)
=============================================================================
