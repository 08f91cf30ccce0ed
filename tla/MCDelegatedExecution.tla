------------------------ MODULE MCDelegatedExecution ------------------------
EXTENDS DelegatedExecution, TLC

CONSTANTS p, a, b, c, root

MCTasks == {p, a, b, c}

(* The main session starts p, which starts a and b; b starts c. *)
MCParent == (p :> root) @@ (a :> p) @@ (b :> p) @@ (c :> b)
=============================================================================
