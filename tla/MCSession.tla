----------------------------- MODULE MCSession -----------------------------
(* One extension at a time, and persona beside ask: a selection may be     *)
(* made while an ask waits for its answer, or is answered again.           *)
EXTENDS Session, TLC

MCMaxEntries == ({"todo"} :> 4) @@ ({"persona"} :> 4) @@ ({"ask"} :> 5) @@ ({"persona", "ask"} :> 4)
MCPhaseOf == [t \in Tasks |-> t]
=============================================================================
