----------------------- MODULE MCSubagentConfiguration -----------------------
EXTENDS SubagentConfiguration

MCModes == <<"auto", "none">>
MCDefaults ==
  [limit |-> 1, notify |-> "auto", policy |-> "projectOverridesUser",
   included |-> Switched, extensions |-> {".md"}]

(* The choice of another process, and one without the user's agents and    *)
(* with a limit that is no number; a file without JSON is what a save      *)
(* leaves behind.                                                          *)
MCWritten ==
  {[limit |-> 2, notify |-> "auto", policy |-> "userOverridesProject",
    included |-> Switched, extensions |-> Extensions],
   [limit |-> Nothing, notify |-> "none", policy |-> "projectOverridesUser",
    included |-> {"project"}, extensions |-> Extensions]}

(* The user defines the agent, in a file without the default extension:    *)
(* the defaults hide it, and so does the second choice.  An edit may add   *)
(* the definition of another source.                                       *)
MCGiven == {[s \in Sources |-> [n \in Names |-> IF s = "user" THEN "valid" ELSE "none"]]}
MCExtensionOf == [s \in Sources |-> [n \in Names |-> ".txt"]]

(* The runs of the command are interchangeable. *)
MCSymmetry == Permutations(Overlays)
=============================================================================
