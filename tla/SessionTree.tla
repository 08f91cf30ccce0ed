---------------------------- MODULE SessionTree ----------------------------
(***************************************************************************)
(* What the extensions ask, persona and todo see of a pi session: a tree   *)
(* of entries, of which the path to the leaf is the current branch.  The   *)
(* host appends at the leaf, moves the leaf on /tree, and rebuilds the     *)
(* model's context from the branch, starting at the last compaction.  A    *)
(* parent is appended before its children: a branch is the set of its      *)
(* entries, in the order of their indices.                                 *)
(* The host is external: this is what packages/{ask,persona,todo}/src      *)
(* expect of getBranch(), buildContextEntries() and the session events.    *)
(***************************************************************************)
EXTENDS Integers, Sequences, FiniteSets

CONSTANTS
  MaxEntries,   \* bounds the entries of a session, by the set of extensions
  Nothing       \* an entry has no such field; no persona, no answer

(* The sets of extensions to look at. *)
Installations == DOMAIN MaxEntries

ASSUME SessionAssumption ==
  /\ Installations \subseteq SUBSET {"todo", "persona", "ask"}
  /\ MaxEntries \in [Installations -> Nat]

VARIABLES
  installed, \* the extensions this session has
  entries,   \* the entries, in the order they were appended
  leaf,      \* the current entry, 0 before the first
  open,      \* is the session open?
  running,   \* does the agent run?
  inTurn     \* has the model its context for a turn that has not ended?

treeVars == <<installed, entries, leaf, open, running, inTurn>>

Kinds == {"message", "summary", "compaction", "todo", "selection", "told", "call",
          "result", "replay"}

TreeTypeOK ==
  /\ installed \in Installations
  /\ Len(entries) <= MaxEntries[installed] /\ leaf \in 0..Len(entries)
  /\ \A i \in 1..Len(entries) :
       entries[i].data.kind \in Kinds /\ entries[i].parent \in 0..(i - 1)
  /\ open \in BOOLEAN /\ running \in BOOLEAN /\ inTurn \in BOOLEAN
  /\ (inTurn => running) /\ (running => open)

TreeInit ==
  /\ installed \in Installations
  /\ entries = <<>> /\ leaf = 0 /\ open = FALSE /\ running = FALSE /\ inTurn = FALSE

Room(n) == Len(entries) + n <= MaxEntries[installed]

(* The branch that ends at entry i of log. *)
PathIn(log, i) ==
  LET path[j \in 0..Len(log)] == IF j = 0 THEN {} ELSE path[log[j].parent] \cup {j}
  IN  path[i]

(* getBranch(). *)
Branch == PathIn(entries, leaf)

(* The last entry of kind k on `path' in log, 0 if there is none. *)
LastOf(log, path, k) ==
  LET found == {j \in path : log[j].data.kind = k}
  IN  IF found = {} THEN 0 ELSE CHOOSE j \in found : \A i \in found : i <= j

(* buildContextEntries(): a compaction keeps what follows its cut. *)
ContextIn(log, path) ==
  LET c == LastOf(log, path, "compaction")
  IN  IF c = 0 THEN path ELSE {j \in path : j >= log[c].data.cut /\ j # c}

(* Appends the records rs below entry l of the tree; the last is the leaf. *)
AppendAt(l, rs) ==
  /\ entries' = entries \o [i \in 1..Len(rs) |->
                   [parent |-> IF i = 1 THEN l ELSE Len(entries) + i - 1, data |-> rs[i]]]
  /\ leaf' = IF rs = <<>> THEN l ELSE Len(entries) + Len(rs)
=============================================================================
