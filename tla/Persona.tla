------------------------------ MODULE Persona ------------------------------
(***************************************************************************)
(* packages/persona/src: the active persona and the baseline the system    *)
(* prompt carries (state.ts), stored on the branch, and the messages that  *)
(* tell the model of a change (index.ts, tool.ts).  What the model was     *)
(* told last is read from the context of its next response.                *)
(***************************************************************************)
EXTENDS SessionTree

CONSTANT Personas   \* the names a configuration may have

VARIABLES
  active,     \* PersonaStateManager.active
  baseline,   \* PersonaStateManager.baseline
  known,      \* config: the names configured when the session was opened
  unsent,     \* messages sent during a run that wait for the end of the turn
  carried     \* history: since the selection, /tree led to a branch with another

personaVars == <<active, baseline, known, unsent, carried>>

Named == Personas \cup {Nothing}

PersonaTypeOK ==
  /\ active \in Named /\ baseline \in Named /\ known \subseteq Personas
  /\ unsent \in Seq(Named) /\ carried \in BOOLEAN

PersonaInit ==
  /\ active = Nothing /\ baseline = Nothing /\ known = {}
  /\ unsent = <<>> /\ carried = FALSE

(* The selection stored last on the branch that ends at entry l of log. *)
Stored(log, l) ==
  LET last == LastOf(log, PathIn(log, l), "selection")
  IN  IF last = 0 THEN [active |-> Nothing, baseline |-> Nothing]
      ELSE [active |-> log[last].data.active, baseline |-> log[last].data.baseline]

(* restore() clears a name that is no longer configured. *)
Configured(name, names) == IF name \in names THEN name ELSE Nothing

(* session_start. *)
RestorePersona(log, l) ==
  /\ known' \in SUBSET Personas
  /\ active' = Configured(Stored(log, l).active, known')
  /\ baseline' = Configured(Stored(log, l).baseline, known')
  /\ unsent' = <<>> /\ carried' = FALSE

(* hasConversation(). *)
HasConversation == \E j \in Branch : entries[j].data.kind # "selection"

Selection(a, b) == [kind |-> "selection", active |-> a, baseline |-> b]

(* applySelection(): the baseline follows only before the first turn. *)
ApplySelection(name) ==
  /\ active' = name
  /\ baseline' = IF HasConversation THEN baseline ELSE name
  /\ carried' = FALSE
  /\ AppendAt(leaf, <<Selection(active', baseline')>>)

(* What the model is told last on `path', by a message or by the prompt. *)
ToldLast(log, path, base) ==
  LET told == LastOf(log, ContextIn(log, path), "told")
  IN  IF told = 0 THEN base ELSE log[told].data.name

(* Mistake: forgets what the system prompt says. *)
CommunicatedNameByMessage == ToldLast(entries, Branch, Nothing)

(* communicatedName(buildContextEntries()). *)
CommunicatedName == ToldLast(entries, Branch, baseline)

(* communicatePersona(): the messages it sends of persona `name'. *)
Messages(name) ==
  IF CommunicatedName = name THEN <<>> ELSE <<[kind |-> "told", name |-> name]>>

(* /persona and Alt+[ and Alt+], which work during a run as well. *)
Select(name) ==
  /\ open /\ Room(1) /\ name \in known \cup {Nothing}
  /\ ApplySelection(name)
  /\ UNCHANGED <<installed, open, running, inTurn, known, unsent>>

(* The persona tool: what it sends during a run waits for the turn's end. *)
CallPersona(name) ==
  /\ inTurn /\ Room(1) /\ name \in known \cup {Nothing}
  /\ ApplySelection(name)
  /\ unsent' = unsent \o [i \in 1..Len(Messages(name)) |-> name]
  /\ UNCHANGED <<installed, open, running, inTurn, known>>

(* Between turns the message that waits longest is delivered. *)
DeliverMessage ==
  /\ running /\ ~inTurn /\ unsent # <<>> /\ Room(1)
  /\ AppendAt(leaf, <<[kind |-> "told", name |-> Head(unsent)]>>)
  /\ unsent' = Tail(unsent)
  /\ UNCHANGED <<installed, open, running, inTurn, active, baseline, known, carried>>

(* before_agent_start: what it sends is recorded before the prompt is. *)
Preface == Messages(active)

(* session_compact: rebase(), and what persistState() records. *)
CompactPersona ==
  /\ baseline' = active /\ carried' = FALSE
  /\ UNCHANGED <<active, known, unsent>>

Postlude == <<Selection(active, active)>>

(* The end of a run; an abort drops what still waits. *)
SettlePersona ==
  /\ unsent' = <<>>
  /\ UNCHANGED <<active, baseline, known, carried>>

(* No handler of session_tree: the selection stays what it was, whatever   *)
(* the branch that ends at entry l of log stores.                          *)
NavigatePersona(log, l) ==
  /\ carried' = (carried \/ Stored(log, l).active # Stored(entries, leaf).active)
  /\ UNCHANGED <<active, baseline, known, unsent>>

-----------------------------------------------------------------------------
(* The active persona is the one the branch stores, or none if that one is *)
(* no longer configured.                                                   *)
Kept ==
  LET stored == Stored(entries, leaf).active
  IN  active = stored \/ (active = Nothing /\ stored \notin known)

(* While a session is open, the selection is the one its branch stores, so *)
(* that whoever opens the branch again finds it.  It is exempt from where  *)
(* /tree led to a branch that stores another one, which no handler reads,  *)
(* to the next selection, compaction or session_start: SelectionOnBranch   *)
(* is the claim without the exemption, and fails.                          *)
SelectionSurvives == open => carried \/ Kept

(* A prompt is answered under the active persona, whatever compactions,    *)
(* switches, /tree and restarts came before it.                            *)
PromptedAsActive ==
  [][~running /\ running' /\ entries'[leaf'].data.kind = "message" =>
       ToldLast(entries', PathIn(entries', leaf'), baseline') = active']_<<treeVars, personaVars>>

(* persona/README.md: "Selection is stored on the current session branch   *)
(* and restored when that branch is resumed or forked."                    *)
SelectionOnBranch == open => Kept
=============================================================================
