------------------------------ MODULE Session ------------------------------
(***************************************************************************)
(* A pi session with some of the extensions todo, persona and ask: every   *)
(* event of the session is handled by all that are installed.  The host is *)
(* external; what it does at each event is what the handlers expect of it. *)
(***************************************************************************)
EXTENDS TodoList, Persona, AskReplay

vars == <<treeVars, todoVars, personaVars, askVars>>

TypeOK == TreeTypeOK /\ TodoTypeOK /\ PersonaTypeOK /\ AskTypeOK

Init == TreeInit /\ TodoInit /\ PersonaInit /\ AskInit

(* The event is handled by `handler' if its extension is installed. *)
On(extension, handler, its) == IF extension \in installed THEN handler ELSE UNCHANGED its

(* session_start: a session is resumed, or forked at entry l. *)
Start(l) ==
  /\ ~open
  /\ open' = TRUE /\ leaf' = l
  /\ On("todo", RestoreTodo(entries, l), todoVars)
  /\ On("persona", RestorePersona(entries, l), personaVars)
  /\ On("ask", RestoreAsk(entries, l), askVars)
  /\ UNCHANGED <<installed, entries, running, inTurn>>

(* session_shutdown, or the process dies. *)
Close ==
  /\ open
  /\ open' = FALSE /\ running' = FALSE /\ inTurn' = FALSE
  /\ On("todo", CloseTodo, todoVars)
  /\ On("ask", CloseAsk, askVars)
  /\ UNCHANGED <<installed, entries, leaf, personaVars>>

(* The user is at the prompt: neither a run nor a replayed ask goes on. *)
Idle == open /\ ~running /\ replay # "prompting"

(* session_tree: the user selects entry l, with a summary of what is left. *)
Navigate(l, summarized) ==
  /\ Idle /\ l # leaf
  /\ IF summarized THEN Room(1) /\ AppendAt(l, <<[kind |-> "summary"]>>)
                   ELSE leaf' = l /\ UNCHANGED entries
  /\ On("todo", RestoreTodo(entries', leaf'), todoVars)
  /\ On("persona", NavigatePersona(entries', leaf'), personaVars)
  /\ On("ask", NavigateAsk(entries', leaf'), askVars)
  /\ UNCHANGED <<installed, open, running, inTurn>>

(* before_agent_start and agent_start: the user sends a prompt. *)
Prompt ==
  LET before == IF "persona" \in installed THEN Preface ELSE <<>>
  IN  /\ Idle /\ Room(1 + Len(before))
      /\ AppendAt(leaf, before \o <<[kind |-> "message"]>>)
      /\ running' = TRUE
      /\ On("todo", BeginRunTodo, todoVars)
      /\ UNCHANGED <<installed, open, inTurn, personaVars, askVars>>

(* context: the model is asked for its next response. *)
BeginTurn ==
  /\ running /\ ~inTurn
  /\ inTurn' = TRUE
  /\ On("todo", ContextTodo, todoVars)
  /\ UNCHANGED <<installed, entries, leaf, open, running, personaVars, askVars>>

(* turn_end. *)
EndTurn ==
  /\ inTurn /\ ~Asking
  /\ inTurn' = FALSE
  /\ On("todo", EndTurnTodo, todoVars)
  /\ UNCHANGED <<installed, entries, leaf, open, running, personaVars, askVars>>

(* agent_settled. *)
EndRun ==
  /\ running /\ ~inTurn
  /\ running' = FALSE
  /\ On("todo", SettleTodo, todoVars)
  /\ On("persona", SettlePersona, personaVars)
  /\ On("ask", SettleAsk, askVars)
  /\ UNCHANGED <<installed, entries, leaf, open, inTurn>>

(* session_compact: the context now begins at entry `cut', which is not    *)
(* the result of a tool.                                                   *)
Compact(cut) ==
  LET after == IF "persona" \in installed THEN Postlude ELSE <<>>
  IN  /\ open /\ replay # "prompting" /\ ~inTurn /\ Room(1 + Len(after))
      /\ entries[cut].data.kind \notin {"todo", "result"}
      /\ AppendAt(leaf, <<[kind |-> "compaction", cut |-> cut]>> \o after)
      /\ On("todo", CompactTodo, todoVars)
      /\ On("persona", CompactPersona, personaVars)
      /\ UNCHANGED <<installed, open, running, inTurn, askVars>>

(* A turn that waits for the answer to an ask calls no other tool. *)
TodoStep ==
  /\ "todo" \in installed
  /\ \/ ~Asking /\ \E next \in Proposals : CallTodo(next)
     \/ ClearWidget
  /\ UNCHANGED <<personaVars, askVars>>

PersonaStep ==
  /\ "persona" \in installed
  /\ \/ \E name \in Named : Select(name) \/ (~Asking /\ CallPersona(name))
     \/ DeliverMessage
  /\ UNCHANGED <<todoVars, askVars>>

AskStep ==
  /\ "ask" \in installed
  /\ \/ \E c \in Calls : CallAsk(c)
     \/ \E answer \in Answers \cup {Nothing} : AnswerAsk(answer)
     \/ EscapeReplay
  /\ UNCHANGED <<todoVars, personaVars>>

(* agent_start, without a prompt. *)
ReplayStep ==
  /\ "ask" \in installed
  /\ \E answer \in Answers : AnswerReplay(answer)
  /\ On("todo", SettleTodo, todoVars)
  /\ UNCHANGED <<personaVars>>

Next ==
  \/ \E l \in 0..Len(entries) : Start(l) \/ \E summarized \in BOOLEAN : Navigate(l, summarized)
  \/ Close \/ Prompt \/ BeginTurn \/ EndTurn \/ EndRun
  \/ \E cut \in ContextIn(entries, Branch) : Compact(cut)
  \/ TodoStep \/ PersonaStep \/ AskStep \/ ReplayStep

Spec == Init /\ [][Next]_vars

-----------------------------------------------------------------------------
(* Whatever the user resumes, forks, selects in /tree, compacts or answers *)
(* again, the plan, its widget and the answers to the asks are what the    *)
(* branch says.  So is the persona after a resume, a fork, a compaction    *)
(* and a choice; a jump in /tree to a branch that stores another persona   *)
(* leaves the one in memory (no handler of session_tree), until the next   *)
(* of these.                                                               *)
BranchIsTruth == PlanFollowsBranch /\ WidgetFollowsPlan /\ SelectionSurvives /\ AnswersAgree
=============================================================================
