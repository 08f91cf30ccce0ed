------------------------------ MODULE TodoList ------------------------------
(***************************************************************************)
(* packages/todo/src: the todo tool with its plan (state.ts), the snapshot *)
(* it restores from the branch (persistence.ts), the reminders it adds to  *)
(* the model's context (tool.ts, reminder-cadence.ts) and the widget with  *)
(* its clear timer (widget.ts).  A plan gives each task its status; the    *)
(* summary `workingOn' is there exactly while a task is in progress.       *)
(***************************************************************************)
EXTENDS SessionTree

CONSTANTS
  Tasks,        \* the tasks a plan may have
  PhaseOf,      \* the phase each belongs to
  MinTurns,     \* reminderMinTurns
  MaxTurns,     \* reminderMaxTurns
  MaxPerRun     \* reminderMaxPerRun

ASSUME CadenceAssumption ==
  /\ MinTurns \in Nat /\ MaxTurns \in Nat /\ MaxPerRun \in Nat /\ MinTurns <= MaxTurns
  /\ DOMAIN PhaseOf = Tasks

(* "closed" is completed or cancelled (isTerminalTodo). *)
Statuses == {"absent", "pending", "in_progress", "closed"}
Plans == [Tasks -> Statuses]
EmptyPlan == [t \in Tasks |-> "absent"]

VARIABLES
  plan,        \* the extension's state
  compacted,   \* pendingCompactionContext: the plan it was made of, or Nothing
  turns,       \* reminderCadence.turns
  tokens,      \* reminderCadence.outputTokens reached its limit
  reminders,   \* reminderCadence.remindersThisRun
  interacted,  \* interactedWithTodoThisTurn
  widget,      \* what the widget shows: nothing, open tasks or the final state
  hadOpen,     \* the widget's hadOpenTasks
  clearing,    \* is the widget's terminalClearTimer set?
  unseen       \* history: the turns since the model last saw the plan

cadenceVars == <<turns, tokens, reminders, interacted>>
widgetVars == <<widget, hadOpen, clearing>>
todoVars == <<plan, compacted, cadenceVars, widgetVars, unseen>>

TodoTypeOK ==
  /\ plan \in Plans /\ (compacted = Nothing \/ compacted \in Plans)
  /\ turns \in 0..MaxTurns /\ tokens \in BOOLEAN /\ reminders \in 0..MaxPerRun
  /\ interacted \in BOOLEAN /\ widget \in {"none", "open", "final"}
  /\ hadOpen \in BOOLEAN /\ clearing \in BOOLEAN /\ unseen \in 0..MaxTurns

TodoInit ==
  /\ plan = EmptyPlan /\ compacted = Nothing
  /\ turns = 0 /\ tokens = FALSE /\ reminders = 0 /\ interacted = FALSE
  /\ widget = "none" /\ hadOpen = FALSE /\ clearing = FALSE /\ unseen = 0

Present(p) == {t \in Tasks : p[t] # "absent"}
Open(p) == {t \in Tasks : p[t] \in {"pending", "in_progress"}}

(* assertTodoState(): the tasks in progress belong to one phase. *)
Valid(p) ==
  \A s, t \in Tasks : p[s] = "in_progress" /\ p[t] = "in_progress" => PhaseOf[s] = PhaseOf[t]

(* transitionTodoState(): what set, add and transition ask for. *)
Proposals ==
     {[t \in Tasks |-> IF t \in T THEN "pending" ELSE "absent"] : T \in (SUBSET Tasks) \ {{}}}
  \cup {[t \in Tasks |-> IF t \in T THEN "pending" ELSE plan[t]] :
          T \in SUBSET (Tasks \ Present(plan))}
  \cup {p \in Plans : Present(p) = Present(plan)}

(* restoreTodoState() at entry l of log. *)
Snapshot(log, l) ==
  LET last == LastOf(log, PathIn(log, l), "todo")
  IN  IF last = 0 THEN EmptyPlan ELSE log[last].data.plan

(* updateTodoWidget(): the final state shows for a while, and only if open *)
(* tasks were shown before.                                                *)
UpdateWidget(p) ==
  LET final == Present(p) # {} /\ Open(p) = {} /\ (hadOpen \/ clearing)
  IN  /\ widget' = IF Open(p) # {} THEN "open" ELSE IF final THEN "final" ELSE "none"
      /\ hadOpen' = (Open(p) # {})
      /\ clearing' = final

(* Mistake: /tree keeps the plan of the branch that was left. *)
RestoreTodoStale(log, l) ==
  /\ plan' = plan
  /\ UpdateWidget(plan)
  /\ compacted' = Nothing
  /\ turns' = 0 /\ tokens' = FALSE /\ reminders' = 0 /\ interacted' = FALSE
  /\ UNCHANGED unseen

(* session_start and session_tree. *)
RestoreTodo(log, l) ==
  /\ plan' = Snapshot(log, l)
  /\ UpdateWidget(plan')
  /\ compacted' = Nothing
  /\ turns' = 0 /\ tokens' = FALSE /\ reminders' = 0 /\ interacted' = FALSE
  /\ UNCHANGED unseen

(* Mistake: the compaction does not restart the count of turns. *)
CompactTodoCounting ==
  /\ compacted' = IF Present(plan) = {} THEN Nothing ELSE plan
  /\ UNCHANGED <<plan, cadenceVars, widgetVars, unseen>>

(* session_compact. *)
CompactTodo ==
  /\ compacted' = IF Present(plan) = {} THEN Nothing ELSE plan
  /\ IF compacted' = Nothing THEN UNCHANGED <<turns, tokens>> ELSE turns' = 0 /\ tokens' = FALSE
  /\ UNCHANGED <<plan, reminders, interacted, widgetVars, unseen>>

(* before_agent_start and agent_start. *)
BeginRunTodo ==
  /\ reminders' = 0
  /\ UpdateWidget(plan)
  /\ UNCHANGED <<plan, compacted, turns, tokens, interacted, unseen>>

(* agent_settled. *)
SettleTodo ==
  /\ UpdateWidget(plan)
  /\ UNCHANGED <<plan, compacted, cadenceVars, unseen>>

(* session_shutdown is not handled; the end of the process takes the widget. *)
CloseTodo ==
  /\ \/ UNCHANGED widgetVars
     \/ widget' = "none" /\ hadOpen' = FALSE /\ clearing' = FALSE
  /\ UNCHANGED <<plan, compacted, cadenceVars, unseen>>

(* Mistake: one reminder more than a run may have. *)
DueOnceMore ==
  /\ Open(plan) # {}
  /\ turns >= MinTurns /\ (turns >= MaxTurns \/ tokens) /\ reminders <= MaxPerRun

(* consumeDueReminder(), for a plan with open tasks. *)
Due ==
  /\ Open(plan) # {}
  /\ turns >= MinTurns /\ (turns >= MaxTurns \/ tokens) /\ reminders < MaxPerRun

(* The context event before a response: the plan of a compaction once, or  *)
(* a reminder that is due.                                                 *)
ContextTodo ==
  /\ \/ /\ compacted # Nothing
        /\ compacted' = Nothing /\ unseen' = 0
        /\ UNCHANGED <<turns, tokens, reminders>>
     \/ /\ compacted = Nothing /\ Due
        /\ turns' = 0 /\ tokens' = FALSE /\ reminders' = reminders + 1 /\ unseen' = 0
        /\ UNCHANGED compacted
     \/ /\ compacted = Nothing /\ ~Due
        /\ UNCHANGED <<compacted, turns, tokens, reminders, unseen>>
  /\ UNCHANGED <<plan, interacted, widgetVars>>

(* The todo tool runs: the plan changes as a whole or, if what is asked    *)
(* for is not valid, not at all.                                           *)
CallTodo(next) ==
  /\ inTurn /\ Room(1)
  /\ IF Valid(next)
     THEN /\ AppendAt(leaf, <<[kind |-> "todo", plan |-> next]>>)
          /\ plan' = next /\ interacted' = TRUE /\ unseen' = 0
          /\ UpdateWidget(next)
     ELSE /\ AppendAt(leaf, <<[kind |-> "message"]>>)
          /\ UNCHANGED <<plan, interacted, unseen, widgetVars>>
  /\ UNCHANGED <<installed, open, running, inTurn, compacted, turns, tokens, reminders>>

Capped(n) == IF n < MaxTurns THEN n + 1 ELSE n

(* turn_end: counts the turn, unless the plan was touched in it. *)
EndTurnTodo ==
  /\ IF interacted THEN turns' = 0 /\ tokens' = FALSE
     ELSE turns' = Capped(turns) /\ tokens' \in {tokens, TRUE}
  /\ interacted' = FALSE /\ unseen' = Capped(unseen)
  /\ UNCHANGED <<plan, compacted, reminders, widgetVars>>

(* The widget's clear timer. *)
ClearWidget ==
  /\ clearing
  /\ clearing' = FALSE /\ hadOpen' = FALSE /\ widget' = "none"
  /\ UNCHANGED <<treeVars, plan, compacted, cadenceVars, unseen>>

-----------------------------------------------------------------------------
(* The plan, and the plan that waits to be shown after a compaction, are   *)
(* those of the branch, through /tree, forks, restarts and compactions.    *)
PlanFollowsBranch ==
  open => /\ plan = Snapshot(entries, leaf)
          /\ compacted \in {Nothing, plan}

(* Open tasks are always on display and never about to be cleared, and the *)
(* final state never stays: it is on display only while its timer runs.    *)
WidgetFollowsPlan ==
  open => /\ widget = "open" <=> Open(plan) # {}
          /\ widget = "final" <=> clearing

(* A reminder comes only MinTurns after the model last saw the plan, be it *)
(* by a call, by a reminder or by what follows a compaction.               *)
RemindersSpaced == [][reminders' > reminders => unseen >= MinTurns]_todoVars
=============================================================================
