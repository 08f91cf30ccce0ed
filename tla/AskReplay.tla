----------------------------- MODULE AskReplay -----------------------------
(***************************************************************************)
(* packages/ask/src/index.ts and session.ts: an ask of the past is         *)
(* answered again when /tree selects it, the new answer is recorded on the *)
(* branch and replaces the old one in what the terminal shows and in what  *)
(* the model's context is rewritten to.                                    *)
(***************************************************************************)
EXTENDS SessionTree

CONSTANTS
  Calls,     \* the tool calls of ask, each the only call of its message
  Answers    \* what a user may answer

ASSUME AnswersAssumption == Nothing \notin Answers

VARIABLES
  revised,   \* revisedAnswers: the answer by call
  replay,    \* replayState.status
  target     \* the call that is answered again

askVars == <<revised, replay, target>>

Unrevised == [c \in Calls |-> Nothing]

AskTypeOK ==
  /\ revised \in [Calls -> Answers \cup {Nothing}]
  /\ replay \in {"idle", "prompting", "dispatched"}
  /\ target \in Calls \cup {Nothing}

AskInit == revised = Unrevised /\ replay = "idle" /\ target = Nothing

(* The entries of the branch that the tool call of an ask may wait below:  *)
(* what a user does meanwhile is appended as well.                         *)
Settled == {j \in Branch : entries[j].data.kind # "selection"}

(* Does the turn wait for the answer to the call at entry j? *)
AsksAt(j) == inTurn /\ j \in Settled /\ (\A i \in Settled : i <= j) /\ entries[j].data.kind = "call"

Asking == \E j \in Branch : AsksAt(j)

(* The entries of `path' in log that are of kind k and about call c. *)
AboutCall(log, path, k, c) == {j \in path : log[j].data.kind = k /\ log[j].data.call = c}

(* The answer the last of the entries `found' of log gives. *)
LastAnswer(log, found) ==
  IF found = {} THEN Nothing ELSE log[CHOOSE j \in found : \A i \in found : i <= j].data.answer

(* restoreRevisions(). *)
Revisions(log, l) ==
  [c \in Calls |-> LastAnswer(log, AboutCall(log, PathIn(log, l), "replay", c))]

(* session_start. *)
RestoreAsk(log, l) ==
  /\ revised' = Revisions(log, l)
  /\ UNCHANGED <<replay, target>>

(* resolveAskReplayTarget(): the ask at entry l, or below a summary at l. *)
ReplayTarget(log, l) ==
  LET kind(j) == IF j = 0 THEN "none" ELSE log[j].data.kind
      at == IF kind(l) = "summary" THEN log[l].parent ELSE l
      of == IF kind(at) = "result" THEN log[at].parent ELSE at
  IN  IF kind(of) = "call" /\ (at = of \/ log[at].data.call = log[of].data.call)
      THEN log[of].data.call ELSE Nothing

(* session_tree: asks again what was selected. *)
NavigateAsk(log, l) ==
  LET c == ReplayTarget(log, l)
  IN  IF replay # "idle" THEN UNCHANGED askVars
      ELSE /\ revised' = Revisions(log, l)
           /\ replay' = IF c = Nothing THEN "idle" ELSE "prompting"
           /\ target' = c

(* session_shutdown. *)
CloseAsk == revised' = Unrevised /\ replay' = "idle" /\ target' = Nothing

(* agent_settled. *)
SettleAsk ==
  /\ replay' = IF replay = "dispatched" THEN "idle" ELSE replay
  /\ target' = IF replay = "dispatched" THEN Nothing ELSE target
  /\ UNCHANGED revised

(* The model asks: the call is recorded and the run waits for the user. *)
CallAsk(c) ==
  /\ inTurn /\ ~Asking /\ Room(2)
  /\ \A j \in 1..Len(entries) : entries[j].data.kind = "call" => entries[j].data.call # c
  /\ AppendAt(leaf, <<[kind |-> "call", call |-> c]>>)
  /\ UNCHANGED <<installed, open, running, inTurn, askVars>>

(* The user answers, or does not: cancelled, timed out, or the run aborts. *)
AnswerAsk(answer) ==
  /\ Room(1)
  /\ \E j \in Branch :
       /\ AsksAt(j)
       /\ AppendAt(leaf, <<[kind |-> "result", call |-> entries[j].data.call, answer |-> answer]>>)
  /\ UNCHANGED <<installed, open, running, inTurn, askVars>>

(* The user answers again: the answer is recorded and starts a run. *)
AnswerReplay(answer) ==
  /\ replay = "prompting" /\ Room(1)
  /\ AppendAt(leaf, <<[kind |-> "replay", call |-> target, answer |-> answer]>>)
  /\ running' = TRUE
  /\ revised' = [revised EXCEPT ![target] = answer]
  /\ replay' = "dispatched"
  /\ UNCHANGED <<installed, open, inTurn, target>>

(* The user escapes, or the deadline passes. *)
EscapeReplay ==
  /\ replay = "prompting"
  /\ replay' = "idle" /\ target' = Nothing
  /\ UNCHANGED <<treeVars, revised>>

-----------------------------------------------------------------------------
(* renderResult(): what the terminal shows for the result of call c. *)
Shown(c) ==
  IF revised[c] # Nothing THEN revised[c]
  ELSE LastAnswer(entries, AboutCall(entries, Branch, "result", c))

(* rewriteAskContext(): what the model reads in the place of call c; with  *)
(* two records of an answer it would read the whole exchange.              *)
Rewritten(c) ==
  LET context == ContextIn(entries, Branch)
      again == AboutCall(entries, context, "replay", c)
  IN  IF again # {} THEN LastAnswer(entries, again)
      ELSE LastAnswer(entries, AboutCall(entries, context, "result", c))

(* The user and the model see the same answer to every ask in the context, *)
(* the last one given on this branch, and the model sees only that one.    *)
AnswersAgree ==
  open => \A c \in Calls :
    LET context == ContextIn(entries, Branch)
    IN  AboutCall(entries, context, "call", c) # {} =>
          /\ Cardinality(AboutCall(entries, context, "replay", c)) <= 1
          /\ AboutCall(entries, context, "result", c) # {} => Shown(c) = Rewritten(c)
=============================================================================
