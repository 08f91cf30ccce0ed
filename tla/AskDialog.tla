----------------------------- MODULE AskDialog -----------------------------
(***************************************************************************)
(* packages/ask/src: one question put to the user, in the terminal         *)
(* (questionnaire.ts, component.ts, state.ts) or through an RPC client     *)
(* (rpc.ts), with its deadline (deadline.ts) and the abort signal of the   *)
(* tool call.  Texts are kept as far as being there: a comment or a draft  *)
(* is TRUE when something is left of it after trim().                      *)
(***************************************************************************)
EXTENDS Integers, FiniteSets

CONSTANTS
  Options,   \* the number of options
  Timeout,   \* settings.timeoutMs, in ticks
  Pages      \* the lines tui.select.pageUp and pageDown move by

ASSUME AskDialogAssumption == {Options, Timeout, Pages} \subseteq Nat \ {0}

Asks == [allowMultiple : BOOLEAN, allowFreeform : BOOLEAN, timeout : BOOLEAN,
         onInput : {"never-reset", "reset", "cancel"}, mode : {"tui", "rpc", "none"}]

Off == Timeout + 1
Choosing == 0   \* the editor is closed; otherwise it is at that row

VARIABLES
  ask,        \* the question and its settings
  stage,      \* "asked", "open" or "ended"
  ticks,      \* the deadline's timer: what is left, or Off
  timedOut,   \* deadline.timedOut
  aborted,    \* is the signal of the tool call aborted?
  row,        \* highlightedRow
  editor,     \* the row whose text is edited, or Choosing
  draft,      \* editor.draft
  checked, comments, written, writtenChecked,   \* the questionnaire's answer so far
  dialog,     \* the RPC dialog that is open
  unasked,    \* the options whose comment is still to be asked for
  answer,     \* what the question returns: an answer or NoAnswer
  outcome,    \* the status of the tool's result
  cause       \* history: what ended the question

deadlineVars == <<ticks, timedOut, aborted>>
formVars == <<row, editor, draft, checked, comments, written, writtenChecked>>
endVars == <<stage, answer, outcome, cause>>
dialogVars == <<ask, deadlineVars, formVars, dialog, unasked, endVars>>

NoAnswer == [selections |-> {}, comments |-> {}, freeform |-> FALSE, given |-> FALSE]
OptionRows == 1..Options

(* createRows(). *)
Rows == Options + (IF ask.allowFreeform THEN 1 ELSE 0) + (IF ask.allowMultiple THEN 1 ELSE 0)
FreeformRow == IF ask.allowFreeform THEN Options + 1 ELSE 0

DialogTypeOK ==
  /\ ask \in Asks /\ stage \in {"asked", "open", "ended"}
  /\ ticks \in 0..Off /\ timedOut \in BOOLEAN /\ aborted \in BOOLEAN
  /\ row \in 1..Rows /\ editor \in 0..(Options + 1) /\ draft \in BOOLEAN
  /\ checked \subseteq OptionRows /\ comments \subseteq OptionRows
  /\ written \in BOOLEAN /\ writtenChecked \in BOOLEAN
  /\ dialog \in {"none", "select", "numbers", "freeform", "comment"}
  /\ unasked \subseteq OptionRows
  /\ answer \in [selections : SUBSET OptionRows, comments : SUBSET OptionRows,
                 freeform : BOOLEAN, given : BOOLEAN]
  /\ outcome \in {"none", "answered", "unanswered", "cancelled", "ui_unavailable"}
  /\ cause \in {"none", "submit", "cancel", "deadline", "abort", "no_ui"}

DialogInit ==
  /\ ask \in Asks /\ stage = "asked"
  /\ ticks = Off /\ timedOut = FALSE /\ aborted = FALSE
  /\ row = 1 /\ editor = Choosing /\ draft = FALSE
  /\ checked = {} /\ comments = {} /\ written = FALSE /\ writtenChecked = FALSE
  /\ dialog = "none" /\ unasked = {}
  /\ answer = NoAnswer /\ outcome = "none" /\ cause = "none"

Tui == stage = "open" /\ ask.mode = "tui"
Armed == ticks # Off

(* Mistake: an aborted call is reported as a question nobody answered. *)
StatusOfSignal(given, late) ==
  IF given THEN "answered" ELSE IF late \/ aborted' THEN "unanswered" ELSE "cancelled"

(* execute(): the status, from what was returned and what the deadline says. *)
Status(given, late) ==
  IF given THEN "answered" ELSE IF late THEN "unanswered" ELSE "cancelled"

(* The question returns, and the deadline is disposed of. *)
End(result, why) ==
  /\ stage' = "ended" /\ answer' = result /\ cause' = why
  /\ outcome' = Status(result.given, timedOut')
  /\ ticks' = Off

Stay == UNCHANGED <<stage, answer, cause, outcome>>

(* execute(): opens the question, unless the call is aborted already. *)
Ask ==
  /\ stage = "asked"
  /\ UNCHANGED <<ask, timedOut, aborted, formVars, unasked>>
  /\ \/ /\ ask.mode = "none"
        /\ stage' = "ended" /\ outcome' = "ui_unavailable" /\ cause' = "no_ui"
        /\ UNCHANGED <<answer, ticks, dialog>>
     \/ /\ ask.mode # "none" /\ aborted
        /\ End(NoAnswer, "abort") /\ UNCHANGED dialog
     \/ /\ ask.mode # "none" /\ ~aborted
        /\ stage' = "open"
        /\ ticks' = IF ask.timeout THEN Timeout ELSE Off
        /\ dialog' = IF ask.mode = "tui" THEN "none"
                     ELSE IF ask.allowMultiple THEN "numbers" ELSE "select"
        /\ UNCHANGED <<answer, outcome, cause>>

(* The tool call is aborted; a question that is open ends. *)
Abort ==
  /\ stage # "ended" /\ ~aborted
  /\ aborted' = TRUE
  /\ UNCHANGED <<ask, timedOut, formVars, dialog, unasked>>
  /\ IF stage = "open" THEN End(NoAnswer, "abort") ELSE Stay /\ UNCHANGED ticks

(* Time passes. *)
Tick ==
  /\ stage = "open" /\ Armed /\ ticks > 0
  /\ ticks' = ticks - 1
  /\ UNCHANGED <<ask, timedOut, aborted, formVars, dialog, unasked, endVars>>

(* The deadline's timer. *)
Expire ==
  /\ stage = "open" /\ ticks = 0
  /\ timedOut' = TRUE
  /\ UNCHANGED <<ask, aborted, formVars, dialog, unasked>>
  /\ End(NoAnswer, "deadline")

(* Mistake: every key restarts the deadline. *)
CaptureAlwaysReset ==
  ticks' = IF ~Armed THEN ticks ELSE IF ask.onInput = "cancel" THEN Off ELSE Timeout

(* deadline.handleInput(), at every key; the countdown only shows it. *)
Capture ==
  ticks' = IF ~Armed \/ ask.onInput = "never-reset" THEN ticks
           ELSE IF ask.onInput = "reset" THEN Timeout ELSE Off

(* Mistake: the comments on options that are not selected are kept. *)
FinalAnswerAllComments(options, texts, text, textChecked) ==
  [selections |-> options, comments |-> texts,
   freeform |-> text /\ (~ask.allowMultiple \/ textChecked), given |-> TRUE]

(* finalAnswer() of a questionnaire. *)
FinalAnswer(options, texts, text, textChecked) ==
  [selections |-> options, comments |-> texts \cap options,
   freeform |-> text /\ (~ask.allowMultiple \/ textChecked), given |-> TRUE]

(* A key that leaves the question open. *)
Type == Capture /\ Stay

(* A key that submits; the rest of the form is as the caller says. *)
Submit(options, text) == End(FinalAnswer(options, comments, text, writtenChecked), "submit")

(* Mistake: the remainder of JavaScript, which has the sign of the sum. *)
MoveSigned(delta) ==
  LET sum == row - 1 + delta
  IN  /\ Tui /\ editor = Choosing
      /\ row' = (IF sum < 0 THEN -((-sum) % Rows) ELSE sum % Rows) + 1
      /\ Type
      /\ UNCHANGED <<editor, draft, checked, comments, written, writtenChecked>>

(* The other keys of the option list: up, down, pages, home and end, which *)
(* go round at both ends (wrapRow).                                        *)
Move(delta) ==
  /\ Tui /\ editor = Choosing
  /\ row' = ((row - 1 + delta) % Rows) + 1
  /\ Type
  /\ UNCHANGED <<editor, draft, checked, comments, written, writtenChecked>>

(* toggleOption(): of a single choice it is the answer. *)
ToggleOption ==
  /\ row \in OptionRows
  /\ checked' = IF ~ask.allowMultiple THEN {row}
                ELSE IF row \in checked THEN checked \ {row} ELSE checked \cup {row}
  /\ IF ask.allowMultiple THEN Type ELSE Submit({row}, written)
  /\ UNCHANGED <<editor, draft, writtenChecked>>

(* openFreeform(). *)
OpenFreeform ==
  /\ row = FreeformRow
  /\ editor' = row /\ draft' = written
  /\ Type
  /\ UNCHANGED <<checked, writtenChecked>>

(* Space on the response of a multiple choice. *)
ToggleFreeform ==
  /\ row = FreeformRow /\ ask.allowMultiple
  /\ writtenChecked' = ~writtenChecked
  /\ Type
  /\ UNCHANGED <<checked, editor, draft>>

(* The submit row. *)
SubmitRow ==
  /\ row \notin OptionRows /\ row # FreeformRow
  /\ Submit(checked, written)
  /\ UNCHANGED <<checked, editor, draft, writtenChecked>>

(* Enter or space in the option list. *)
Choose ==
  /\ Tui /\ editor = Choosing
  /\ \/ ToggleOption \/ OpenFreeform \/ ToggleFreeform \/ SubmitRow
  /\ UNCHANGED <<row, comments, written>>

(* "c" on an option. *)
OpenComment ==
  /\ Tui /\ editor = Choosing /\ row \in OptionRows
  /\ editor' = row /\ draft' = (row \in comments)
  /\ Type
  /\ UNCHANGED <<row, checked, comments, written, writtenChecked>>

(* The user types in the editor. *)
Edit(text) ==
  /\ Tui /\ editor # Choosing
  /\ draft' = text
  /\ Type
  /\ UNCHANGED <<row, editor, checked, comments, written, writtenChecked>>

(* Enter in the editor saves; a single choice's response is the answer. *)
SaveEditor ==
  /\ Tui /\ editor # Choosing
  /\ editor' = Choosing
  /\ IF editor \in OptionRows
     THEN /\ comments' = IF draft THEN comments \cup {editor} ELSE comments \ {editor}
          /\ Type
          /\ UNCHANGED <<written, writtenChecked>>
     ELSE /\ written' = draft
          /\ writtenChecked' = IF ask.allowMultiple THEN draft ELSE writtenChecked
          /\ IF ~ask.allowMultiple /\ draft THEN Submit(checked, TRUE) ELSE Type
          /\ UNCHANGED comments
  /\ UNCHANGED <<row, draft, checked>>

(* Escape in the editor discards the draft. *)
CancelEditor ==
  /\ Tui /\ editor # Choosing
  /\ editor' = Choosing
  /\ Type
  /\ UNCHANGED <<row, draft, checked, comments, written, writtenChecked>>

(* Escape in the list, or Ctrl+C. *)
Cancel ==
  /\ Tui
  /\ End(NoAnswer, "cancel")
  /\ UNCHANGED formVars

(* handleInput(). *)
Key ==
  /\ UNCHANGED <<ask, timedOut, aborted, dialog, unasked>>
  /\ \/ \E delta \in {-1, 1, -Pages, Pages, 1 - row, Rows - row} : Move(delta)
     \/ Choose \/ OpenComment \/ SaveEditor \/ CancelEditor \/ Cancel
     \/ \E text \in BOOLEAN : Edit(text)

-----------------------------------------------------------------------------
(* rpc.ts: one dialog after the other; the client's last reply answers.    *)

Rpc(kind) == stage = "open" /\ dialog = kind

(* collectComments() goes on with the options `left', or returns. *)
AskComments(left, options, texts, text) ==
  /\ unasked' = left
  /\ IF left = {}
     THEN /\ End([selections |-> options, comments |-> texts, freeform |-> text,
                  given |-> TRUE], "submit")
          /\ UNCHANGED dialog
     ELSE dialog' = "comment" /\ Stay /\ UNCHANGED ticks

(* The client selects an option, or the row to type a response. *)
ReplySelect ==
  /\ Rpc("select")
  /\ \/ \E option \in OptionRows :
          /\ checked' = {option}
          /\ AskComments({option}, {option}, {}, FALSE)
     \/ /\ ask.allowFreeform
        /\ dialog' = "freeform"
        /\ UNCHANGED <<checked, unasked, stage, answer, outcome, cause, ticks>>
  /\ UNCHANGED <<comments, written>>

(* The client enters the numbers of some options. *)
ReplyNumbers ==
  /\ Rpc("numbers")
  /\ checked' \in SUBSET OptionRows
  /\ IF ask.allowFreeform
     THEN /\ dialog' = "freeform" /\ unasked' = checked' /\ Stay
          /\ UNCHANGED ticks
     ELSE AskComments(checked', checked', {}, FALSE)
  /\ UNCHANGED <<comments, written>>

(* The client enters a response, which may be empty. *)
ReplyFreeform ==
  /\ Rpc("freeform")
  /\ written' \in BOOLEAN
  /\ AskComments(unasked, checked, {}, written')
  /\ UNCHANGED <<checked, comments>>

(* The client enters a comment on the first option that has none yet. *)
ReplyComment ==
  /\ Rpc("comment")
  /\ LET option == CHOOSE o \in unasked : \A p \in unasked : o <= p
     IN  /\ comments' \in {comments, comments \cup {option}}
         /\ AskComments(unasked \ {option}, checked, comments', written)
  /\ UNCHANGED <<checked, written>>

(* The client closes a dialog. *)
ReplyNothing ==
  /\ stage = "open" /\ ask.mode = "rpc"
  /\ End(NoAnswer, "cancel")
  /\ UNCHANGED <<checked, comments, written, dialog, unasked>>

(* askWithRpc(). *)
Reply ==
  /\ UNCHANGED <<ask, timedOut, aborted, row, editor, draft, writtenChecked>>
  /\ ReplySelect \/ ReplyNumbers \/ ReplyFreeform \/ ReplyComment \/ ReplyNothing

DialogNext == Ask \/ Abort \/ Tick \/ Expire \/ Key \/ Reply

DialogSpec == DialogInit /\ [][DialogNext]_dialogVars /\ WF_dialogVars(Tick) /\ WF_dialogVars(Expire)

-----------------------------------------------------------------------------
(* The result names the one thing that ended the question. *)
OutcomeNamesCause ==
  stage = "ended" =>
    /\ outcome = "answered" <=> cause = "submit"
    /\ outcome = "unanswered" <=> cause = "deadline"
    /\ outcome = "cancelled" <=> cause \in {"cancel", "abort"}

(* An answer is one the ask admits, so that it can be shown, stored and    *)
(* put in the model's context: a single choice has one option or, where    *)
(* allowed, a response; in the terminal it has exactly one of the two.     *)
AnswerMatchesAsk ==
  answer.given =>
    /\ answer.comments \subseteq answer.selections
    /\ answer.freeform => ask.allowFreeform
    /\ ~ask.allowMultiple =>
         /\ Cardinality(answer.selections) <= 1
         /\ answer.freeform => answer.selections = {}
         /\ ask.mode = "tui" => answer.freeform \/ answer.selections # {}

(* A deadline passes in the end, unless the user keeps typing where that   *)
(* restarts it; where typing changes nothing, no question outlasts it.     *)
DeadlinePasses ==
  /\ []<><<Key>>_dialogVars \/ (Armed ~> ~Armed)
  /\ (Armed /\ ask.onInput = "never-reset") ~> stage = "ended"
=============================================================================
