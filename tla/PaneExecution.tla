---------------------------- MODULE PaneExecution ----------------------------
(***************************************************************************)
(* One conversation whose generations run in terminal panes                *)
(* (pane-execution.ts and the child's side, pane-child.ts), composed with  *)
(* the life cycle of Conversation: every step here is a step of            *)
(* Conversation, or changes nothing of it.                                 *)
(*                                                                         *)
(* All generations of the conversation use one session file, and next to   *)
(* it one sidecar, where whoever comes to an end leaves the completion:    *)
(* the child, the script that launched it, or the interrupt of a cancel.   *)
(* The executor polls the sidecar; a pane is closed by the executor that   *)
(* opened it, or by the next pane that the conversation retains.  The user *)
(* may look at the pane of a finished conversation (openConversationPane), *)
(* and may close any pane by hand.                                         *)
(***************************************************************************)
EXTENDS Conversation

CONSTANT Viewers       \* the calls of openConversationPane

ASSUME ViewersAssumption == Viewers \cap Generations = {} /\ 0 \notin Viewers

VARIABLES
  launch,     \* the await at which the launch of each generation stands
  view,       \* where each call of openConversationPane stands
  seen,       \* the surface it found retained, 0 when none
  pane,       \* the surface of each launch and of each viewer
  child,      \* the process that runs in the pane of each generation
  sidecar,    \* the .exit file: who wrote it, and what
  taken,      \* the completion that the executor of a generation polled
  retained    \* the surface of this.retainedPane, 0 when undefined

launchVars == <<launch, view, seen>>
worldVars == <<pane, child, sidecar>>
paneVars == <<launchVars, worldVars, taken, retained>>
allVars == <<vars, paneVars>>

(***************************************************************************)
(* launch: "paths" loadExtensionPaths, "mux" loadMux, "sleep" the half     *)
(* second given to the new surface.                                        *)
(* child: "working", "ending" once it called a tool that finishes it,      *)
(* "exited" with its launch script, "gone" with its pane.                  *)
(* A completion is a "result" of the child (or its error), an "interrupt", *)
(* or "failed", which the script writes when nobody else has.              *)
(***************************************************************************)
Surfaces == Generations \cup Viewers
Nothing == [by |-> 0, kind |-> "nothing"]
Completions == [by : Generations, kind : {"result", "interrupt", "failed"}]

PaneTypeOK ==
  /\ launch \in [Generations -> {"idle", "paths", "mux", "sleep"}]
  /\ view \in [Viewers -> {"idle", "checking", "opening", "sleep", "over"}]
  /\ seen \in [Viewers -> Surfaces \cup {0}]
  /\ pane \in [Surfaces -> {"none", "open", "closed"}]
  /\ child \in [Generations -> {"none", "working", "ending", "exited", "gone"}]
  /\ sidecar \in Completions \cup {Nothing}
  /\ taken \in [Generations -> Completions \cup {Nothing}]
  /\ retained \in Surfaces \cup {0}

PaneInit ==
  /\ Init
  /\ launch = [g \in Generations |-> "idle"]
  /\ view = [v \in Viewers |-> "idle"]
  /\ seen = [v \in Viewers |-> 0]
  /\ pane = [p \in Surfaces |-> "none"]
  /\ child = [g \in Generations |-> "none"]
  /\ sidecar = Nothing
  /\ taken = [g \in Generations |-> Nothing]
  /\ retained = 0

-----------------------------------------------------------------------------
(* Surfaces.  Whoever closes one takes the processes in it along.          *)

(* mux.closeSurface of the panes P, those among them that are open. *)
Closed(P) == [p \in Surfaces |-> IF p \in P /\ pane[p] = "open" THEN "closed" ELSE pane[p]]

(* What is left of the children c once the panes P are closed. *)
Without(P, c) ==
  [g \in Generations |->
     IF g \in P /\ pane[g] = "open" /\ c[g] # "none" THEN "gone" ELSE c[g]]

Close(P) ==
  /\ pane' = Closed(P)
  /\ child' = Without(P, child)

(* Mistake: the pane that was retained before is forgotten. *)
RetainUndisposed(p, c) ==
  /\ UNCHANGED pane
  /\ child' = c
  /\ retained' = p

(* retainPaneSurface(p) disposes of what was retained; c are the children *)
(* by then.                                                               *)
Retain(p, c) ==
  /\ pane' = Closed({retained})
  /\ child' = Without({retained}, c)
  /\ retained' = p

(* clearRetainedPaneSurface(p) *)
Unretain(p) == retained' = IF retained = p THEN 0 ELSE retained

(* The user closes a pane by hand. *)
PaneVanishes(p) ==
  /\ pane[p] = "open"
  /\ Close({p})
  /\ UNCHANGED <<vars, launchVars, sidecar, taken, retained>>

-----------------------------------------------------------------------------
(* The executor, executePaneGeneration.                                    *)

LaunchPane(g) ==
  /\ Launch(g)
  /\ launch' = [launch EXCEPT ![g] = "paths"]
  /\ UNCHANGED <<view, seen, worldVars, taken, retained>>

(* Mistake: the sidecar of the generation before is left where it is. *)
ClearCompletionStale(g) ==
  /\ launch[g] = "paths"
  /\ launch' = [launch EXCEPT ![g] = "mux"]
  /\ UNCHANGED <<vars, view, seen, worldVars, taken, retained>>

(* The extensions are known: the sidecar is cleared. *)
ClearCompletion(g) ==
  /\ launch[g] = "paths"
  /\ launch' = [launch EXCEPT ![g] = "mux"]
  /\ sidecar' = Nothing
  /\ UNCHANGED <<vars, view, seen, pane, child, taken, retained>>

CreateSurface(g) ==
  /\ launch[g] = "mux"
  /\ launch' = [launch EXCEPT ![g] = "sleep"]
  /\ pane' = [pane EXCEPT ![g] = "open"]
  /\ UNCHANGED <<vars, view, seen, child, sidecar, taken, retained>>

(* Any await of the launch rejects, or the command cannot be sent to the  *)
(* surface, which is closed then.                                         *)
LaunchPaneFails(g) ==
  /\ LaunchFails(g, FALSE)
  /\ launch' = [launch EXCEPT ![g] = "idle"]
  /\ Close({g})
  /\ UNCHANGED <<view, seen, sidecar, taken, retained>>

(* The launch command is sent, the handle returned, session file and pane *)
(* retained, and the control bound, which throws for a generation that    *)
(* was cancelled meanwhile: its pane stays as it is.                      *)
BindPane(g) ==
  /\ launch[g] = "sleep" /\ pane[g] = "open"
  /\ Bind(g)
  /\ launch' = [launch EXCEPT ![g] = "idle"]
  /\ Retain(g, [child EXCEPT ![g] = "working"])
  /\ UNCHANGED <<view, seen, sidecar, taken>>

(* The control is bound, but the listener that appends the lease throws:   *)
(* the executor rejects, and the generation ends in error while its child *)
(* goes to work.                                                          *)
BindPaneFails(g) ==
  /\ launch[g] = "sleep" /\ pane[g] = "open"
  /\ LaunchFails(g, TRUE)
  /\ launch' = [launch EXCEPT ![g] = "idle"]
  /\ Retain(g, [child EXCEPT ![g] = "working"])
  /\ UNCHANGED <<view, seen, sidecar, taken>>

(* pollForExit finds a completion in the sidecar, or reads off the        *)
(* terminal that the script is over.                                      *)
TakeCompletion(g) ==
  /\ exec[g] = "executing" /\ taken[g] = Nothing
  /\ \/ /\ sidecar # Nothing
        /\ taken' = [taken EXCEPT ![g] = sidecar]
     \/ /\ child[g] = "exited" /\ pane[g] = "open"
        /\ \E kind \in {"result", "failed"} :
             taken' = [taken EXCEPT ![g] = [by |-> g, kind |-> kind]]
  /\ UNCHANGED <<vars, launchVars, worldVars, retained>>

(* The child had a second to shut down (waitForPaneShutdown); its pane is *)
(* closed, and the generation settles with the completion.                *)
SettlePane(g) ==
  /\ taken[g] # Nothing
  /\ \/ taken[g].kind # "failed" /\ ExecutorEnds(g, "completed")
     \/ taken[g].kind # "interrupt" /\ ExecutorEnds(g, "error")
  /\ Close({g})
  /\ Unretain(g)
  /\ UNCHANGED <<launchVars, sidecar, taken>>

(* wait() rejects: the multiplexer failed, or the pane is not there. *)
PollFails(g) ==
  /\ taken[g] = Nothing
  /\ ExecutorEnds(g, "error")
  /\ Close({g})
  /\ Unretain(g)
  /\ UNCHANGED <<launchVars, sidecar, taken>>

-----------------------------------------------------------------------------
(* The child and the script that launched it.                              *)

(* subagent_done, caller_ping, or skills that cannot be loaded. *)
ChildFinishes(g) ==
  /\ child[g] = "working"
  /\ child' = [child EXCEPT ![g] = "ending"]
  /\ sidecar' = [by |-> g, kind |-> "result"]
  /\ UNCHANGED <<vars, launchVars, pane, taken, retained>>

(* The process exits, after finishing or without; the script looks for a  *)
(* completion and writes one if there is none.                            *)
ChildExits(g) ==
  /\ child[g] \in {"working", "ending"}
  /\ child' = [child EXCEPT ![g] = "exited"]
  /\ sidecar' = IF sidecar = Nothing THEN [by |-> g, kind |-> "failed"] ELSE sidecar
  /\ UNCHANGED <<vars, launchVars, pane, taken, retained>>

-----------------------------------------------------------------------------
(* Calls of the parent agent and of the user.                              *)

(* abort() of a bound generation interrupts the pane: escape is typed, and *)
(* the sidecar written, unless the multiplexer refused the escape.         *)
CancelPane ==
  /\ Cancel
  /\ \/ /\ status[latest] = "running"
        /\ sidecar' = [by |-> latest, kind |-> "interrupt"]
     \/ UNCHANGED sidecar
  /\ UNCHANGED <<launchVars, pane, child, taken, retained>>

(* openConversationPane of a conversation at rest, up to its first await. *)
OpenConversationPane(v) ==
  /\ view[v] = "idle"
  /\ ~IsStopping /\ IsDone(latest) /\ sessionFile
  /\ view' = [view EXCEPT ![v] = IF retained = 0 THEN "opening" ELSE "checking"]
  /\ seen' = [seen EXCEPT ![v] = retained]
  /\ UNCHANGED <<vars, launch, worldVars, taken, retained>>

(* retainedPaneExists: the pane is there, it is not and is forgotten, the *)
(* multiplexer cannot tell and it is disposed of if still retained, or it *)
(* cannot be asked.                                                       *)
CheckRetainedPane(v) ==
  /\ view[v] = "checking"
  /\ \/ /\ pane[seen[v]] = "open"
        /\ view' = [view EXCEPT ![v] = "over"]
        /\ UNCHANGED <<pane, child, retained>>
     \/ /\ pane[seen[v]] # "open"
        /\ view' = [view EXCEPT ![v] = "opening"]
        /\ Unretain(seen[v])
        /\ UNCHANGED <<pane, child>>
     \/ /\ view' = [view EXCEPT ![v] = "opening"]
        /\ Close({seen[v]} \cap {retained})
        /\ Unretain(seen[v])
  /\ seen' = [seen EXCEPT ![v] = 0]
  /\ UNCHANGED <<vars, launch, sidecar, taken>>

CreateViewer(v) ==
  /\ view[v] = "opening"
  /\ view' = [view EXCEPT ![v] = "sleep"]
  /\ pane' = [pane EXCEPT ![v] = "open"]
  /\ UNCHANGED <<vars, launch, seen, child, sidecar, taken, retained>>

(* reopenPaneExecution rejects; a surface it made is closed. *)
ViewerFails(v) ==
  /\ view[v] \in {"opening", "sleep"}
  /\ view' = [view EXCEPT ![v] = "over"]
  /\ Close({v})
  /\ UNCHANGED <<vars, launch, seen, sidecar, taken, retained>>

(* The pane is retained, whatever became of the conversation meanwhile. *)
RetainViewer(v) ==
  /\ view[v] = "sleep" /\ pane[v] = "open"
  /\ view' = [view EXCEPT ![v] = "over"]
  /\ Retain(v, child)
  /\ UNCHANGED <<vars, launch, seen, sidecar, taken>>

-----------------------------------------------------------------------------
(* What is a step of the conversation alone.  Steers are left to           *)
(* Conversation: one that is sent is typed into the pane, and nothing here *)
(* depends on it.                                                          *)
ConversationStep ==
  /\ \/ \E g \in Generations :
          \/ StartTask(g) \/ SkipSettled(g) \/ FailToStart(g) \/ ObserveCompletion(g)
          \/ AbortStep(g)
     \/ \E o \in Observers : JoinStep(o)
     \/ Resume \/ ForceAbandon
  /\ UNCHANGED paneVars

PaneStep(g) ==
  \/ LaunchPane(g) \/ ClearCompletion(g) \/ CreateSurface(g) \/ LaunchPaneFails(g)
  \/ BindPane(g) \/ BindPaneFails(g) \/ TakeCompletion(g) \/ SettlePane(g) \/ PollFails(g)
  \/ ChildFinishes(g) \/ ChildExits(g)

ViewerStep(v) ==
  \/ OpenConversationPane(v) \/ CheckRetainedPane(v) \/ CreateViewer(v)
  \/ ViewerFails(v) \/ RetainViewer(v)

PaneNext ==
  \/ ConversationStep
  \/ \E g \in Generations : PaneStep(g)
  \/ \E v \in Viewers : ViewerStep(v)
  \/ \E p \in Surfaces : PaneVanishes(p)
  \/ CancelPane

PaneSpec == PaneInit /\ [][PaneNext]_allVars

-----------------------------------------------------------------------------
(* "automatic terminal-pane closure": an open pane is being launched or    *)
(* executes, or else it is the one the conversation retains, and then it   *)
(* is a viewer or that of a generation that was cancelled while its pane   *)
(* was launched, or whose lease could not be appended.  So the next pane   *)
(* or the removal of the conversation closes whatever is open, in whatever *)
(* order launches, failures, cancels, resumes and viewers come to an end.  *)
PanesOwned ==
  \A p \in Surfaces : pane[p] = "open" =>
    IF p \in Generations
    THEN exec[p] \in {"launching", "executing"} \/ (retained = p /\ status[p] \in {"aborted", "error"})
    ELSE view[p] = "sleep" \/ retained = p

(* A generation settles with a completion of its own child, or of the     *)
(* script that launched it, although all of them share one sidecar.  Only *)
(* where an earlier one was cancelled, and its pane outlived it, may the  *)
(* completion be somebody else's.                                         *)
ResultIsOwn ==
  \A g \in Generations :
    status[g] \in {"completed", "error"} /\ taken[g] # Nothing /\ taken[g].by # g
      => \E h \in 1..(g - 1) : status[h] = "aborted"

(* No pane is closed under an executor that still polls it, unless by the *)
(* user.  This does not hold: a viewer opened before a resume, or the     *)
(* launch of a generation that was given up, may retain its own surface   *)
(* when the next generation runs already.                                 *)
LivePaneKept ==
  [][\A g \in Generations :
       exec[g] = "executing" /\ exec'[g] = "executing" /\ pane[g] = "open" =>
         pane'[g] = "open" \/ retained' = retained]_allVars
=============================================================================
