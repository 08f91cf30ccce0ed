---------------------------- MODULE Conversation ----------------------------
(***************************************************************************)
(* One subagent conversation: its generations (conversation.ts), the task  *)
(* that executes each of them (GenerationScheduler.schedule in             *)
(* scheduler.ts, an executor of execute.ts or pane-execution.ts), and the  *)
(* runtime.ts operations that reach them: resume, steer, cancel and join.  *)
(*                                                                         *)
(* A generation is settled by whoever comes first: its executor, or a      *)
(* cancel, which then waits until both the abort and the execution are     *)
(* over (`stopping') and after cancellationSettlementMs gives up on them.  *)
(* The abandoned executor goes on.  Everything between two awaits is one   *)
(* action; the interleavings are those of the awaits.                      *)
(***************************************************************************)
EXTENDS Integers, Sequences, FiniteSets, SequencesExt

CONSTANTS
  MaxGenerations,   \* bound on the generations of the conversation
  Steers,           \* the calls of steerSubagent
  Observers,        \* the calls of join, each may bind again and again
  PaneBacked        \* does the pane executor run the generations?

ASSUME MaxGenerationsAssumption == MaxGenerations \in Nat \ {0}
ASSUME PaneBackedAssumption == PaneBacked \in BOOLEAN

VARIABLES
  latest,        \* the number of the latest generation
  status,        \* of each generation: its state, with the outcome once done
  joined,        \* the generations marked joined
  observes,      \* the generation each join has bound, 0 when none
  exec,          \* where the execution of each generation stands
  completion,    \* the promise of each scheduled execution
  stopping,      \* this.stopping, its generation 0 when undefined
  abortStep,     \* where the abort() of each generation stands
  abortTail,     \* the steers that abort() awaits
  session,       \* is this.session defined?
  sessionFile,   \* is this.retainedSessionFile defined?
  steerTail,     \* the steers that are not over, in the order of the chain
  steerGen,      \* the generation each steer was called for
  steer,         \* where each steer stands, then the state of its receipt
  sessionQueue,  \* the steered messages in the queue of the session
  consumedBy     \* the generation that took each of them out, 0 when none

historyVars == <<latest, status, joined, observes>>
execVars == <<exec, completion>>
stopVars == <<stopping, abortStep, abortTail>>
resourceVars == <<session, sessionFile>>
steerVars == <<steerTail, steerGen, steer, sessionQueue, consumedBy>>
vars == <<historyVars, execVars, stopVars, resourceVars, steerVars>>

Generations == 1..MaxGenerations
Outcomes == {"completed", "error", "aborted", "interrupted", "skipped"}

(***************************************************************************)
(* exec: "pending" in the ExecutionQueue, "started" by it, "launching" the *)
(* session or pane is being made, "executing", "returned" the task ended,  *)
(* "dropped" it was taken out of the queue.                                *)
(* completion: "open", "settled", and "observed" once its reaction called  *)
(* executionSettled.                                                       *)
(* abortStep: "draining" or "waiting" for the steers, with or without a    *)
(* session whose queue it clears, "control" waiting for the control's own  *)
(* abort.                                                                  *)
(* steer: "chained" behind this.steerTail, "sending" and "sent" to the     *)
(* control or the session, "rejected", or the state of its receipt.        *)
(***************************************************************************)
ExecStages == {"absent", "pending", "started", "launching", "executing", "returned", "dropped"}
SteerStates == {"idle", "chained", "sending", "sent", "rejected",
                "queued", "delivered", "processed", "discarded"}
NotStopping == [generation |-> 0, abortSettled |-> FALSE, executionSettled |-> FALSE]

HistoryTypes ==
  /\ latest \in Generations
  /\ status \in [Generations -> {"absent", "queued", "running"} \cup Outcomes]
  /\ \A g \in Generations : status[g] = "absent" <=> g > latest
  /\ joined \in SUBSET Generations
  /\ observes \in [Observers -> 0..MaxGenerations]

ExecutionTypes ==
  /\ exec \in [Generations -> ExecStages]
  /\ completion \in [Generations -> {"open", "settled", "observed"}]
  /\ session \in BOOLEAN /\ sessionFile \in BOOLEAN

StoppingTypes ==
  /\ stopping \in [generation : 0..MaxGenerations,
                   abortSettled : BOOLEAN, executionSettled : BOOLEAN]
  /\ abortStep \in [Generations -> {"none", "draining", "waiting", "control", "over"}]
  /\ abortTail \in [Generations -> SUBSET Steers]

SteerTypes ==
  /\ steerTail \in Seq(Steers)
  /\ steerGen \in [Steers -> 0..MaxGenerations]
  /\ steer \in [Steers -> SteerStates]
  /\ sessionQueue \in SUBSET Steers
  /\ consumedBy \in [Steers -> 0..MaxGenerations]

TypeOK == HistoryTypes /\ ExecutionTypes /\ StoppingTypes /\ SteerTypes

Init ==
  /\ latest = 1
  /\ status = [g \in Generations |-> IF g = 1 THEN "queued" ELSE "absent"]
  /\ joined = {}
  /\ observes = [o \in Observers |-> 0]
  /\ exec = [g \in Generations |-> IF g = 1 THEN "pending" ELSE "absent"]
  /\ completion = [g \in Generations |-> "open"]
  /\ stopping = NotStopping
  /\ abortStep = [g \in Generations |-> "none"]
  /\ abortTail = [g \in Generations |-> {}]
  /\ session = FALSE /\ sessionFile = FALSE
  /\ steerTail = <<>>
  /\ steerGen = [s \in Steers |-> 0]
  /\ steer = [s \in Steers |-> "idle"]
  /\ sessionQueue = {}
  /\ consumedBy = [s \in Steers |-> 0]

-----------------------------------------------------------------------------
IsDone(g) == status[g] \in Outcomes
IsStopping == stopping.generation # 0

(* The definitions marked Mistake are wrong on purpose: each is what a     *)
(* slip in the code would make of the definition that follows it, and      *)
(* PROJECT.json names the property that notices.                           *)

(* Mistake: Generation.settle does not look whether it is done. *)
SettleAgain(g, outcome) ==
  IF g = latest
  THEN /\ status' = [status EXCEPT ![g] = outcome]
       /\ steer' = [s \in Steers |->
                      IF steerGen[s] = g /\ steer[s] \in {"queued", "delivered"}
                      THEN "discarded" ELSE steer[s]]
  ELSE UNCHANGED <<status, steer>>

(* this.settle(g, outcome): an older generation and one that is done keep  *)
(* what they have; the receipts of g that are open are discarded.          *)
Settle(g, outcome) ==
  IF g = latest /\ ~IsDone(g)
  THEN /\ status' = [status EXCEPT ![g] = outcome]
       /\ steer' = [s \in Steers |->
                      IF steerGen[s] = g /\ steer[s] \in {"queued", "delivered"}
                      THEN "discarded" ELSE steer[s]]
  ELSE UNCHANGED <<status, steer>>

(* The task of g ends, and with it its completion unless abandon() did it. *)
Return(g) ==
  /\ exec' = [exec EXCEPT ![g] = "returned"]
  /\ completion' = [completion EXCEPT ![g] = IF @ = "open" THEN "settled" ELSE @]

(* Mistake: the first of the two settlements is enough. *)
FinishStoppingEither(s) ==
  stopping' = IF s.abortSettled \/ s.executionSettled THEN NotStopping ELSE s

(* finishStopping, once this.stopping is s. *)
FinishStopping(s) ==
  stopping' = IF s.abortSettled /\ s.executionSettled THEN NotStopping ELSE s

-----------------------------------------------------------------------------
(* The execution of a generation.                                          *)

StartTask(g) ==
  /\ exec[g] = "pending"
  /\ exec' = [exec EXCEPT ![g] = "started"]
  /\ UNCHANGED <<historyVars, completion, stopVars, resourceVars, steerVars>>

(* The callback of schedule() finds the generation settled already. *)
SkipSettled(g) ==
  /\ exec[g] = "started" /\ IsDone(g)
  /\ Return(g)
  /\ UNCHANGED <<historyVars, stopVars, resourceVars, steerVars>>

(* What the executor needs to start is wrong: the configuration, or the    *)
(* session that a resumed generation has to reuse.                         *)
FailToStart(g) ==
  /\ exec[g] = "started" /\ ~IsDone(g)
  /\ \/ PaneBacked \/ g = 1
     \/ ~session
  /\ Settle(g, "error")
  /\ Return(g)
  /\ UNCHANGED <<latest, joined, observes, stopVars, resourceVars,
                 steerTail, steerGen, sessionQueue, consumedBy>>

Launch(g) ==
  /\ exec[g] = "started" /\ ~IsDone(g)
  /\ IF PaneBacked THEN g > 1 => sessionFile ELSE g = 1
  /\ exec' = [exec EXCEPT ![g] = "launching"]
  /\ UNCHANGED <<historyVars, completion, stopVars, resourceVars, steerVars>>

(* A resumed generation binds the session it reuses without an await. *)
Reuse(g) ==
  /\ exec[g] = "started" /\ ~IsDone(g)
  /\ ~PaneBacked /\ g > 1 /\ session
  /\ status' = [status EXCEPT ![g] = "running"]
  /\ exec' = [exec EXCEPT ![g] = "executing"]
  /\ UNCHANGED <<latest, joined, observes, completion, stopVars, resourceVars, steerVars>>

(* An await of the launch rejects.  Or the pane is there, its session file *)
(* retained, and a listener throws when the control is bound: the one that *)
(* appends the lease of the generation to the branch, and cannot.          *)
LaunchFails(g, bound) ==
  /\ exec[g] = "launching"
  /\ bound => PaneBacked /\ g = latest /\ ~IsDone(g)
  /\ Settle(g, "error")
  /\ Return(g)
  /\ sessionFile' = (sessionFile \/ bound)
  /\ UNCHANGED <<latest, joined, observes, stopVars, session,
                 steerTail, steerGen, sessionQueue, consumedBy>>

(* bindSession and bindControl throw for a generation that is not current, *)
(* and the pane executor retains its session file before it binds.         *)
Bind(g) ==
  /\ exec[g] = "launching"
  /\ sessionFile' = (sessionFile \/ PaneBacked)
  /\ IF g = latest /\ ~IsDone(g)
     THEN /\ status' = [status EXCEPT ![g] = "running"]
          /\ exec' = [exec EXCEPT ![g] = "executing"]
          /\ session' = (session \/ ~PaneBacked)
          /\ UNCHANGED completion
     ELSE /\ Return(g)
          /\ UNCHANGED <<status, session>>
  /\ UNCHANGED <<latest, joined, observes, stopVars, steerVars>>

(* The child ends its turn or fails, whether or not it was aborted. *)
ExecutorEnds(g, outcome) ==
  /\ exec[g] = "executing"
  /\ outcome = "interrupted" => ~PaneBacked
  /\ Settle(g, outcome)
  /\ Return(g)
  /\ UNCHANGED <<latest, joined, observes, stopVars, resourceVars,
                 steerTail, steerGen, sessionQueue, consumedBy>>

(* The reaction of startTasks to the completion calls executionSettled. *)
ObserveCompletion(g) ==
  /\ completion[g] = "settled"
  /\ completion' = [completion EXCEPT ![g] = "observed"]
  /\ IF stopping.generation = g
     THEN FinishStopping([stopping EXCEPT !.executionSettled = TRUE])
     ELSE UNCHANGED stopping
  /\ UNCHANGED <<historyVars, exec, abortStep, abortTail, resourceVars, steerVars>>

-----------------------------------------------------------------------------
(* Join and resume.                                                        *)

BindGeneration(o) ==
  /\ observes[o] = 0
  /\ observes' = [observes EXCEPT ![o] = latest]
  /\ UNCHANGED <<latest, status, joined, execVars, stopVars, resourceVars, steerVars>>

(* The join sees its target done, marks it joined and lets go of it. *)
Collect(o) ==
  /\ observes[o] # 0 /\ IsDone(observes[o])
  /\ joined' = joined \cup {observes[o]}
  /\ observes' = [observes EXCEPT ![o] = 0]
  /\ UNCHANGED <<latest, status, execVars, stopVars, resourceVars, steerVars>>

(* The tool call of the join is aborted. *)
InterruptJoin(o) ==
  /\ observes[o] # 0
  /\ observes' = [observes EXCEPT ![o] = 0]
  /\ UNCHANGED <<latest, status, joined, execVars, stopVars, resourceVars, steerVars>>

(* Mistake: nobody looks whether there is a session to continue. *)
IsResumeAllowedSessionless ==
  /\ ~IsStopping
  /\ status[latest] \in {"completed", "interrupted", "aborted"}
  /\ \A o \in Observers : observes[o] # latest
  /\ latest \in joined

(* Mistake: a join that still observes the generation does not matter. *)
IsResumeAllowedObserved ==
  /\ ~IsStopping
  /\ status[latest] \in {"completed", "interrupted", "aborted"}
  /\ latest \in joined
  /\ session \/ sessionFile

IsResumeAllowed ==
  /\ ~IsStopping
  /\ status[latest] \in {"completed", "interrupted", "aborted"}
  /\ \A o \in Observers : observes[o] # latest
  /\ latest \in joined
  /\ session \/ sessionFile

(* Mistake: the generation that was joined is queued again. *)
ResumeInPlace ==
  /\ latest < MaxGenerations
  /\ IsResumeAllowed
  /\ latest' = latest + 1
  /\ status' = [status EXCEPT ![latest] = "queued"]
  /\ exec' = [exec EXCEPT ![latest + 1] = "pending"]
  /\ UNCHANGED <<joined, observes, completion, stopVars, resourceVars, steerVars>>

(* beginResume, and schedule() of the new generation. *)
Resume ==
  /\ latest < MaxGenerations
  /\ IsResumeAllowed
  /\ latest' = latest + 1
  /\ status' = [status EXCEPT ![latest + 1] = "queued"]
  /\ exec' = [exec EXCEPT ![latest + 1] = "pending"]
  /\ UNCHANGED <<joined, observes, completion, stopVars, resourceVars, steerVars>>

-----------------------------------------------------------------------------
(* Cancellation.                                                           *)

(* cancelSubagent of a generation that is not done: abort() up to its      *)
(* first await, and cancelQueued when the generation was queued, which     *)
(* only reaches an execution the queue has not started.                    *)
Cancel ==
  /\ ~IsDone(latest)
  /\ stopping' = [NotStopping EXCEPT !.generation = latest]
  /\ Settle(latest, "aborted")
  /\ abortStep' = [abortStep EXCEPT ![latest] =
                     IF status[latest] = "running" /\ ~PaneBacked THEN "draining" ELSE "waiting"]
  /\ abortTail' = [abortTail EXCEPT ![latest] = Range(steerTail)]
  /\ sessionQueue' = IF status[latest] = "running" THEN {} ELSE sessionQueue
  /\ IF exec[latest] = "pending"
     THEN /\ exec' = [exec EXCEPT ![latest] = "dropped"]
          /\ completion' = [completion EXCEPT ![latest] = "settled"]
     ELSE UNCHANGED execVars
  /\ UNCHANGED <<latest, joined, observes, resourceVars, steerTail, steerGen, consumedBy>>

(* Mistake: abort() does not await this.steerTail. *)
AbortUndrained(g) ==
  /\ abortStep[g] \in {"draining", "waiting"}
  /\ sessionQueue' = IF abortStep[g] = "draining" THEN {} ELSE sessionQueue
  /\ abortStep' = [abortStep EXCEPT ![g] = "control"]
  /\ UNCHANGED <<historyVars, execVars, stopping, abortTail, resourceVars,
                 steerTail, steerGen, steer, consumedBy>>

(* abort() goes on when the steers it found are over, and clears the queue *)
(* of the session again.                                                   *)
AbortDrained(g) ==
  /\ abortStep[g] \in {"draining", "waiting"}
  /\ abortTail[g] \cap Range(steerTail) = {}
  /\ sessionQueue' = IF abortStep[g] = "draining" THEN {} ELSE sessionQueue
  /\ abortStep' = [abortStep EXCEPT ![g] = "control"]
  /\ UNCHANGED <<historyVars, execVars, stopping, abortTail, resourceVars,
                 steerTail, steerGen, steer, consumedBy>>

(* The abort of the session or the interrupt of the pane is over, too. *)
AbortSettled(g) ==
  /\ abortStep[g] = "control"
  /\ abortStep' = [abortStep EXCEPT ![g] = "over"]
  /\ IF stopping.generation = g
     THEN FinishStopping([stopping EXCEPT !.abortSettled = TRUE])
     ELSE UNCHANGED stopping
  /\ UNCHANGED <<historyVars, execVars, abortTail, resourceVars, steerVars>>

(* Mistake: the execution is abandoned and `stopping' stays. *)
AbandonStillStopping ==
  /\ IsStopping
  /\ LET g == stopping.generation IN
       completion' = [completion EXCEPT ![g] = IF @ = "open" THEN "settled" ELSE @]
  /\ session' = FALSE
  /\ UNCHANGED <<historyVars, exec, stopVars, sessionFile, steerVars>>

(* Mistake: `stopping' is cleared and the execution is not abandoned. *)
ForgetWithoutAbandon ==
  /\ IsStopping
  /\ session' = FALSE
  /\ stopping' = NotStopping
  /\ UNCHANGED <<historyVars, execVars, abortStep, abortTail, sessionFile, steerVars>>

(* finishCancellation after cancellationSettlementMs: the session is given *)
(* up, and abandon() settles the completion of the execution.              *)
ForceAbandon ==
  /\ IsStopping
  /\ LET g == stopping.generation IN
       completion' = [completion EXCEPT ![g] = IF @ = "open" THEN "settled" ELSE @]
  /\ session' = FALSE
  /\ stopping' = NotStopping
  /\ UNCHANGED <<historyVars, exec, abortStep, abortTail, sessionFile, steerVars>>

-----------------------------------------------------------------------------
(* Steering: one chain of calls, each of which looks at the conversation   *)
(* when its turn comes and again when its message was sent.                *)

SteerSubagent(s) ==
  /\ steer[s] = "idle"
  /\ steer' = [steer EXCEPT ![s] = "chained"]
  /\ steerGen' = [steerGen EXCEPT ![s] = latest]
  /\ steerTail' = Append(steerTail, s)
  /\ UNCHANGED <<historyVars, execVars, stopVars, resourceVars, sessionQueue, consumedBy>>

IsHead(s) == steerTail # <<>> /\ Head(steerTail) = s

StartSteer(s) ==
  /\ IsHead(s) /\ steer[s] = "chained"
  /\ IF IsStopping \/ steerGen[s] # latest \/ status[latest] # "running"
     THEN /\ steer' = [steer EXCEPT ![s] = "rejected"]
          /\ steerTail' = Tail(steerTail)
     ELSE /\ steer' = [steer EXCEPT ![s] = "sending"]
          /\ UNCHANGED steerTail
  /\ UNCHANGED <<historyVars, execVars, stopVars, resourceVars, steerGen, sessionQueue, consumedBy>>

(* session.steer queues the message; control.steer types it into the pane. *)
SendSteer(s) ==
  /\ steer[s] = "sending"
  /\ steer' = [steer EXCEPT ![s] = "sent"]
  /\ sessionQueue' = IF PaneBacked THEN sessionQueue ELSE sessionQueue \cup {s}
  /\ UNCHANGED <<historyVars, execVars, stopVars, resourceVars, steerTail, steerGen, consumedBy>>

SendFails(s) ==
  /\ steer[s] = "sending"
  /\ steer' = [steer EXCEPT ![s] = "rejected"]
  /\ steerTail' = Tail(steerTail)
  /\ UNCHANGED <<historyVars, execVars, stopVars, resourceVars, steerGen, sessionQueue, consumedBy>>

(* Mistake: acceptSteer does not look at the generation again. *)
AcceptSteerBlindly(s) ==
  /\ steer[s] = "sent"
  /\ steer' = [steer EXCEPT ![s] = "queued"]
  /\ steerTail' = Tail(steerTail)
  /\ sessionQueue' = IF IsStopping THEN {} ELSE sessionQueue
  /\ UNCHANGED <<historyVars, execVars, stopVars, resourceVars, steerGen, consumedBy>>

(* acceptSteer: the receipt is queued, or discarded right away. *)
AcceptSteer(s) ==
  /\ steer[s] = "sent"
  /\ steer' = [steer EXCEPT ![s] =
                 IF status[steerGen[s]] = "running" THEN "queued" ELSE "discarded"]
  /\ steerTail' = Tail(steerTail)
  /\ sessionQueue' = IF IsStopping THEN {} ELSE sessionQueue
  /\ UNCHANGED <<historyVars, execVars, stopVars, resourceVars, steerGen, consumedBy>>

(* The session takes a message out of its queue (message_start, user). The *)
(* listener finds the receipt, unless it is not there yet.                 *)
ConsumeSteer(s) ==
  /\ s \in sessionQueue
  /\ status[latest] = "running"
  /\ sessionQueue' = sessionQueue \ {s}
  /\ consumedBy' = [consumedBy EXCEPT ![s] = latest]
  /\ steer' = IF steer[s] = "queued" THEN [steer EXCEPT ![s] = "delivered"] ELSE steer
  /\ UNCHANGED <<historyVars, execVars, stopVars, resourceVars, steerTail, steerGen>>

(* The assistant answers (message_start, assistant). *)
ProcessSteers ==
  /\ \E s \in Steers : steer[s] = "delivered"
  /\ steer' = [s \in Steers |-> IF steer[s] = "delivered" THEN "processed" ELSE steer[s]]
  /\ UNCHANGED <<historyVars, execVars, stopVars, resourceVars,
                 steerTail, steerGen, sessionQueue, consumedBy>>

-----------------------------------------------------------------------------
ExecutionStep(g) ==
  \/ StartTask(g) \/ SkipSettled(g) \/ FailToStart(g) \/ Launch(g) \/ Reuse(g)
  \/ \E bound \in BOOLEAN : LaunchFails(g, bound)
  \/ Bind(g) \/ ObserveCompletion(g)
  \/ \E outcome \in {"completed", "error", "interrupted"} : ExecutorEnds(g, outcome)

JoinStep(o) == BindGeneration(o) \/ Collect(o) \/ InterruptJoin(o)

AbortStep(g) == AbortDrained(g) \/ AbortSettled(g)

SteerStep(s) ==
  \/ SteerSubagent(s) \/ StartSteer(s) \/ SendSteer(s) \/ SendFails(s)
  \/ AcceptSteer(s) \/ ConsumeSteer(s)

Next ==
  \/ \E g \in Generations : ExecutionStep(g) \/ AbortStep(g)
  \/ \E o \in Observers : JoinStep(o)
  \/ \E s \in Steers : SteerStep(s)
  \/ Resume \/ Cancel \/ ForceAbandon \/ ProcessSteers

(***************************************************************************)
(* Timers fire and promise reactions run.  Executors, the abort of a child *)
(* and the sending of a message may hang for ever, and callers need not    *)
(* call.                                                                   *)
(***************************************************************************)
Fairness ==
  /\ WF_vars(ForceAbandon)
  /\ \A g \in Generations : WF_vars(ObserveCompletion(g)) /\ WF_vars(AbortDrained(g))
  /\ \A o \in Observers : WF_vars(Collect(o))
  /\ \A s \in Steers : WF_vars(StartSteer(s) \/ AcceptSteer(s))

Spec == Init /\ [][Next]_vars /\ Fairness

-----------------------------------------------------------------------------
(* No generation starts while an execution of an older one is still owed   *)
(* an end: the older one returned, was taken out of the queue, or was      *)
(* given up by forceAbandonCancellation.                                   *)
OneExecutionOwed ==
  \A g \in Generations : g < latest => completion[g] # "open"

(* "Allow cancelled conversations to resume after SDK abortion and         *)
(* execution cleanup have both settled": the execution of an older         *)
(* generation is over, and so is its abort.                                *)
ExecutionsDisjoint ==
  \A g \in Generations : g < latest =>
    exec[g] \in {"returned", "dropped"} /\ abortStep[g] \in {"none", "over"}

(* The part of it that concerns the executors: none of an older generation *)
(* is still at work on the child.                                          *)
ExecutorCleanedUp ==
  \A g \in Generations : g < latest => exec[g] \notin {"launching", "executing"}

(* A resumed generation never finds its session or session file gone.      *)
ResumeFindsSession ==
  latest > 1 /\ exec[latest] \in {"pending", "started"} /\ ~IsDone(latest)
    => IF PaneBacked THEN sessionFile ELSE session

(* A generation that is done leaves no receipt open: however a steer, a    *)
(* cancel and the end of the execution interleave, its caller sees it      *)
(* processed or discarded.                                                 *)
ReceiptsClosed ==
  \A s \in Steers : steer[s] \in {"queued", "delivered"} => status[steerGen[s]] = "running"

(* "queued messages cannot continue after abort": what was steered into a  *)
(* generation that was aborted never reaches a later one through the       *)
(* session they share.                                                     *)
AbortDropsSteers ==
  \A s \in Steers :
    consumedBy[s] > steerGen[s] => status[steerGen[s]] # "aborted"

(* While the conversation waits for a cancelled execution it can neither   *)
(* be resumed nor lose track of it: stopping is that of the latest         *)
(* generation, aborted, and what it waits for has not happened yet.        *)
StoppingTracksAbort ==
  IsStopping =>
    /\ stopping.generation = latest /\ status[latest] = "aborted"
    /\ stopping.executionSettled <=> completion[latest] = "observed"
    /\ stopping.abortSettled <=> abortStep[latest] = "over"
    /\ ~(stopping.executionSettled /\ stopping.abortSettled)

(* Whoever holds a reference to a generation sees an append-only history   *)
(* with final outcomes.                                                    *)
History == INSTANCE GenerationHistory

ImplementsHistory == History!Spec

(* A cancel is over some time, also when the child hangs. *)
CancelEnds == IsStopping ~> ~IsStopping
=============================================================================
