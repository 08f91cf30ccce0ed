--------------------------- MODULE ExecutionQueue ---------------------------
(***************************************************************************)
(* ExecutionQueue of packages/subagent/src/scheduler.ts: the queue that    *)
(* every generation of the delegation tree executes through.               *)
(*                                                                         *)
(* A task waits in `pending' until flush() starts it, occupies one of      *)
(* `maxExecuting' slots while it executes, gives the slot up while it      *)
(* awaits other work (lease.suspendDuring), queues again to get it back,   *)
(* and releases it when it settles.  It may be cancelled while pending and *)
(* abandoned at any time.  JavaScript runs every handler to completion, so *)
(* one action is one synchronous stretch of the code: the interleavings    *)
(* are those of setImmediate callbacks, promise reactions and callers.     *)
(***************************************************************************)
EXTENDS Integers, Sequences, FiniteSets, SequencesExt

CONSTANTS
  Tasks,    \* the tasks that may be enqueued, each at most once
  Limits    \* the values configure() may give maxExecuting

(* settings.ts accepts positive integers only (assignPositiveInt). *)
ASSUME LimitsAssumption == Limits \subseteq Nat \ {0}
ASSUME TasksAssumption == IsFiniteSet(Tasks)

VARIABLES
  phase,          \* where the code of each task stands
  pending,        \* the tasks whose callback waits in this.pending
  executing,      \* the counter this.executing
  maxExecuting,   \* the limit, mutable through configure()
  occupyingSlot,  \* the task's flag of that name
  abandoned,      \* the task's flag of that name
  settled         \* has the task's completion promise been settled?

vars == <<phase, pending, executing, maxExecuting, occupyingSlot, abandoned, settled>>

(***************************************************************************)
(* "new"       not enqueued yet                                            *)
(* "pending"   its start callback is in this.pending                       *)
(* "cancelled" its start callback was taken out again                      *)
(* "started"   start() ran; its setImmediate callback is still to come     *)
(* "running"   the task's own code runs                                    *)
(* "suspended" it awaits fn() inside suspendDuring, its slot given up      *)
(* "acquiring" fn() is over, the callback of acquire() is in this.pending  *)
(* "granted"   acquire() got a slot, its continuation is still to come     *)
(* "settling"  the task's promise is settled, its finally is still to come *)
(* "finished"  the finally of the task ran                                 *)
(***************************************************************************)
Phases == {"new", "pending", "cancelled", "started", "running", "suspended",
           "acquiring", "granted", "settling", "finished"}

TypeOK ==
  /\ phase \in [Tasks -> Phases]
  /\ pending \in Seq(Tasks)
  /\ executing \in Nat
  /\ maxExecuting \in Limits
  /\ occupyingSlot \in [Tasks -> BOOLEAN]
  /\ abandoned \in [Tasks -> BOOLEAN]
  /\ settled \in [Tasks -> BOOLEAN]

Init ==
  /\ phase = [t \in Tasks |-> "new"]
  /\ pending = <<>>
  /\ executing = 0
  /\ maxExecuting \in Limits
  /\ occupyingSlot = [t \in Tasks |-> FALSE]
  /\ abandoned = [t \in Tasks |-> FALSE]
  /\ settled = [t \in Tasks |-> FALSE]

-----------------------------------------------------------------------------
(* The definitions marked Mistake are wrong on purpose: each is what a     *)
(* slip in the code would make of the definition that follows it, and      *)
(* PROJECT.json names the property that notices.                           *)

(* How many callbacks flush() shifts off queue q when exec are executing. *)
Admissible(q, exec) ==
  IF exec >= maxExecuting THEN 0
  ELSE IF maxExecuting - exec <= Len(q) THEN maxExecuting - exec ELSE Len(q)

(* Mistake: flush() pops the newest callback instead of the oldest. *)
FlushNewestFirst(q, exec, ph, occ) ==
  LET n == Admissible(q, exec)
      popped == {q[i] : i \in (Len(q) - n + 1)..Len(q)}
  IN  /\ pending' = SubSeq(q, 1, Len(q) - n)
      /\ executing' = exec + n
      /\ phase' = [t \in Tasks |->
                     IF t \notin popped THEN ph[t]
                     ELSE IF ph[t] = "pending" THEN "started" ELSE "granted"]
      /\ occupyingSlot' = [t \in Tasks |-> (t \in popped /\ ph[t] = "pending") \/ occ[t]]

(* flush() when the rest of the handler left queue q, the counter at exec, *)
(* and the functions ph and occ.  A shifted callback is start() of a task  *)
(* that waits to begin, or resolves the acquire() of one that waits to     *)
(* continue: only start() marks the slot as occupied, acquire() leaves     *)
(* that to its continuation.                                               *)
Flush(q, exec, ph, occ) ==
  LET n == Admissible(q, exec)
      shifted == {q[i] : i \in 1..n}
  IN  /\ pending' = SubSeq(q, n + 1, Len(q))
      /\ executing' = exec + n
      /\ phase' = [t \in Tasks |->
                     IF t \notin shifted THEN ph[t]
                     ELSE IF ph[t] = "pending" THEN "started" ELSE "granted"]
      /\ occupyingSlot' = [t \in Tasks |->
                             (t \in shifted /\ ph[t] = "pending") \/ occ[t]]

(* Mistake: the slot is given up and nobody is let in. *)
ReleaseSlotUnflushed(t, p) ==
  /\ executing' = executing - 1
  /\ phase' = [phase EXCEPT ![t] = p]
  /\ occupyingSlot' = [occupyingSlot EXCEPT ![t] = FALSE]
  /\ UNCHANGED pending

(* Mistake: occupyingSlot stays set when the slot is given up. *)
ReleaseSlotStillMarked(t, p) ==
  Flush(pending, executing - 1, [phase EXCEPT ![t] = p], occupyingSlot)

(* flush() once task t has moved to phase p and given its slot up. *)
ReleaseSlot(t, p) ==
  Flush(pending, executing - 1, [phase EXCEPT ![t] = p], [occupyingSlot EXCEPT ![t] = FALSE])

-----------------------------------------------------------------------------
Enqueue(t) ==
  /\ phase[t] = "new"
  /\ Flush(Append(pending, t), executing, [phase EXCEPT ![t] = "pending"], occupyingSlot)
  /\ UNCHANGED <<maxExecuting, abandoned, settled>>

(* The setImmediate callback calls the task, an abandoned one too. *)
RunTask(t) ==
  /\ phase[t] = "started"
  /\ phase' = [phase EXCEPT ![t] = "running"]
  /\ UNCHANGED <<pending, executing, maxExecuting, occupyingSlot, abandoned, settled>>

(* Mistake: suspendDuring awaits fn() without giving the slot up. *)
BeginSuspendOccupying(t) ==
  /\ phase[t] = "running"
  /\ occupyingSlot[t] /\ ~abandoned[t]
  /\ phase' = [phase EXCEPT ![t] = "suspended"]
  /\ UNCHANGED <<pending, executing, maxExecuting, occupyingSlot, abandoned, settled>>

(* suspendDuring by a task that does not occupy a slot, or an abandoned    *)
(* one, only awaits fn(): it changes nothing here.                         *)
BeginSuspend(t) ==
  /\ phase[t] = "running"
  /\ occupyingSlot[t] /\ ~abandoned[t]
  /\ ReleaseSlot(t, "suspended")
  /\ UNCHANGED <<maxExecuting, abandoned, settled>>

(* fn() is over, with a result or an error. *)
EndSuspend(t) ==
  /\ phase[t] = "suspended"
  /\ IF abandoned[t]
     THEN /\ phase' = [phase EXCEPT ![t] = "running"]
          /\ UNCHANGED <<pending, executing, occupyingSlot>>
     ELSE Flush(Append(pending, t), executing, [phase EXCEPT ![t] = "acquiring"], occupyingSlot)
  /\ UNCHANGED <<maxExecuting, abandoned, settled>>

(* The continuation of `await this.acquire()'. *)
Resume(t) ==
  /\ phase[t] = "granted"
  /\ IF abandoned[t]
     THEN ReleaseSlot(t, "running")
     ELSE /\ phase' = [phase EXCEPT ![t] = "running"]
          /\ occupyingSlot' = [occupyingSlot EXCEPT ![t] = TRUE]
          /\ UNCHANGED <<pending, executing>>
  /\ UNCHANGED <<maxExecuting, abandoned, settled>>

(* task(lease) settles, and settles the completion unless abandon() or     *)
(* cancel() did.  It has no lease call outstanding: the session awaits its *)
(* tool calls.                                                             *)
Settle(t) ==
  /\ phase[t] = "running"
  /\ phase' = [phase EXCEPT ![t] = "settling"]
  /\ settled' = [settled EXCEPT ![t] = TRUE]
  /\ UNCHANGED <<pending, executing, maxExecuting, occupyingSlot, abandoned>>

(* Mistake: the finally decrements whether or not the task has a slot. *)
FinishAlwaysReleasing(t) ==
  /\ phase[t] = "settling"
  /\ ReleaseSlot(t, "finished")
  /\ UNCHANGED <<maxExecuting, abandoned, settled>>

(* The finally of the task: it flushes whether or not it had a slot. *)
Finish(t) ==
  /\ phase[t] = "settling"
  /\ IF occupyingSlot[t]
     THEN ReleaseSlot(t, "finished")
     ELSE Flush(pending, executing, [phase EXCEPT ![t] = "finished"], occupyingSlot)
  /\ UNCHANGED <<maxExecuting, abandoned, settled>>

(* cancel() takes the start callback out of the queue; it reports FALSE    *)
(* and does nothing once the task was started.                             *)
Cancel(t) ==
  /\ phase[t] = "pending"
  /\ \E i \in 1..Len(pending) : pending[i] = t /\ pending' = RemoveAt(pending, i)
  /\ phase' = [phase EXCEPT ![t] = "cancelled"]
  /\ settled' = [settled EXCEPT ![t] = TRUE]
  /\ UNCHANGED <<executing, maxExecuting, occupyingSlot, abandoned>>

(* abandon() of a task that cancel() no longer reaches.  The scheduler     *)
(* forgets a task once its completion is settled, a few promise reactions  *)
(* later: until its finally ran, it may still be abandoned.                *)
Abandon(t) ==
  /\ phase[t] \notin {"new", "pending", "cancelled", "finished"}
  /\ ~abandoned[t]
  /\ abandoned' = [abandoned EXCEPT ![t] = TRUE]
  /\ settled' = [settled EXCEPT ![t] = TRUE]
  /\ IF occupyingSlot[t]
     THEN ReleaseSlot(t, phase[t])
     ELSE UNCHANGED <<pending, executing, phase, occupyingSlot>>
  /\ UNCHANGED maxExecuting

(* configure() does not flush. *)
Configure(n) ==
  /\ n # maxExecuting
  /\ maxExecuting' = n
  /\ UNCHANGED <<phase, pending, executing, occupyingSlot, abandoned, settled>>

TaskStep(t) ==
  \/ RunTask(t) \/ EndSuspend(t) \/ Resume(t) \/ Settle(t) \/ Finish(t)

Next ==
  \/ \E t \in Tasks :
       TaskStep(t) \/ Enqueue(t) \/ BeginSuspend(t) \/ Cancel(t) \/ Abandon(t)
  \/ \E n \in Limits : Configure(n)

(***************************************************************************)
(* The event loop runs every callback and promise reaction it has been     *)
(* given, what a task awaits ends, and a task ends.  Nobody has to         *)
(* enqueue, suspend, cancel, abandon or configure.                         *)
(***************************************************************************)
Fairness == \A t \in Tasks : WF_vars(TaskStep(t))

Spec == Init /\ [][Next]_vars /\ Fairness

-----------------------------------------------------------------------------
(* The tasks that hold a slot: marked as occupying one, or handed one by   *)
(* flush() and about to find out.                                          *)
Holders == {t \in Tasks : occupyingSlot[t] \/ phase[t] = "granted"}

(* The counter is the number of slots that are really held: no path        *)
(* through suspension, cancellation, abandonment and completion loses or   *)
(* frees a slot twice.                                                     *)
SlotsAccounted == executing = Cardinality(Holders)

(* A callback never waits in a queue that nobody will flush: while one     *)
(* waits, some task holds a slot, and flushes when it gives it up.         *)
NoLostWakeup == pending # <<>> => Holders # {}

(* An abandoned task keeps no slot: the only one it can still be handed is *)
(* that of an acquire() it was already queued for, until its continuation. *)
AbandonedHoldsNothing ==
  \A t \in Tasks : abandoned[t] => ~occupyingSlot[t]

(* A task that settled by itself or was cancelled, and one whose finally   *)
(* ran, holds no slot and never queues again.                              *)
FinishedHoldsNothing ==
  \A t \in Tasks : phase[t] \in {"cancelled", "finished"} =>
    /\ t \notin Holders
    /\ t \notin Range(pending)
    /\ settled[t]

(* Nobody moves into a slot beyond the limit of that moment, also when the *)
(* limit was lowered below the number of slots held.                       *)
AdmitsWithinLimit ==
  [][Holders' \subseteq Holders \/ Cardinality(Holders') <= maxExecuting']_vars

(* Slots go to the callbacks at the head of the queue, and cancelling is   *)
(* the only other way out of it: nobody overtakes.                         *)
Pool == INSTANCE SlotPool WITH
          Clients <- Tasks, holders <- Holders, waiting <- pending, limit <- maxExecuting

ImplementsSlotPool == Pool!Spec

(* Whoever waits for a slot, to start or to continue, eventually stops     *)
(* waiting.                                                                *)
NoStarvation ==
  \A t \in Tasks : phase[t] \in {"pending", "acquiring"} ~>
                   phase[t] \notin {"pending", "acquiring"}
=============================================================================
