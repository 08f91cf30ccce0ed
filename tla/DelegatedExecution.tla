------------------------- MODULE DelegatedExecution -------------------------
(***************************************************************************)
(* Generations that delegate to each other through one ExecutionQueue: the *)
(* tasks of the queue are the executions of a delegation tree, a parent    *)
(* joins its children with GenerationScheduler.suspendConversationSlotDuring*)
(* (joinAction of packages/subagent/src/tool.ts) and any of them may be    *)
(* cancelled by cancelSubagent and abandoned when that takes too long.     *)
(*                                                                         *)
(* This is the composition the in-process executor makes: it is the one    *)
(* whose sessions get the child tool and with it the lease.                *)
(***************************************************************************)
EXTENDS ExecutionQueue

CONSTANTS
  Parent,         \* the task that spawns each task, or Root
  Root,           \* the main session, which holds no slot
  ParallelCalls   \* may one turn of a session issue several tool calls?

ASSUME ParentAssumption == Parent \in [Tasks -> Tasks \cup {Root}] /\ Root \notin Tasks

VARIABLES
  done,       \* is the generation of each task done?
  yielding,   \* the targets of the join that suspended the lease of a task
  holding     \* the targets of a join that runs next to it

joinVars == <<done, yielding, holding>>
delegationVars == <<vars, joinVars>>

Enqueued == {t \in Tasks : phase[t] # "new"}
Children(p) == {t \in Tasks : Parent[t] = p}

DelegationTypeOK ==
  /\ TypeOK
  /\ done \in [Tasks -> BOOLEAN]
  /\ yielding \in [Tasks -> SUBSET Tasks]
  /\ holding \in [Tasks -> SUBSET Tasks]

DelegationInit ==
  /\ Init
  /\ done = [t \in Tasks |-> FALSE]
  /\ yielding = [t \in Tasks |-> {}]
  /\ holding = [t \in Tasks |-> {}]

-----------------------------------------------------------------------------
(* A session between two tool calls. *)
Idle(p) == phase[p] = "running" /\ yielding[p] = {} /\ holding[p] = {}

Spawn(t) ==
  /\ Parent[t] # Root => Idle(Parent[t])
  /\ Enqueue(t)
  /\ UNCHANGED joinVars

(* joinAction waits for T with the lease of p suspended; an abandoned task *)
(* has no slot to give up and only waits.                                  *)
Join(p, T) ==
  /\ Idle(p)
  /\ IF abandoned[p]
     THEN /\ holding' = [holding EXCEPT ![p] = T]
          /\ UNCHANGED <<vars, yielding>>
     ELSE /\ BeginSuspend(p)
          /\ yielding' = [yielding EXCEPT ![p] = T]
          /\ UNCHANGED holding
  /\ UNCHANGED done

(* A second join of the same turn finds occupyingSlot unset, and only      *)
(* waits: suspendDuring returns fn() as it is.                             *)
JoinAlongside(p, T) ==
  /\ ParallelCalls
  /\ phase[p] = "suspended" /\ holding[p] = {}
  /\ holding' = [holding EXCEPT ![p] = T]
  /\ UNCHANGED <<vars, done, yielding>>

(* A join ends when every target is done, or with an error when the tool   *)
(* call is aborted because the caller's own generation was.                *)
Over(p, T) == done[p] \/ \A c \in T : done[c]

YieldingJoinEnds(p) ==
  /\ Over(p, yielding[p])
  /\ EndSuspend(p)
  /\ yielding' = [yielding EXCEPT ![p] = {}]
  /\ UNCHANGED <<done, holding>>

HoldingJoinEnds(p) ==
  /\ holding[p] # {} /\ Over(p, holding[p])
  /\ holding' = [holding EXCEPT ![p] = {}]
  /\ UNCHANGED <<vars, done, yielding>>

(* The session's turn is over only when its calls are. *)
Complete(t) ==
  /\ Idle(t)
  /\ Settle(t)
  /\ done' = [done EXCEPT ![t] = TRUE]
  /\ UNCHANGED <<yielding, holding>>

(* cancelSubagent: abort() settles the generation at once, and             *)
(* cancelQueued() takes it out of the queue if it is still there.          *)
CancelGeneration(t) ==
  /\ t \in Enqueued /\ ~done[t]
  /\ done' = [done EXCEPT ![t] = TRUE]
  /\ IF phase[t] = "pending" THEN Cancel(t) ELSE UNCHANGED vars
  /\ UNCHANGED <<yielding, holding>>

(* finishCancellation, when the execution did not settle in time. *)
AbandonGeneration(t) == done[t] /\ Abandon(t) /\ UNCHANGED joinVars

QueueStep(t) == (RunTask(t) \/ Resume(t) \/ Finish(t)) /\ UNCHANGED joinVars

GenerationStep(t) ==
  QueueStep(t) \/ YieldingJoinEnds(t) \/ HoldingJoinEnds(t) \/ Complete(t)

DelegationNext ==
  \/ \E t \in Tasks :
       GenerationStep(t) \/ Spawn(t) \/ CancelGeneration(t) \/ AbandonGeneration(t)
  \/ \E p \in Tasks : \E T \in SUBSET (Children(p) \cap Enqueued) \ {{}} :
       Join(p, T) \/ JoinAlongside(p, T)
  \/ \E n \in Limits : Configure(n) /\ UNCHANGED joinVars

(* As in ExecutionQueue; a join ends because its targets do, and a session *)
(* does not call tools for ever instead of ending its turn.                *)
DelegationFairness ==
  \A t \in Tasks : WF_delegationVars(GenerationStep(t)) /\ SF_delegationVars(Complete(t))

DelegationSpec == DelegationInit /\ [][DelegationNext]_delegationVars /\ DelegationFairness

-----------------------------------------------------------------------------
(* Whom t waits for itself. *)
Awaited(t) == {c \in yielding[t] \cup holding[t] : ~done[t] /\ ~done[c]}

(* p waits for c, or for one that waits for it: c is in whatever set has   *)
(* those p waits for and those its members wait for.                       *)
WaitsFor(p, c) ==
  \A S \in SUBSET Tasks :
    (\A t \in S \cup {p} : Awaited(t) \subseteq S) => c \in S

(* "Lets an executing task yield its capacity while awaiting queued        *)
(* descendant work": nobody holds a slot while it waits for a generation   *)
(* that is queued for one.                                                 *)
YieldsToAwaited ==
  \A p \in Holders : \A c \in Range(pending) : ~WaitsFor(p, c)

(* Delegation through a shared pool, however small, ends: every generation *)
(* that was started gets done, whatever joins what.                        *)
EveryGenerationEnds ==
  \A t \in Tasks : phase[t] # "new" ~> done[t]

(* And every task that waits for a slot, to start or to take it back after *)
(* a join, gets one or stops waiting.                                      *)
EveryoneServed == EveryGenerationEnds /\ NoStarvation
=============================================================================
