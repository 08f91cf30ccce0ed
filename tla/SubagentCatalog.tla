--------------------------- MODULE SubagentCatalog ---------------------------
(***************************************************************************)
(* SubagentRuntime: the catalog of retained conversations, the tree they   *)
(* form and the tool calls that change it.  The calls come from the root   *)
(* agent (and its overlay) and from the sessions of the conversations      *)
(* themselves; a call of the latter captures its conversation and          *)
(* generation, awaits prepareInvocation, and acts only afterwards.         *)
(* Conversation models what happens inside one conversation: here its      *)
(* executions are reduced to the status of the latest generation, to       *)
(* `stopping' and to whether it left a session that may be continued.      *)
(***************************************************************************)
EXTENDS Integers, FiniteSets

CONSTANTS
  Ids,             \* identifiers the ConversationIdAllocator can hand out
  Root,            \* stands for the root agent as a parent
  Calls,           \* tool calls that may be under way at once
  Limits,          \* values configure() may give maximumConversations
  MaxGenerations,  \* bound: generations per conversation
  MaxResumed,      \* bound: conversations beyond their first generation
  MaxBatch,        \* bound: spawns of one call
  RemovesJoined    \* whether a call may remove the target of an open join

ASSUME CatalogAssumption ==
  /\ IsFiniteSet(Ids) /\ Root \notin Ids
  /\ Limits \subseteq Nat /\ Limits # {}
  /\ MaxGenerations \in Nat \ {0}
  /\ MaxResumed \in Nat /\ MaxBatch \in Nat
  /\ RemovesJoined \in BOOLEAN

VARIABLES
  catalog,   \* SubagentRuntime.conversations
  claimed,   \* ConversationIdAllocator: identifiers are never given back
  limit,     \* maximumConversations
  parent,    \* parentConversationId, Root for none
  latest,    \* number of the latest generation
  status,    \* status of the latest generation
  stopping,  \* conversations whose cancellation has not settled
  session,   \* hasRetainedResumableSession, once the generation is done
  joined,    \* conversations whose latest generation is joined
  call       \* tool calls under way

treeVars == <<catalog, claimed, limit, parent>>
lifeVars == <<latest, status, stopping, session>>
vars == <<treeVars, lifeVars, joined, call>>

-----------------------------------------------------------------------------
Generations == 1..MaxGenerations

(* "finished" is every outcome but "aborted"; one that is no basis for a   *)
(* resume leaves no session to continue.                                   *)
Outcomes == {"finished", "aborted"}
Callers == [conversation : Ids, generation : Generations]
             \cup [conversation : {Root}, generation : {0}]
RootCaller == [conversation |-> Root, generation |-> 0]

(* A call is free, prepared (its caller is captured), cancelling, joining, *)
(* collecting (every target is done, the slot of the caller may not be     *)
(* back yet), or lapsed: over, with its attempt left running in the        *)
(* nestedJoins of a generation.                                            *)
Phases == {"free", "prepared", "cancelling", "joining", "collecting", "lapsed"}
Free == [phase |-> "free", by |-> RootCaller, targets |-> {}]

(* Every variable has its type; only a conversation whose identifier was   *)
(* allocated is in the catalog.                                            *)
TypeOK ==
  /\ claimed \in SUBSET Ids /\ catalog \in SUBSET claimed
  /\ limit \in Limits
  /\ parent \in [Ids -> Ids \cup {Root}]
  /\ latest \in [Ids -> Generations]
  /\ status \in [Ids -> {"queued", "running"} \cup Outcomes]
  /\ stopping \in SUBSET catalog /\ session \in SUBSET catalog /\ joined \in SUBSET catalog
  /\ call \in [Calls -> [phase : Phases, by : Callers,
                         targets : SUBSET (Ids \X Generations)]]

Init ==
  /\ catalog = {} /\ claimed = {}
  /\ limit \in Limits
  /\ parent = [c \in Ids |-> Root]
  /\ latest = [c \in Ids |-> 1]
  /\ status = [c \in Ids |-> "queued"]
  /\ stopping = {} /\ session = {} /\ joined = {}
  /\ call = [i \in Calls |-> Free]

-----------------------------------------------------------------------------
(* Reading the catalog.                                                    *)

IsDone(c) == status[c] \in Outcomes
HasActiveExecution(c) == c \in stopping \/ ~IsDone(c)

IsCurrentCaller(k) ==
  \/ k = RootCaller
  \/ k.conversation \in catalog /\ latest[k.conversation] = k.generation

(* The targets that assertDirectOwner lets the caller k touch. *)
DirectlyOwned(k) ==
  {c \in catalog : IsCurrentCaller(k) /\ parent[c] = k.conversation}

IsBound(i) == call[i].phase \in {"joining", "collecting"}

(* Mistake: joins that still observe the generation do not count. *)
IsResumeAllowedObserved(c) ==
  /\ c \notin stopping /\ IsDone(c) /\ c \in joined /\ c \in session

IsResumeAllowed(c) ==
  /\ c \notin stopping /\ IsDone(c) /\ c \in joined /\ c \in session
  /\ \A i \in Calls : IsBound(i) => <<c, latest[c]>> \notin call[i].targets

(* conversationSubtree: the least set with c that holds all children of    *)
(* its members.                                                            *)
Subtree(c) ==
  {d \in catalog : \A S \in SUBSET catalog :
     (c \in S /\ \A e \in catalog : parent[e] \in S => e \in S) => d \in S}

-----------------------------------------------------------------------------
(* Tool calls.  A free call is one of the root agent, which acts at once.  *)

Ready(i) == call[i].phase \in {"free", "prepared"}
Answer(i) == call' = [call EXCEPT ![i] = Free]

(* execute() of a child's tool: requireCurrentGeneration, then an await. *)
Invoke(i, c) ==
  /\ call[i].phase = "free"
  /\ c \in catalog /\ status[c] = "running"
  /\ call' = [call EXCEPT ![i] =
       [phase |-> "prepared", targets |-> {},
        by |-> [conversation |-> c, generation |-> latest[c]]]]
  /\ UNCHANGED <<treeVars, lifeVars, joined>>

(* Mistake: the capacity is looked at once for the whole batch. *)
AdmittedOnce(n) ==
  IF Cardinality(catalog) < limit THEN n ELSE 0

(* How many of n spawns find the catalog below its limit. *)
Admitted(n) ==
  LET room == limit - Cardinality(catalog)
  IN  IF room <= 0 THEN 0 ELSE IF n < room THEN n ELSE room

(* Mistake: the caller that was captured is not looked at again. *)
SpawnUnchecked(i, n) ==
  /\ Ready(i) /\ n \in 1..MaxBatch
  /\ \E new \in SUBSET (Ids \ claimed) :
       /\ Cardinality(new) = Admitted(n)
       /\ catalog' = catalog \cup new
       /\ claimed' = claimed \cup new
       /\ parent' = [c \in Ids |-> IF c \in new THEN call[i].by.conversation ELSE parent[c]]
  /\ Answer(i)
  /\ UNCHANGED <<limit, lifeVars, joined>>

(* Mistake: the identifier is not recorded as claimed. *)
SpawnUnclaimed(i, n) ==
  /\ Ready(i) /\ n \in 1..MaxBatch
  /\ \E new \in SUBSET (Ids \ claimed) :
       /\ Cardinality(new) = Admitted(n) /\ IsCurrentCaller(call[i].by)
       /\ catalog' = catalog \cup new
       /\ parent' = [c \in Ids |-> IF c \in new THEN call[i].by.conversation ELSE parent[c]]
  /\ Answer(i)
  /\ UNCHANGED <<claimed, limit, lifeVars, joined>>

(* startTasks for a batch of n spawns: each of them takes an identifier    *)
(* and is scheduled, until the capacity or the identifiers run out.        *)
Spawn(i, n) ==
  /\ Ready(i) /\ n \in 1..MaxBatch
  /\ \E new \in SUBSET (Ids \ claimed) :
       /\ IF IsCurrentCaller(call[i].by)
          THEN \/ Cardinality(new) = Admitted(n)
               \/ new = Ids \ claimed /\ Cardinality(new) < Admitted(n)
          ELSE new = {}
       /\ catalog' = catalog \cup new
       /\ claimed' = claimed \cup new
       /\ parent' = [c \in Ids |-> IF c \in new THEN call[i].by.conversation ELSE parent[c]]
  /\ Answer(i)
  /\ UNCHANGED <<limit, lifeVars, joined>>

(* startTasks for a batch of resumes: no capacity is needed. *)
Resume(i, targets) ==
  LET resumed == {c \in targets \cap DirectlyOwned(call[i].by) :
                    IsResumeAllowed(c) /\ latest[c] < MaxGenerations}
  IN  /\ Ready(i)
      /\ Cardinality({c \in catalog : latest[c] > 1} \cup resumed) <= MaxResumed
      /\ latest' = [c \in Ids |-> IF c \in resumed THEN latest[c] + 1 ELSE latest[c]]
      /\ status' = [c \in Ids |-> IF c \in resumed THEN "queued" ELSE status[c]]
      /\ joined' = joined \ resumed
      /\ Answer(i)
      /\ UNCHANGED <<treeVars, stopping, session>>

(* cancelAction up to its await: cancelSubagent for each target, which     *)
(* aborts what is not done and waits for what is still stopping.           *)
Cancel(i, targets) ==
  LET owned == targets \cap DirectlyOwned(call[i].by)
      hit == {c \in owned : ~IsDone(c)}
      awaited == owned \cap (stopping \cup hit)
  IN  /\ Ready(i)
      /\ status' = [c \in Ids |-> IF c \in hit THEN "aborted" ELSE status[c]]
      /\ stopping' = stopping \cup hit
      /\ call' = [call EXCEPT ![i].phase = "cancelling",
                              ![i].targets = {<<c, latest[c]>> : c \in awaited}]
      /\ UNCHANGED <<treeVars, latest, session, joined>>

(* The cancellation of c is over, and every call that waits for it knows. *)
Settled(c) ==
  /\ stopping' = stopping \ {c}
  /\ call' = [i \in Calls |->
       IF call[i].phase = "cancelling"
       THEN [call[i] EXCEPT !.targets = {t \in @ : t[1] # c}] ELSE call[i]]

CancelReturns(i) ==
  /\ call[i].phase = "cancelling" /\ call[i].targets = {}
  /\ Answer(i)
  /\ UNCHANGED <<treeVars, lifeVars, joined>>

(* The timer of one cancellation fires: its execution is abandoned and the *)
(* session given up.                                                       *)
ForceAbandon(i, c) ==
  /\ call[i].phase = "cancelling" /\ <<c, latest[c]>> \in call[i].targets
  /\ Settled(c)
  /\ session' = session \ {c}
  /\ UNCHANGED <<treeVars, latest, status, joined>>

(* bindSubagentJoin of the targets validateSubagentJoin lets pass. *)
Join(i, targets) ==
  LET valid == targets \cap DirectlyOwned(call[i].by)
  IN  /\ Ready(i)
      /\ IF valid = {}
         THEN Answer(i)
         ELSE call' = [call EXCEPT ![i].phase = "joining",
                                   ![i].targets = {<<c, latest[c]>> : c \in valid}]
      /\ UNCHANGED <<treeVars, lifeVars, joined>>

(* A generation that was bound is done when its conversation went on to    *)
(* another one, was removed, or has an outcome.                            *)
TargetDone(t) == t[1] \in catalog => t[2] < latest[t[1]] \/ IsDone(t[1])

(* A nested join's attempt is updated only for a current caller: when that *)
(* fails, the attempt of a retained caller stays "running".                *)
CloseAttempt(i, next) ==
  call' = [call EXCEPT ![i] =
    IF ~IsCurrentCaller(@.by) /\ @.by.conversation \in catalog
    THEN [@ EXCEPT !.phase = "lapsed", !.targets = {}] ELSE next]

(* The completion of a binding resolves. *)
TargetsDone(i) ==
  /\ call[i].phase = "joining"
  /\ \A t \in call[i].targets : TargetDone(t)
  /\ CloseAttempt(i, [call[i] EXCEPT !.phase = "collecting"])
  /\ UNCHANGED <<treeVars, lifeVars, joined>>

(* The call goes on: markJoined, release and the answer. *)
Collect(i) ==
  /\ call[i].phase = "collecting"
  /\ joined' = joined \cup
       {c \in catalog : <<c, latest[c]>> \in call[i].targets}
  /\ Answer(i)
  /\ UNCHANGED <<treeVars, lifeVars>>

(* The join is cancelled by its caller: interrupt() and release(). *)
InterruptJoin(i) ==
  /\ IsBound(i)
  /\ LET k == call[i].by
     IN  IsCurrentCaller(k) /\ k # RootCaller => status[k.conversation] = "aborted"
  /\ IF call[i].phase = "joining" THEN CloseAttempt(i, Free) ELSE Answer(i)
  /\ UNCHANGED <<treeVars, lifeVars, joined>>

(* A subtree goes as a whole, and only when nothing of it is active. *)
Removable(c) == \A d \in Subtree(c) : ~HasActiveExecution(d)

(* removeConversations: requested conversations below a requested one that *)
(* the caller owns go, or stay, with it.  Nothing is kept of one that went *)
(* but that its identifier is claimed.                                     *)
Remove(i, targets) ==
  LET roots == {c \in targets \cap DirectlyOwned(call[i].by) : Removable(c)}
      gone == UNION {Subtree(c) : c \in roots}
  IN  /\ Ready(i)
      /\ ~RemovesJoined =>
           \A j \in Calls : IsBound(j) => \A t \in call[j].targets : t[1] \notin gone
      /\ catalog' = catalog \ gone
      /\ parent' = [c \in Ids |-> IF c \in gone THEN Root ELSE parent[c]]
      /\ latest' = [c \in Ids |-> IF c \in gone THEN 1 ELSE latest[c]]
      /\ status' = [c \in Ids |-> IF c \in gone THEN "queued" ELSE status[c]]
      /\ stopping' = stopping \ gone
      /\ session' = session \ gone
      /\ joined' = joined \ gone
      /\ Answer(i)
      /\ UNCHANGED <<claimed, limit>>

Configure(n) ==
  /\ n \in Limits
  /\ limit' = n
  /\ UNCHANGED <<catalog, claimed, parent, lifeVars, joined, call>>

-----------------------------------------------------------------------------
(* Executions.  A session's run ends only after the tool calls it made.    *)

Quiet(c) ==
  \A i \in Calls : call[i].phase # "free" =>
                     call[i].by # [conversation |-> c, generation |-> latest[c]]

Bind(c) ==
  /\ c \in catalog /\ status[c] = "queued"
  /\ status' = [status EXCEPT ![c] = "running"]
  /\ session' = session \cup {c}
  /\ UNCHANGED <<treeVars, latest, stopping, joined, call>>

FailToStart(c) ==
  /\ c \in catalog /\ status[c] = "queued"
  /\ status' = [status EXCEPT ![c] = "finished"]
  /\ session' = session \ {c}
  /\ UNCHANGED <<treeVars, latest, stopping, joined, call>>

EndExecution(c) ==
  /\ c \in catalog /\ status[c] = "running" /\ Quiet(c)
  /\ status' = [status EXCEPT ![c] = "finished"]
  /\ session' \in {session, session \ {c}}
  /\ UNCHANGED <<treeVars, latest, stopping, joined, call>>

(* Mistake: the abort of the session is enough. *)
SettleCancellationEarly(c) ==
  /\ c \in stopping
  /\ Settled(c)
  /\ UNCHANGED <<treeVars, latest, status, session, joined>>

(* finishStopping: the abort and the cancelled execution have both ended. *)
SettleCancellation(c) ==
  /\ c \in stopping /\ Quiet(c)
  /\ Settled(c)
  /\ UNCHANGED <<treeVars, latest, status, session, joined>>

-----------------------------------------------------------------------------
CallStep(i) ==
  \/ \E c \in Ids : Invoke(i, c) \/ ForceAbandon(i, c)
  \/ \E n \in 1..MaxBatch : Spawn(i, n)
  \/ \E targets \in SUBSET catalog \ {{}} :
       Resume(i, targets) \/ Cancel(i, targets) \/ Join(i, targets) \/ Remove(i, targets)
  \/ CancelReturns(i) \/ TargetsDone(i) \/ Collect(i) \/ InterruptJoin(i)

ExecutionStep(c) ==
  Bind(c) \/ FailToStart(c) \/ EndExecution(c) \/ SettleCancellation(c)

Next ==
  \/ \E i \in Calls : CallStep(i)
  \/ \E c \in Ids : ExecutionStep(c)
  \/ \E n \in Limits : Configure(n)

Spec == Init /\ [][Next]_vars

-----------------------------------------------------------------------------
(* No conversation is orphaned: a parent stays in the catalog as long as   *)
(* its children, whatever calls its own session left behind.               *)
TreeIntact == \A c \in catalog : parent[c] \in catalog \cup {Root}

(* A removal never takes a conversation that executes or whose             *)
(* cancellation is still settling, however deep below the requested one.   *)
RemovesInactive ==
  [][\A c \in catalog \ catalog' : ~HasActiveExecution(c)]_vars

(* A batch of spawns never grows the catalog beyond the limit in force.    *)
GrowsWithinCapacity ==
  [][catalog' \subseteq catalog \/ Cardinality(catalog') <= limit]_vars

(* A join collects the generation it bound: while it is open, none of its  *)
(* targets starts another generation.                                      *)
JoinTargetsCurrent ==
  \A i \in Calls : IsBound(i) =>
    \A t \in call[i].targets : t[1] \in catalog => latest[t[1]] = t[2]

(* The record of a nested join does not stay "running" in the generation   *)
(* of a retained conversation once the tool call is over.                  *)
NestedJoinsClosed == \A i \in Calls : call[i].phase # "lapsed"

(* The update listener of a join that waits projects each of its targets   *)
(* out of the catalog, and throws at the one whose update it hears when a  *)
(* target is missing.                                                      *)
JoinTargetsRetained ==
  \A i \in Calls :
    (IsBound(i) /\ \E t \in call[i].targets : ~TargetDone(t)) =>
      \A t \in call[i].targets : t[1] \in catalog
=============================================================================
