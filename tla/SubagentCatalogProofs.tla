------------------------ MODULE SubagentCatalogProofs ------------------------
(***************************************************************************)
(* What holds of the catalog for every set of identifiers, every number of *)
(* calls and every limit.  The inductive invariant adds to the properties  *)
(* why the owner of an open call cannot move on to another generation: its *)
(* execution has not ended, or it was given up together with its session.  *)
(***************************************************************************)
EXTENDS SubagentCatalog, FiniteSetTheorems, TLAPS

StoppingIsDone == \A c \in stopping : IsDone(c)

(* What calls refer to was allocated, so no new conversation can be it. *)
CallsClaimed ==
  \A i \in Calls :
    /\ call[i].phase = "free" => call[i].by = RootCaller
    /\ call[i].by.conversation \in claimed \cup {Root}
    /\ \A t \in call[i].targets : t[1] \in claimed

OwnerHeld(k) ==
  k.conversation \in catalog =>
    /\ latest[k.conversation] = k.generation
    /\ \/ status[k.conversation] = "running"
       \/ k.conversation \in stopping
       \/ IsDone(k.conversation) /\ k.conversation \notin session

OwnersHeld == \A i \in Calls : call[i].by # RootCaller => OwnerHeld(call[i].by)

IInv ==
  /\ TypeOK /\ TreeIntact /\ StoppingIsDone /\ CallsClaimed /\ OwnersHeld
  /\ JoinTargetsCurrent /\ NestedJoinsClosed

-----------------------------------------------------------------------------
(* The callers of calls.                                                   *)

LEMMA CallerTypes ==
  ASSUME CatalogAssumption, TypeOK, NEW i \in Calls
  PROVE  /\ call[i].by \in Callers
         /\ call[i].by # RootCaller =>
              call[i].by.conversation \in Ids /\ call[i].by.generation \in Generations
         /\ call[i].targets \subseteq Ids \X Generations
         /\ Free \in [phase : Phases, by : Callers, targets : SUBSET (Ids \X Generations)]
<1>1. call[i] \in [phase : Phases, by : Callers, targets : SUBSET (Ids \X Generations)]
  BY DEF TypeOK
<1>2. QED BY <1>1 DEF Callers, RootCaller, Free, Phases

(* Whoever owns a target directly is the root agent or in the catalog. *)
LEMMA OwnerRetained ==
  ASSUME CatalogAssumption, NEW k \in Callers, IsCurrentCaller(k)
  PROVE  k.conversation \in catalog \cup {Root}
BY DEF IsCurrentCaller, Callers, RootCaller

(* A subtree lies in the catalog, holds its root and every child of one of *)
(* its members.                                                            *)
LEMMA SubtreeClosed ==
  ASSUME NEW c \in catalog
  PROVE  /\ Subtree(c) \subseteq catalog
         /\ c \in Subtree(c)
         /\ \A d \in Subtree(c), e \in catalog : parent[e] = d => e \in Subtree(c)
<1>1. Subtree(c) \subseteq catalog /\ c \in Subtree(c)
  BY DEF Subtree
<1>2. ASSUME NEW d \in Subtree(c), NEW e \in catalog, parent[e] = d
      PROVE  e \in Subtree(c)
  <2>1. SUFFICES ASSUME NEW S \in SUBSET catalog, c \in S,
                        \A f \in catalog : parent[f] \in S => f \in S
                 PROVE  e \in S
    BY <1>2 DEF Subtree
  <2>2. d \in S
    BY <1>2, <2>1 DEF Subtree
  <2>3. QED BY <1>2, <2>1, <2>2
<1>3. QED BY <1>1, <1>2

(* The attempt of a nested join is closed as its call goes on: the owner   *)
(* is the current caller unless it was removed.                            *)
LEMMA AttemptCloses ==
  ASSUME CatalogAssumption, IInv, NEW i \in Calls, NEW next, CloseAttempt(i, next)
  PROVE  call' = [call EXCEPT ![i] = next]
<1>1. IsCurrentCaller(call[i].by) \/ call[i].by.conversation \notin catalog
  BY DEF IInv, OwnersHeld, OwnerHeld, IsCurrentCaller
<1>2. QED BY <1>1 DEF CloseAttempt, IInv, TypeOK

LEMMA InvokeStep ==
  ASSUME CatalogAssumption, IInv, NEW i \in Calls, NEW c \in Ids, Invoke(i, c)
  PROVE  IInv'
<1> USE DEF vars, treeVars, lifeVars
<1>1. TypeOK'
  BY CatalogAssumption DEF CatalogAssumption, IInv, Invoke, TypeOK, Phases, Callers, RootCaller, Free, Outcomes, Generations
<1>2. TreeIntact'
  BY CatalogAssumption DEF CatalogAssumption, IInv, Invoke, TypeOK, TreeIntact
<1>3. StoppingIsDone'
  BY CatalogAssumption DEF CatalogAssumption, IInv, Invoke, TypeOK, StoppingIsDone, IsDone, Outcomes
<1>4. CallsClaimed'
  BY CatalogAssumption DEF CatalogAssumption, IInv, Invoke, TypeOK, CallsClaimed, Free, RootCaller
<1>5. OwnersHeld'
  BY CatalogAssumption DEF CatalogAssumption, IInv, Invoke, TypeOK, OwnersHeld, OwnerHeld, CallsClaimed, StoppingIsDone, IsDone, Outcomes, Free, RootCaller, Callers
<1>6. JoinTargetsCurrent'
  BY CatalogAssumption DEF CatalogAssumption, IInv, Invoke, TypeOK, JoinTargetsCurrent, CallsClaimed, IsBound, Free, Phases
<1>7. NestedJoinsClosed'
  BY CatalogAssumption DEF CatalogAssumption, IInv, Invoke, TypeOK, NestedJoinsClosed, Free
<1>8. QED BY <1>1, <1>2, <1>3, <1>4, <1>5, <1>6, <1>7 DEF IInv

LEMMA SpawnStep ==
  ASSUME CatalogAssumption, IInv, NEW i \in Calls, NEW n \in 1..MaxBatch, Spawn(i, n)
  PROVE  IInv'
<1> USE DEF vars, treeVars, lifeVars
<1>1. TypeOK'
  BY CatalogAssumption DEF CatalogAssumption, IInv, Spawn, Answer, Ready, TypeOK, Phases, Callers, RootCaller, Free, Outcomes, Generations
<1>2. TreeIntact'
  <2>1. PICK new \in SUBSET (Ids \ claimed) :
          /\ IsCurrentCaller(call[i].by) \/ new = {}
          /\ catalog' = catalog \cup new
          /\ parent' = [c \in Ids |-> IF c \in new THEN call[i].by.conversation
                                                 ELSE parent[c]]
    BY DEF Spawn
  <2>2. new # {} => call[i].by.conversation \in catalog \cup {Root}
    BY <2>1, CatalogAssumption, CallerTypes, OwnerRetained DEF IInv
  <2>3. catalog \subseteq Ids /\ catalog \cap new = {}
    BY DEF IInv, TypeOK
  <2>4. QED BY <2>1, <2>2, <2>3 DEF IInv, TreeIntact
<1>3. StoppingIsDone'
  BY CatalogAssumption DEF CatalogAssumption, IInv, Spawn, Answer, Ready, TypeOK, StoppingIsDone, IsDone, Outcomes
<1>4. CallsClaimed'
  BY CatalogAssumption DEF CatalogAssumption, IInv, Spawn, Answer, Ready, TypeOK, CallsClaimed, Free, RootCaller
<1>5. OwnersHeld'
  BY CatalogAssumption DEF CatalogAssumption, IInv, Spawn, Answer, Ready, TypeOK, OwnersHeld, OwnerHeld, CallsClaimed, StoppingIsDone, IsDone, Outcomes, Free, RootCaller, Callers
<1>6. JoinTargetsCurrent'
  BY CatalogAssumption DEF CatalogAssumption, IInv, Spawn, Answer, Ready, TypeOK, JoinTargetsCurrent, CallsClaimed, IsBound, Free, Phases
<1>7. NestedJoinsClosed'
  BY CatalogAssumption DEF CatalogAssumption, IInv, Spawn, Answer, Ready, TypeOK, NestedJoinsClosed, Free
<1>8. QED BY <1>1, <1>2, <1>3, <1>4, <1>5, <1>6, <1>7 DEF IInv

LEMMA ResumeStep ==
  ASSUME CatalogAssumption, IInv, NEW i \in Calls, NEW targets \in SUBSET catalog, Resume(i, targets)
  PROVE  IInv'
<1> USE DEF vars, treeVars, lifeVars
<1>1. TypeOK'
  BY CatalogAssumption DEF CatalogAssumption, IInv, Resume, Answer, Ready, DirectlyOwned, IsResumeAllowed, TypeOK, Phases, Callers, RootCaller, Free, Outcomes, Generations
<1>2. TreeIntact'
  BY CatalogAssumption DEF CatalogAssumption, IInv, Resume, Answer, Ready, DirectlyOwned, IsResumeAllowed, TypeOK, TreeIntact
<1>3. StoppingIsDone'
  BY CatalogAssumption DEF CatalogAssumption, IInv, Resume, Answer, Ready, DirectlyOwned, IsResumeAllowed, TypeOK, StoppingIsDone, IsDone, Outcomes
<1>4. CallsClaimed'
  BY CatalogAssumption DEF CatalogAssumption, IInv, Resume, Answer, Ready, DirectlyOwned, IsResumeAllowed, TypeOK, CallsClaimed, Free, RootCaller
<1>5. OwnersHeld'
  BY CatalogAssumption DEF CatalogAssumption, IInv, Resume, Answer, Ready, DirectlyOwned, IsResumeAllowed, TypeOK, OwnersHeld, OwnerHeld, CallsClaimed, StoppingIsDone, IsDone, Outcomes, Free, RootCaller, Callers
<1>6. JoinTargetsCurrent'
  BY CatalogAssumption DEF CatalogAssumption, IInv, Resume, Answer, Ready, DirectlyOwned, IsResumeAllowed, TypeOK, JoinTargetsCurrent, CallsClaimed, IsBound, Free, Phases
<1>7. NestedJoinsClosed'
  BY CatalogAssumption DEF CatalogAssumption, IInv, Resume, Answer, Ready, DirectlyOwned, IsResumeAllowed, TypeOK, NestedJoinsClosed, Free
<1>8. QED BY <1>1, <1>2, <1>3, <1>4, <1>5, <1>6, <1>7 DEF IInv

LEMMA CancelStep ==
  ASSUME CatalogAssumption, IInv, NEW i \in Calls, NEW targets \in SUBSET catalog, Cancel(i, targets)
  PROVE  IInv'
<1> USE DEF vars, treeVars, lifeVars
<1>1. TypeOK'
  <2>1. {<<c, latest[c]>> : c \in (targets \cap DirectlyOwned(call[i].by))
           \cap (stopping \cup {d \in targets \cap DirectlyOwned(call[i].by) : ~IsDone(d)})}
          \subseteq Ids \X Generations
    BY DEF IInv, TypeOK, DirectlyOwned
  <2>2. call' \in [Calls -> [phase : Phases, by : Callers,
                            targets : SUBSET (Ids \X Generations)]]
    BY <2>1 DEF IInv, TypeOK, Cancel, Phases
  <2>3. /\ stopping' \in SUBSET catalog
        /\ status' \in [Ids -> {"queued", "running"} \cup Outcomes]
    BY DEF IInv, TypeOK, Cancel, DirectlyOwned, Outcomes
  <2>4. QED BY <2>2, <2>3 DEF IInv, TypeOK, Cancel
<1>2. TreeIntact'
  BY CatalogAssumption DEF CatalogAssumption, IInv, Cancel, Answer, Ready, DirectlyOwned, TypeOK, TreeIntact
<1>3. StoppingIsDone'
  BY CatalogAssumption DEF CatalogAssumption, IInv, Cancel, Answer, Ready, DirectlyOwned, TypeOK, StoppingIsDone, IsDone, Outcomes
<1>4. CallsClaimed'
  BY CatalogAssumption DEF CatalogAssumption, IInv, Cancel, Answer, Ready, DirectlyOwned, TypeOK, CallsClaimed, Free, RootCaller
<1>5. OwnersHeld'
  BY CatalogAssumption DEF CatalogAssumption, IInv, Cancel, Answer, Ready, DirectlyOwned, TypeOK, OwnersHeld, OwnerHeld, CallsClaimed, StoppingIsDone, IsDone, Outcomes, Free, RootCaller, Callers
<1>6. JoinTargetsCurrent'
  BY CatalogAssumption DEF CatalogAssumption, IInv, Cancel, Answer, Ready, DirectlyOwned, TypeOK, JoinTargetsCurrent, CallsClaimed, IsBound, Free, Phases
<1>7. NestedJoinsClosed'
  BY CatalogAssumption DEF CatalogAssumption, IInv, Cancel, Answer, Ready, DirectlyOwned, TypeOK, NestedJoinsClosed, Free
<1>8. QED BY <1>1, <1>2, <1>3, <1>4, <1>5, <1>6, <1>7 DEF IInv

LEMMA ForceAbandonStep ==
  ASSUME CatalogAssumption, IInv, NEW i \in Calls, NEW c \in Ids, ForceAbandon(i, c)
  PROVE  IInv'
<1> USE DEF vars, treeVars, lifeVars
<1>1. TypeOK'
  BY CatalogAssumption DEF CatalogAssumption, IInv, ForceAbandon, Settled, TypeOK, Phases, Callers, RootCaller, Free, Outcomes, Generations
<1>2. TreeIntact'
  BY CatalogAssumption DEF CatalogAssumption, IInv, ForceAbandon, Settled, TypeOK, TreeIntact
<1>3. StoppingIsDone'
  BY CatalogAssumption DEF CatalogAssumption, IInv, ForceAbandon, Settled, TypeOK, StoppingIsDone, IsDone, Outcomes
<1>4. CallsClaimed'
  BY CatalogAssumption DEF CatalogAssumption, IInv, ForceAbandon, Settled, TypeOK, CallsClaimed, Free, RootCaller
<1>5. OwnersHeld'
  BY CatalogAssumption DEF CatalogAssumption, IInv, ForceAbandon, Settled, TypeOK, OwnersHeld, OwnerHeld, CallsClaimed, StoppingIsDone, IsDone, Outcomes, Free, RootCaller, Callers
<1>6. JoinTargetsCurrent'
  BY CatalogAssumption DEF CatalogAssumption, IInv, ForceAbandon, Settled, TypeOK, JoinTargetsCurrent, CallsClaimed, IsBound, Free, Phases
<1>7. NestedJoinsClosed'
  BY CatalogAssumption DEF CatalogAssumption, IInv, ForceAbandon, Settled, TypeOK, NestedJoinsClosed, Free
<1>8. QED BY <1>1, <1>2, <1>3, <1>4, <1>5, <1>6, <1>7 DEF IInv

LEMMA CancelReturnsStep ==
  ASSUME CatalogAssumption, IInv, NEW i \in Calls, CancelReturns(i)
  PROVE  IInv'
<1> USE DEF vars, treeVars, lifeVars
<1>1. TypeOK'
  BY CatalogAssumption DEF CatalogAssumption, IInv, CancelReturns, Answer, TypeOK, Phases, Callers, RootCaller, Free, Outcomes, Generations
<1>2. TreeIntact'
  BY CatalogAssumption DEF CatalogAssumption, IInv, CancelReturns, Answer, TypeOK, TreeIntact
<1>3. StoppingIsDone'
  BY CatalogAssumption DEF CatalogAssumption, IInv, CancelReturns, Answer, TypeOK, StoppingIsDone, IsDone, Outcomes
<1>4. CallsClaimed'
  BY CatalogAssumption DEF CatalogAssumption, IInv, CancelReturns, Answer, TypeOK, CallsClaimed, Free, RootCaller
<1>5. OwnersHeld'
  BY CatalogAssumption DEF CatalogAssumption, IInv, CancelReturns, Answer, TypeOK, OwnersHeld, OwnerHeld, CallsClaimed, StoppingIsDone, IsDone, Outcomes, Free, RootCaller, Callers
<1>6. JoinTargetsCurrent'
  BY CatalogAssumption DEF CatalogAssumption, IInv, CancelReturns, Answer, TypeOK, JoinTargetsCurrent, CallsClaimed, IsBound, Free, Phases
<1>7. NestedJoinsClosed'
  BY CatalogAssumption DEF CatalogAssumption, IInv, CancelReturns, Answer, TypeOK, NestedJoinsClosed, Free
<1>8. QED BY <1>1, <1>2, <1>3, <1>4, <1>5, <1>6, <1>7 DEF IInv

LEMMA JoinStep ==
  ASSUME CatalogAssumption, IInv, NEW i \in Calls, NEW targets \in SUBSET catalog, Join(i, targets)
  PROVE  IInv'
<1> USE DEF vars, treeVars, lifeVars
<1>1. TypeOK'
  BY CatalogAssumption DEF CatalogAssumption, IInv, Join, Answer, Ready, DirectlyOwned, TypeOK, Phases, Callers, RootCaller, Free, Outcomes, Generations
<1>2. TreeIntact'
  BY CatalogAssumption DEF CatalogAssumption, IInv, Join, Answer, Ready, DirectlyOwned, TypeOK, TreeIntact
<1>3. StoppingIsDone'
  BY CatalogAssumption DEF CatalogAssumption, IInv, Join, Answer, Ready, DirectlyOwned, TypeOK, StoppingIsDone, IsDone, Outcomes
<1>4. CallsClaimed'
  BY CatalogAssumption DEF CatalogAssumption, IInv, Join, Answer, Ready, DirectlyOwned, TypeOK, CallsClaimed, Free, RootCaller
<1>5. OwnersHeld'
  BY CatalogAssumption DEF CatalogAssumption, IInv, Join, Answer, Ready, DirectlyOwned, TypeOK, OwnersHeld, OwnerHeld, CallsClaimed, StoppingIsDone, IsDone, Outcomes, Free, RootCaller, Callers
<1>6. JoinTargetsCurrent'
  BY CatalogAssumption DEF CatalogAssumption, IInv, Join, Answer, Ready, DirectlyOwned, TypeOK, JoinTargetsCurrent, CallsClaimed, IsBound, Free, Phases
<1>7. NestedJoinsClosed'
  BY CatalogAssumption DEF CatalogAssumption, IInv, Join, Answer, Ready, DirectlyOwned, TypeOK, NestedJoinsClosed, Free
<1>8. QED BY <1>1, <1>2, <1>3, <1>4, <1>5, <1>6, <1>7 DEF IInv

LEMMA TargetsDoneStep ==
  ASSUME CatalogAssumption, IInv, NEW i \in Calls, TargetsDone(i)
  PROVE  IInv'
<1> USE DEF vars, treeVars, lifeVars
<1>0. call' = [call EXCEPT ![i] = [call[i] EXCEPT !.phase = "collecting"]]
  BY AttemptCloses DEF TargetsDone
<1>1. TypeOK'
  BY <1>0, CatalogAssumption DEF CatalogAssumption, IInv, TargetsDone, TypeOK, Phases, Callers, RootCaller, Free, Outcomes, Generations
<1>2. TreeIntact'
  BY <1>0, CatalogAssumption DEF CatalogAssumption, IInv, TargetsDone, TypeOK, TreeIntact
<1>3. StoppingIsDone'
  BY <1>0, CatalogAssumption DEF CatalogAssumption, IInv, TargetsDone, TypeOK, StoppingIsDone, IsDone, Outcomes
<1>4. CallsClaimed'
  BY <1>0, CatalogAssumption DEF CatalogAssumption, IInv, TargetsDone, TypeOK, CallsClaimed, Free, RootCaller
<1>5. OwnersHeld'
  BY <1>0, CatalogAssumption DEF CatalogAssumption, IInv, TargetsDone, TypeOK, OwnersHeld, OwnerHeld, CallsClaimed, StoppingIsDone, IsDone, Outcomes, Free, RootCaller, Callers
<1>6. JoinTargetsCurrent'
  BY <1>0, CatalogAssumption DEF CatalogAssumption, IInv, TargetsDone, TypeOK, JoinTargetsCurrent, CallsClaimed, IsBound, Free, Phases
<1>7. NestedJoinsClosed'
  BY <1>0, CatalogAssumption DEF CatalogAssumption, IInv, TargetsDone, TypeOK, NestedJoinsClosed, Free
<1>8. QED BY <1>1, <1>2, <1>3, <1>4, <1>5, <1>6, <1>7 DEF IInv

LEMMA CollectStep ==
  ASSUME CatalogAssumption, IInv, NEW i \in Calls, Collect(i)
  PROVE  IInv'
<1> USE DEF vars, treeVars, lifeVars
<1>1. TypeOK'
  BY CatalogAssumption DEF CatalogAssumption, IInv, Collect, Answer, TypeOK, Phases, Callers, RootCaller, Free, Outcomes, Generations
<1>2. TreeIntact'
  BY CatalogAssumption DEF CatalogAssumption, IInv, Collect, Answer, TypeOK, TreeIntact
<1>3. StoppingIsDone'
  BY CatalogAssumption DEF CatalogAssumption, IInv, Collect, Answer, TypeOK, StoppingIsDone, IsDone, Outcomes
<1>4. CallsClaimed'
  BY CatalogAssumption DEF CatalogAssumption, IInv, Collect, Answer, TypeOK, CallsClaimed, Free, RootCaller
<1>5. OwnersHeld'
  BY CatalogAssumption DEF CatalogAssumption, IInv, Collect, Answer, TypeOK, OwnersHeld, OwnerHeld, CallsClaimed, StoppingIsDone, IsDone, Outcomes, Free, RootCaller, Callers
<1>6. JoinTargetsCurrent'
  BY CatalogAssumption DEF CatalogAssumption, IInv, Collect, Answer, TypeOK, JoinTargetsCurrent, CallsClaimed, IsBound, Free, Phases
<1>7. NestedJoinsClosed'
  BY CatalogAssumption DEF CatalogAssumption, IInv, Collect, Answer, TypeOK, NestedJoinsClosed, Free
<1>8. QED BY <1>1, <1>2, <1>3, <1>4, <1>5, <1>6, <1>7 DEF IInv

LEMMA InterruptJoinStep ==
  ASSUME CatalogAssumption, IInv, NEW i \in Calls, InterruptJoin(i)
  PROVE  IInv'
<1> USE DEF vars, treeVars, lifeVars
<1>0. call' = [call EXCEPT ![i] = Free]
  BY AttemptCloses DEF InterruptJoin, Answer
<1>1. TypeOK'
  BY <1>0, CatalogAssumption DEF CatalogAssumption, IInv, InterruptJoin, TypeOK, Phases, Callers, RootCaller, Free, Outcomes, Generations
<1>2. TreeIntact'
  BY <1>0, CatalogAssumption DEF CatalogAssumption, IInv, InterruptJoin, TypeOK, TreeIntact
<1>3. StoppingIsDone'
  BY <1>0, CatalogAssumption DEF CatalogAssumption, IInv, InterruptJoin, TypeOK, StoppingIsDone, IsDone, Outcomes
<1>4. CallsClaimed'
  BY <1>0, CatalogAssumption DEF CatalogAssumption, IInv, InterruptJoin, TypeOK, CallsClaimed, Free, RootCaller
<1>5. OwnersHeld'
  BY <1>0, CatalogAssumption DEF CatalogAssumption, IInv, InterruptJoin, TypeOK, OwnersHeld, OwnerHeld, CallsClaimed, StoppingIsDone, IsDone, Outcomes, Free, RootCaller, Callers
<1>6. JoinTargetsCurrent'
  BY <1>0, CatalogAssumption DEF CatalogAssumption, IInv, InterruptJoin, TypeOK, JoinTargetsCurrent, CallsClaimed, IsBound, Free, Phases
<1>7. NestedJoinsClosed'
  BY <1>0, CatalogAssumption DEF CatalogAssumption, IInv, InterruptJoin, TypeOK, NestedJoinsClosed, Free
<1>8. QED BY <1>1, <1>2, <1>3, <1>4, <1>5, <1>6, <1>7 DEF IInv

LEMMA RemoveStep ==
  ASSUME CatalogAssumption, IInv, NEW i \in Calls, NEW targets \in SUBSET catalog, Remove(i, targets)
  PROVE  IInv'
<1> USE DEF vars, treeVars, lifeVars
<1>1. TypeOK'
  BY CatalogAssumption DEF CatalogAssumption, IInv, Remove, Answer, Ready, DirectlyOwned, TypeOK, Phases, Callers, RootCaller, Free, Outcomes, Generations
<1>2. TreeIntact'
  <2> DEFINE gone == UNION {Subtree(r) : r \in
               {c \in targets \cap DirectlyOwned(call[i].by) : Removable(c)}}
  <2>1. /\ catalog' = catalog \ gone
        /\ parent' = [c \in Ids |-> IF c \in gone THEN Root ELSE parent[c]]
    BY DEF Remove
  <2>2. \A c \in catalog : parent[c] \in gone => c \in gone
    BY SubtreeClosed
  <2>3. catalog \subseteq Ids /\ \A c \in catalog : parent[c] \in catalog \cup {Root}
    BY DEF IInv, TypeOK, TreeIntact
  <2> HIDE DEF gone
  <2>4. QED BY <2>1, <2>2, <2>3 DEF TreeIntact
<1>3. StoppingIsDone'
  BY CatalogAssumption DEF CatalogAssumption, IInv, Remove, Answer, Ready, DirectlyOwned, TypeOK, StoppingIsDone, IsDone, Outcomes
<1>4. CallsClaimed'
  BY CatalogAssumption DEF CatalogAssumption, IInv, Remove, Answer, Ready, DirectlyOwned, TypeOK, CallsClaimed, Free, RootCaller
<1>5. OwnersHeld'
  BY CatalogAssumption DEF CatalogAssumption, IInv, Remove, Answer, Ready, DirectlyOwned, TypeOK, OwnersHeld, OwnerHeld, CallsClaimed, StoppingIsDone, IsDone, Outcomes, Free, RootCaller, Callers
<1>6. JoinTargetsCurrent'
  BY CatalogAssumption DEF CatalogAssumption, IInv, Remove, Answer, Ready, DirectlyOwned, TypeOK, JoinTargetsCurrent, CallsClaimed, IsBound, Free, Phases
<1>7. NestedJoinsClosed'
  BY CatalogAssumption DEF CatalogAssumption, IInv, Remove, Answer, Ready, DirectlyOwned, TypeOK, NestedJoinsClosed, Free
<1>8. QED BY <1>1, <1>2, <1>3, <1>4, <1>5, <1>6, <1>7 DEF IInv

LEMMA ConfigureStep ==
  ASSUME CatalogAssumption, IInv, NEW n \in Limits, Configure(n)
  PROVE  IInv'
<1> USE DEF vars, treeVars, lifeVars
<1>1. TypeOK'
  BY CatalogAssumption DEF CatalogAssumption, IInv, Configure, TypeOK, Phases, Callers, RootCaller, Free, Outcomes, Generations
<1>2. TreeIntact'
  BY CatalogAssumption DEF CatalogAssumption, IInv, Configure, TypeOK, TreeIntact
<1>3. StoppingIsDone'
  BY CatalogAssumption DEF CatalogAssumption, IInv, Configure, TypeOK, StoppingIsDone, IsDone, Outcomes
<1>4. CallsClaimed'
  BY CatalogAssumption DEF CatalogAssumption, IInv, Configure, TypeOK, CallsClaimed, Free, RootCaller
<1>5. OwnersHeld'
  BY CatalogAssumption DEF CatalogAssumption, IInv, Configure, TypeOK, OwnersHeld, OwnerHeld, CallsClaimed, StoppingIsDone, IsDone, Outcomes, Free, RootCaller, Callers
<1>6. JoinTargetsCurrent'
  BY CatalogAssumption DEF CatalogAssumption, IInv, Configure, TypeOK, JoinTargetsCurrent, CallsClaimed, IsBound, Free, Phases
<1>7. NestedJoinsClosed'
  BY CatalogAssumption DEF CatalogAssumption, IInv, Configure, TypeOK, NestedJoinsClosed, Free
<1>8. QED BY <1>1, <1>2, <1>3, <1>4, <1>5, <1>6, <1>7 DEF IInv

LEMMA BindStep ==
  ASSUME CatalogAssumption, IInv, NEW c \in Ids, Bind(c)
  PROVE  IInv'
<1> USE DEF vars, treeVars, lifeVars
<1>1. TypeOK'
  BY CatalogAssumption DEF CatalogAssumption, IInv, Bind, TypeOK, Phases, Callers, RootCaller, Free, Outcomes, Generations
<1>2. TreeIntact'
  BY CatalogAssumption DEF CatalogAssumption, IInv, Bind, TypeOK, TreeIntact
<1>3. StoppingIsDone'
  BY CatalogAssumption DEF CatalogAssumption, IInv, Bind, TypeOK, StoppingIsDone, IsDone, Outcomes
<1>4. CallsClaimed'
  BY CatalogAssumption DEF CatalogAssumption, IInv, Bind, TypeOK, CallsClaimed, Free, RootCaller
<1>5. OwnersHeld'
  BY CatalogAssumption DEF CatalogAssumption, IInv, Bind, TypeOK, OwnersHeld, OwnerHeld, CallsClaimed, StoppingIsDone, IsDone, Outcomes, Free, RootCaller, Callers
<1>6. JoinTargetsCurrent'
  BY CatalogAssumption DEF CatalogAssumption, IInv, Bind, TypeOK, JoinTargetsCurrent, CallsClaimed, IsBound, Free, Phases
<1>7. NestedJoinsClosed'
  BY CatalogAssumption DEF CatalogAssumption, IInv, Bind, TypeOK, NestedJoinsClosed, Free
<1>8. QED BY <1>1, <1>2, <1>3, <1>4, <1>5, <1>6, <1>7 DEF IInv

LEMMA FailToStartStep ==
  ASSUME CatalogAssumption, IInv, NEW c \in Ids, FailToStart(c)
  PROVE  IInv'
<1> USE DEF vars, treeVars, lifeVars
<1>1. TypeOK'
  BY CatalogAssumption DEF CatalogAssumption, IInv, FailToStart, TypeOK, Phases, Callers, RootCaller, Free, Outcomes, Generations
<1>2. TreeIntact'
  BY CatalogAssumption DEF CatalogAssumption, IInv, FailToStart, TypeOK, TreeIntact
<1>3. StoppingIsDone'
  BY CatalogAssumption DEF CatalogAssumption, IInv, FailToStart, TypeOK, StoppingIsDone, IsDone, Outcomes
<1>4. CallsClaimed'
  BY CatalogAssumption DEF CatalogAssumption, IInv, FailToStart, TypeOK, CallsClaimed, Free, RootCaller
<1>5. OwnersHeld'
  BY CatalogAssumption DEF CatalogAssumption, IInv, FailToStart, TypeOK, OwnersHeld, OwnerHeld, CallsClaimed, StoppingIsDone, IsDone, Outcomes, Free, RootCaller, Callers
<1>6. JoinTargetsCurrent'
  BY CatalogAssumption DEF CatalogAssumption, IInv, FailToStart, TypeOK, JoinTargetsCurrent, CallsClaimed, IsBound, Free, Phases
<1>7. NestedJoinsClosed'
  BY CatalogAssumption DEF CatalogAssumption, IInv, FailToStart, TypeOK, NestedJoinsClosed, Free
<1>8. QED BY <1>1, <1>2, <1>3, <1>4, <1>5, <1>6, <1>7 DEF IInv

LEMMA EndExecutionStep ==
  ASSUME CatalogAssumption, IInv, NEW c \in Ids, EndExecution(c)
  PROVE  IInv'
<1> USE DEF vars, treeVars, lifeVars
<1>1. TypeOK'
  BY CatalogAssumption DEF CatalogAssumption, IInv, EndExecution, Quiet, TypeOK, Phases, Callers, RootCaller, Free, Outcomes, Generations
<1>2. TreeIntact'
  BY CatalogAssumption DEF CatalogAssumption, IInv, EndExecution, Quiet, TypeOK, TreeIntact
<1>3. StoppingIsDone'
  BY CatalogAssumption DEF CatalogAssumption, IInv, EndExecution, Quiet, TypeOK, StoppingIsDone, IsDone, Outcomes
<1>4. CallsClaimed'
  BY CatalogAssumption DEF CatalogAssumption, IInv, EndExecution, Quiet, TypeOK, CallsClaimed, Free, RootCaller
<1>5. OwnersHeld'
  BY CatalogAssumption DEF CatalogAssumption, IInv, EndExecution, Quiet, TypeOK, OwnersHeld, OwnerHeld, CallsClaimed, StoppingIsDone, IsDone, Outcomes, Free, RootCaller, Callers
<1>6. JoinTargetsCurrent'
  BY CatalogAssumption DEF CatalogAssumption, IInv, EndExecution, Quiet, TypeOK, JoinTargetsCurrent, CallsClaimed, IsBound, Free, Phases
<1>7. NestedJoinsClosed'
  BY CatalogAssumption DEF CatalogAssumption, IInv, EndExecution, Quiet, TypeOK, NestedJoinsClosed, Free
<1>8. QED BY <1>1, <1>2, <1>3, <1>4, <1>5, <1>6, <1>7 DEF IInv

LEMMA SettleCancellationStep ==
  ASSUME CatalogAssumption, IInv, NEW c \in Ids, SettleCancellation(c)
  PROVE  IInv'
<1> USE DEF vars, treeVars, lifeVars
<1>1. TypeOK'
  BY CatalogAssumption DEF CatalogAssumption, IInv, SettleCancellation, Settled, Quiet, TypeOK, Phases, Callers, RootCaller, Free, Outcomes, Generations
<1>2. TreeIntact'
  BY CatalogAssumption DEF CatalogAssumption, IInv, SettleCancellation, Settled, Quiet, TypeOK, TreeIntact
<1>3. StoppingIsDone'
  BY CatalogAssumption DEF CatalogAssumption, IInv, SettleCancellation, Settled, Quiet, TypeOK, StoppingIsDone, IsDone, Outcomes
<1>4. CallsClaimed'
  BY CatalogAssumption DEF CatalogAssumption, IInv, SettleCancellation, Settled, Quiet, TypeOK, CallsClaimed, Free, RootCaller
<1>5. OwnersHeld'
  BY CatalogAssumption DEF CatalogAssumption, IInv, SettleCancellation, Settled, Quiet, TypeOK, OwnersHeld, OwnerHeld, CallsClaimed, StoppingIsDone, IsDone, Outcomes, Free, RootCaller, Callers
<1>6. JoinTargetsCurrent'
  BY CatalogAssumption DEF CatalogAssumption, IInv, SettleCancellation, Settled, Quiet, TypeOK, JoinTargetsCurrent, CallsClaimed, IsBound, Free, Phases
<1>7. NestedJoinsClosed'
  BY CatalogAssumption DEF CatalogAssumption, IInv, SettleCancellation, Settled, Quiet, TypeOK, NestedJoinsClosed, Free
<1>8. QED BY <1>1, <1>2, <1>3, <1>4, <1>5, <1>6, <1>7 DEF IInv

-----------------------------------------------------------------------------
LEMMA Initial ==
  ASSUME CatalogAssumption, Init PROVE IInv
BY DEF CatalogAssumption, Init, IInv, TypeOK, TreeIntact, StoppingIsDone, CallsClaimed,
       OwnersHeld, JoinTargetsCurrent, NestedJoinsClosed, Free, RootCaller, IsBound,
       Phases, Callers, Generations, Outcomes

LEMMA Inductive ==
  ASSUME CatalogAssumption, IInv, [Next]_vars PROVE IInv'
<1>1. CASE \E i \in Calls : CallStep(i)
  <2>1. PICK i \in Calls : CallStep(i)
    BY <1>1
  <2>2. CASE \E c \in Ids : Invoke(i, c) \/ ForceAbandon(i, c)
    BY <2>2, CatalogAssumption, InvokeStep, ForceAbandonStep
  <2>3. CASE \E n \in 1..MaxBatch : Spawn(i, n)
    BY <2>3, CatalogAssumption, SpawnStep
  <2>4. CASE \E targets \in SUBSET catalog \ {{}} :
               \/ Resume(i, targets) \/ Cancel(i, targets)
               \/ Join(i, targets) \/ Remove(i, targets)
    BY <2>4, CatalogAssumption, ResumeStep, CancelStep, JoinStep, RemoveStep
  <2>5. CASE \/ CancelReturns(i) \/ TargetsDone(i)
             \/ Collect(i) \/ InterruptJoin(i)
    BY <2>5, CatalogAssumption, CancelReturnsStep, TargetsDoneStep, CollectStep,
       InterruptJoinStep
  <2>6. QED BY <2>1, <2>2, <2>3, <2>4, <2>5 DEF CallStep
<1>2. CASE \E c \in Ids : ExecutionStep(c)
  BY <1>2, CatalogAssumption, BindStep, FailToStartStep, EndExecutionStep,
     SettleCancellationStep DEF ExecutionStep
<1>3. CASE \E n \in Limits : Configure(n)
  BY <1>3, CatalogAssumption, ConfigureStep
<1>4. CASE UNCHANGED vars
  BY <1>4 DEF vars, treeVars, lifeVars, IInv, TypeOK, TreeIntact, StoppingIsDone,
     CallsClaimed, OwnersHeld, OwnerHeld, JoinTargetsCurrent, NestedJoinsClosed, IsBound, IsDone
<1>5. QED BY <1>1, <1>2, <1>3, <1>4 DEF Next

(* The inductive invariant of the catalog holds in every reachable state.  *)
THEOREM Invariance == Spec => []IInv
<1>1. Init => IInv
  BY CatalogAssumption, Initial
<1>2. IInv /\ [Next]_vars => IInv'
  BY CatalogAssumption, Inductive
<1>3. QED BY <1>1, <1>2, PTL DEF Spec

(* Every variable of the catalog keeps its type.                           *)
THEOREM TypeCorrect == Spec => []TypeOK
<1>1. IInv => TypeOK
  BY DEF IInv
<1>2. QED BY <1>1, Invariance, PTL

(* No call, however late it acts, leaves a conversation without its parent:*)
(* requireCaller stops a caller that was removed, and a subtree goes as a  *)
(* whole.                                                                  *)
THEOREM NoOrphans == Spec => []TreeIntact
<1>1. IInv => TreeIntact
  BY DEF IInv
<1>2. QED BY <1>1, Invariance, PTL

(* An open join observes the latest generation of each target.             *)
THEOREM JoinsObserveLatest == Spec => []JoinTargetsCurrent
<1>1. IInv => JoinTargetsCurrent
  BY DEF IInv
<1>2. QED BY <1>1, Invariance, PTL

(* No nested join stays recorded as running after its call.                *)
THEOREM AttemptsClosed == Spec => []NestedJoinsClosed
<1>1. IInv => NestedJoinsClosed
  BY DEF IInv
<1>2. QED BY <1>1, Invariance, PTL

(* A step that takes conversations out of the catalog is a removal, and    *)
(* takes nothing that is active.                                           *)
THEOREM RemovalSparesActive == Spec => RemovesInactive
<1>1. ASSUME IInv, [Next]_vars
      PROVE  [\A c \in catalog \ catalog' : ~HasActiveExecution(c)]_vars
  <2>1. SUFFICES ASSUME Next, NEW c \in catalog \ catalog' PROVE ~HasActiveExecution(c)
    BY <1>1
  <2>2. CASE \E i \in Calls, targets \in SUBSET catalog : Remove(i, targets)
    BY <2>1, <2>2, SubtreeClosed DEF Remove, Removable, DirectlyOwned
  <2>3. CASE ~\E i \in Calls, targets \in SUBSET catalog : Remove(i, targets)
    <3>1. catalog \subseteq catalog'
      BY <2>1, <2>3 DEF Next, CallStep, ExecutionStep, Invoke, Spawn, Resume, Cancel,
         ForceAbandon, CancelReturns, Join, TargetsDone, Collect, InterruptJoin, Configure,
         Bind, FailToStart, EndExecution, SettleCancellation, treeVars
    <3>2. QED BY <2>1, <3>1
  <2>4. QED BY <2>2, <2>3
<1>2. QED BY <1>1, Invariance, PTL DEF RemovesInactive, Spec

(* A batch of spawns admits what the limit in force leaves room for.       *)
THEOREM GrowthWithinCapacity == Spec => GrowsWithinCapacity
<1>1. ASSUME IInv, [Next]_vars
      PROVE  [catalog' \subseteq catalog \/ Cardinality(catalog') <= limit]_vars
  <2>1. SUFFICES ASSUME Next, NEW c \in catalog', c \notin catalog
                 PROVE  Cardinality(catalog') <= limit
    BY <1>1
  <2>2. PICK i \in Calls, n \in 1..MaxBatch : Spawn(i, n)
    BY <2>1 DEF Next, CallStep, ExecutionStep, Invoke, Resume, Cancel, Remove,
       ForceAbandon, CancelReturns, Join, TargetsDone, Collect, InterruptJoin, Configure,
       Bind, FailToStart, EndExecution, SettleCancellation, treeVars
  <2>3. PICK new \in SUBSET (Ids \ claimed) :
          /\ new = {} \/ Cardinality(new) = Admitted(n) \/ Cardinality(new) < Admitted(n)
          /\ catalog' = catalog \cup new
    BY <2>2 DEF Spawn
  <2>4. new # {} /\ catalog \cap new = {}
    BY <2>1, <2>3, <1>1 DEF IInv, TypeOK
  <2>5. /\ IsFiniteSet(new) /\ Cardinality(new) \in Nat \ {0}
        /\ IsFiniteSet(catalog) /\ Cardinality(catalog) \in Nat
    BY <2>4, <1>1, CatalogAssumption, FS_Subset, FS_CardinalityType, FS_EmptySet
       DEF CatalogAssumption, IInv, TypeOK
  <2>6. Cardinality(catalog') = Cardinality(catalog) + Cardinality(new)
    <3>1. Cardinality(catalog \cap new) = 0
      BY <2>4, FS_EmptySet
    <3>2. QED BY <2>3, <2>5, <3>1, FS_Union
  <2>7. limit \in Nat /\ n \in Nat
    BY <2>2, <1>1, CatalogAssumption DEF CatalogAssumption, IInv, TypeOK
  <2>8. QED BY <2>3, <2>4, <2>5, <2>6, <2>7 DEF Admitted
<1>2. QED BY <1>1, Invariance, PTL DEF GrowsWithinCapacity, Spec

=============================================================================
