---------------------- MODULE CompletionNotifierProofs ----------------------
(***************************************************************************)
(* The safety of the completion notifier, for any number of subagents,     *)
(* generations, tool calls, refused batches and sessions.                  *)
(***************************************************************************)
EXTENDS CompletionNotifier, TLAPS

(* What has been launched has a generation. *)
Launched == \A s \in Subagents : state[s] # "none" => gen[s] >= 1

(* What does not count as delivered, or would not in the next session, has *)
(* not been announced since it was forgotten, or the host refused it.      *)
Owed ==
  \A k \in Keys :
    (IF ctx THEN k \notin delivered ELSE k \notin markers) => announced[k] <= forgotten[k]

(* What the model was shown is observed. *)
SeenObserved == seen \subseteq observed

IInv ==
  /\ TypeOK /\ Launched
  /\ AnnouncedOnce /\ Owed
  /\ SeenObserved /\ PendingWorkIsArmed

-----------------------------------------------------------------------------
USE NotifierAssumption DEF Keys, Key

(* A generation that is finished is a key; what is due is finished. *)
LEMMA KeysOfLaunched ==
  ASSUME TypeOK, Launched, NEW s \in Subagents, state[s] # "none"
  PROVE  Key(s) \in Keys
BY DEF TypeOK, Launched

(* A batch holds generations neither delivered nor observed, and there is  *)
(* none without a session.                                                 *)
LEMMA BatchIsDue ==
  ASSUME IInv, NEW opportunity \in BOOLEAN
  PROVE  /\ Batch(opportunity) \subseteq Keys
         /\ Batch(opportunity) \cap delivered = {}
         /\ Batch(opportunity) \cap observed = {}
         /\ ~ctx => Batch(opportunity) = {}
<1>1. ASSUME NEW k \in Candidates PROVE k \in Keys /\ k \notin observed
  <2>1. PICK s \in Subagents : k = Key(s) /\ state[s] = "done" /\ Key(s) \notin observed
    BY <1>1 DEF Candidates
  <2> QED BY <2>1, KeysOfLaunched DEF IInv
<1>2. Batch(opportunity) \subseteq Candidates \ delivered
  BY DEF Batch
<1> QED BY <1>1, <1>2 DEF Batch

(* What is appended and what is kept are the entries that were pending. *)
LEMMA MarkersFlushed ==
  ASSUME TypeOK, NEW pd \in SUBSET Keys, NEW earlier \in SUBSET Keys, NEW migration \in BOOLEAN,
         FlushMarkers(pd, earlier, migration)
  PROVE  /\ pendingDelivered' \subseteq Keys /\ migrationPending' \in BOOLEAN
         /\ markers' \subseteq Keys /\ migrated' \in BOOLEAN /\ indexed' \subseteq Keys
         /\ markers \subseteq markers'
<1>1. PICK kept \in SUBSET pd :
        /\ pendingDelivered' = kept
        /\ markers' = markers \cup (pd \ kept)
        /\ \E done \in {FALSE, migration /\ kept \cap earlier = {}} :
             /\ migrationPending' = (migration /\ ~done)
             /\ migrated' = (migrated \/ done)
  BY DEF FlushMarkers
<1> QED BY <1>1 DEF TypeOK, FlushMarkers

-----------------------------------------------------------------------------
(* flush().                                                                *)

(* The parts of the invariant that a batch changes. *)
LEMMA SendKeeps ==
  ASSUME IInv, NEW E \in SUBSET Keys, E \cap delivered = {}, ctx,
         UNCHANGED <<ctx, sessions>>,
         SentAtOnce(E) \/ SentLater(E) \/ Refused(E)
  PROVE  /\ delivered' \in SUBSET Keys /\ announced' \in [Keys -> Int]
         /\ sent' \subseteq [keys : SUBSET Keys, session : 0..MaxSessions]
         /\ failures' \in 0..MaxFailures /\ forgotten' = forgotten
         /\ AnnouncedOnce' /\ Owed'
<1> USE DEF IInv, TypeOK
<1>1. CASE Refused(E)
  <2>1. delivered' = delivered /\ UNCHANGED <<sent, announced, forgotten>>
    BY <1>1 DEF Refused
  <2>2. failures' \in 0..MaxFailures
    BY <1>1 DEF Refused
  <2> QED BY <2>1, <2>2 DEF AnnouncedOnce, Owed
<1>2. CASE SentAtOnce(E) \/ SentLater(E)
  <2>1. /\ delivered' = delivered \cup E
        /\ announced' = [k \in Keys |-> IF k \in E THEN announced[k] + 1 ELSE announced[k]]
        /\ UNCHANGED <<failures, forgotten>>
    BY <1>2 DEF SentAtOnce, SentLater
  <2>2. sent' \subseteq [keys : SUBSET Keys, session : 0..MaxSessions]
    BY <1>2 DEF SentAtOnce, SentLater
  <2>3. \A k \in E : announced[k] <= forgotten[k]
    BY DEF Owed
  <2>4. AnnouncedOnce' /\ Owed'
    BY <2>1, <2>3 DEF AnnouncedOnce, Owed
  <2> QED BY <2>1, <2>2, <2>4
<1> QED BY <1>1, <1>2

LEMMA FlushKeeps ==
  ASSUME IInv, NEW opportunity \in BOOLEAN, NEW on \in BOOLEAN, NEW opp \in BOOLEAN,
         opp => on, Flush(opportunity, on, opp)
  PROVE  IInv'
<1> DEFINE E == Batch(opportunity)
           unsaved == pendingDelivered' # {} \/ migrationPending'
<1> USE DEF IInv
<1>1. UNCHANGED <<runtimeVars, hostVars, graceArmed, gracePending, observed, claims, seen>>
  BY DEF Flush
<1>2. E \subseteq Keys /\ E \cap delivered = {} /\ (~ctx => E = {})
  BY BatchIsDue
<1>3. CASE E = {}
  <2>1. /\ FlushMarkers(pendingDelivered, pendingDelivered, migrationPending)
        /\ armed' \in BOOLEAN /\ (unsaved => armed')
        /\ toolOpportunity' = (opp /\ armed')
        /\ UNCHANGED <<delivered, sendVars>>
    <3>1. /\ FlushMarkers(pendingDelivered, pendingDelivered, migrationPending)
          /\ UNCHANGED <<delivered, sendVars>>
          /\ toolOpportunity' = (opp /\ armed')
      BY <1>3 DEF Flush
    <3>2. armed' \in BOOLEAN
      BY <1>3, Zenon DEF Flush
    <3>3. unsaved => armed'
      BY <1>3 DEF Flush
    <3> QED BY <3>1, <3>2, <3>3
  <2>2. TypeOK'
    <3>1. /\ TypeOK /\ pendingDelivered \in SUBSET Keys /\ migrationPending \in BOOLEAN
      BY DEF TypeOK
    <3>2. /\ pendingDelivered' \subseteq Keys /\ migrationPending' \in BOOLEAN
          /\ markers' \subseteq Keys /\ migrated' \in BOOLEAN /\ indexed' \subseteq Keys
      BY <2>1, <3>1, MarkersFlushed
    <3>3. toolOpportunity' \in BOOLEAN /\ (toolOpportunity' => armed')
      BY <2>1
    <3> QED BY <1>1, <2>1, <3>2, <3>3 DEF TypeOK, runtimeVars, hostVars, sendVars
  <2>3. markers \subseteq markers'
    BY <2>1, MarkersFlushed DEF TypeOK
  <2> QED BY <1>1, <2>1, <2>2, <2>3
          DEF Launched, AnnouncedOnce, Owed, SeenObserved, PendingWorkIsArmed,
              runtimeVars, hostVars, sendVars
<1>4. CASE E # {}
  <2>1. \E pd \in {pendingDelivered, pendingDelivered \cup E} :
           FlushMarkers(pd, pendingDelivered, migrationPending)
    BY <1>4 DEF Flush, E
  <2>2. SentAtOnce(E) \/ SentLater(E) \/ Refused(E)
    BY <1>4 DEF Flush, E
  <2>3. armed' \in BOOLEAN /\ toolOpportunity' \in BOOLEAN
    BY <1>4, Zenon DEF Flush, E
  <2>4. (unsaved => armed') /\ (toolOpportunity' => armed')
    BY <1>4 DEF Flush, E, unsaved
  <2> HIDE DEF E
  <2>5. ctx /\ UNCHANGED <<ctx, sessions>>
    BY <1>1, <1>2, <1>4 DEF hostVars
  <2>6. /\ delivered' \in SUBSET Keys /\ announced' \in [Keys -> Int]
        /\ sent' \subseteq [keys : SUBSET Keys, session : 0..MaxSessions]
        /\ failures' \in 0..MaxFailures /\ forgotten' = forgotten
        /\ AnnouncedOnce' /\ Owed'
    BY <1>2, <2>2, <2>5, SendKeeps
  <2>7. /\ pendingDelivered' \subseteq Keys /\ migrationPending' \in BOOLEAN
        /\ markers' \subseteq Keys /\ migrated' \in BOOLEAN /\ indexed' \subseteq Keys
    <3>1. PICK pd \in {pendingDelivered, pendingDelivered \cup E} :
            FlushMarkers(pd, pendingDelivered, migrationPending)
      BY <2>1
    <3>2. /\ TypeOK /\ pd \in SUBSET Keys /\ pendingDelivered \in SUBSET Keys
          /\ migrationPending \in BOOLEAN
      BY <1>2 DEF TypeOK
    <3> QED BY <3>1, <3>2, MarkersFlushed
  <2>8. TypeOK'
    BY <1>1, <2>3, <2>4, <2>6, <2>7 DEF TypeOK, runtimeVars, hostVars
  <2> QED BY <1>1, <2>4, <2>6, <2>8
          DEF Launched, SeenObserved, PendingWorkIsArmed, runtimeVars, hostVars
<1> QED BY <1>3, <1>4

-----------------------------------------------------------------------------
(* The runtime and the tool.                                               *)

LEMMA BeginKeeps == ASSUME IInv, NEW s \in Subagents, Begin(s) PROVE IInv'
<1> USE DEF IInv, Begin, Arm, hostVars, branchVars, markVars, sendVars
<1>1. TypeOK' BY DEF TypeOK
<1>2. Launched' BY DEF TypeOK, Launched
<1> QED BY <1>1, <1>2 DEF AnnouncedOnce, Owed, SeenObserved, PendingWorkIsArmed

LEMMA FinishKeeps == ASSUME IInv, NEW s \in Subagents, Finish(s) PROVE IInv'
<1> USE DEF IInv, Finish, Arm, hostVars, sendVars
<1>1. Key(s) \in Keys BY KeysOfLaunched
<1>2. TypeOK' BY <1>1 DEF TypeOK
<1>3. Launched' BY DEF TypeOK, Launched
<1> QED BY <1>2, <1>3 DEF AnnouncedOnce, Owed, SeenObserved, PendingWorkIsArmed

LEMMA ObserveKeeps == ASSUME IInv, NEW s \in Subagents, Observe(s) PROVE IInv'
<1> USE DEF IInv, Observe, Arm, hostVars, branchVars, markVars, sendVars
<1>1. TypeOK' BY DEF TypeOK
<1> QED
  BY <1>1 DEF Launched, AnnouncedOnce, Owed, SeenObserved, PendingWorkIsArmed

LEMMA CollectKeeps == ASSUME IInv, NEW s \in Subagents, Collect(s) PROVE IInv'
<1> USE DEF IInv, Collect, Arm, hostVars, branchVars, markVars, sendVars
<1>1. TypeOK' BY DEF TypeOK
<1>2. Launched' BY DEF TypeOK, Launched
<1> QED BY <1>1, <1>2 DEF AnnouncedOnce, Owed, SeenObserved, PendingWorkIsArmed

LEMMA BeginToolKeeps ==
  ASSUME IInv, NEW c \in Calls, NEW a \in Actions, NEW targets \in SUBSET Subagents,
         BeginTool(c, a, targets)
  PROVE  IInv'
<1> USE DEF IInv, runtimeVars, hostVars, timerVars, branchVars, markVars, sendVars
<1>1. {Key(s) : s \in targets} \subseteq Keys
  BY KeysOfLaunched DEF BeginTool
<1> USE DEF BeginTool
<1>2. TypeOK' BY <1>1 DEF TypeOK
<1> QED
  BY <1>2 DEF Launched, AnnouncedOnce, Owed, SeenObserved, PendingWorkIsArmed

LEMMA CompleteToolKeeps ==
  ASSUME IInv, NEW c \in Calls, NEW targets \in SUBSET Subagents, CompleteTool(c, targets)
  PROVE  IInv'
<1> USE DEF IInv, Arm, runtimeVars, hostVars, branchVars, sendVars
<1>1. Shown(c, targets) \subseteq Keys
  BY KeysOfLaunched DEF Shown
<1> USE DEF CompleteTool
<1>2. TypeOK' BY <1>1 DEF TypeOK, NoClaim
<1> QED
  BY <1>2 DEF Launched, AnnouncedOnce, Owed, SeenObserved, PendingWorkIsArmed

LEMMA ToolStartKeeps == ASSUME IInv, ToolStart PROVE IInv'
BY DEF IInv, ToolStart, Arm, runtimeVars, hostVars, branchVars, markVars, sendVars, TypeOK,
       Launched, AnnouncedOnce, Owed, SeenObserved, PendingWorkIsArmed

-----------------------------------------------------------------------------
(* The timers and the promises.                                            *)

LEMMA RetryKeeps == ASSUME IInv, Retry PROVE IInv'
BY FlushKeeps DEF Retry, IInv, TypeOK

LEMMA OpportunityKeeps == ASSUME IInv, Opportunity PROVE IInv'
BY FlushKeeps DEF Opportunity, IInv, TypeOK

LEMMA GraceEndsKeeps == ASSUME IInv, GraceEnds PROVE IInv'
BY DEF IInv, GraceEnds, Arm, runtimeVars, hostVars, branchVars, sendVars, TypeOK,
       Launched, AnnouncedOnce, Owed, SeenObserved, PendingWorkIsArmed

(* The entries of a delivered batch are appended, or kept for later. *)
LEMMA SendResolvesKeeps == ASSUME IInv, NEW p \in sent, SendResolves(p) PROVE IInv'
<1> USE DEF IInv
<1>1. /\ sent' = sent \ {p}
      /\ UNCHANGED <<runtimeVars, hostVars, graceArmed, gracePending, delivered, observed,
                     claims, failures, announced, forgotten, seen>>
  BY DEF SendResolves
<1>2. /\ pendingDelivered' \subseteq Keys /\ migrationPending' \in BOOLEAN
      /\ markers' \subseteq Keys /\ migrated' \in BOOLEAN /\ indexed' \subseteq Keys
      /\ markers \subseteq markers'
  <2>1. CASE Current(p)
    <3>1. /\ TypeOK /\ pendingDelivered \cup p.keys \in SUBSET Keys
          /\ migrationPending \in BOOLEAN
      BY DEF TypeOK
    <3>2. FlushMarkers(pendingDelivered \cup p.keys, pendingDelivered \cup p.keys, migrationPending)
      BY <2>1 DEF SendResolves
    <3> QED BY <3>1, <3>2, MarkersFlushed
  <2>2. CASE ~Current(p)
    BY <2>2 DEF SendResolves, branchVars, TypeOK
  <2> QED BY <2>1, <2>2
<1>3. /\ armed' \in BOOLEAN /\ toolOpportunity' \in BOOLEAN
      /\ toolOpportunity' => armed'
      /\ ctx' /\ (pendingDelivered' # {} \/ migrationPending') => armed'
  <2>1. CASE /\ armed' = TRUE /\ toolOpportunity' = (toolOpportunity \/ FALSE)
    BY <2>1 DEF TypeOK
  <2>2. CASE /\ UNCHANGED <<armed, toolOpportunity, ctx>>
             /\ (pendingDelivered' # {} \/ migrationPending')
                   => (pendingDelivered # {} \/ migrationPending)
    BY <2>2 DEF TypeOK, PendingWorkIsArmed
  <2>3. (pendingDelivered' = {} /\ ~migrationPending') \/ Arm(FALSE) \/ ~Current(p)
    BY DEF SendResolves
  <2> QED BY <1>1, <2>1, <2>2, <2>3 DEF SendResolves, Arm, hostVars
<1>4. TypeOK'
  BY <1>1, <1>2, <1>3 DEF TypeOK, runtimeVars, hostVars
<1>5. AnnouncedOnce' /\ Owed'
  BY <1>1, <1>2 DEF AnnouncedOnce, Owed, hostVars
<1> QED BY <1>1, <1>3, <1>4, <1>5
        DEF Launched, SeenObserved, PendingWorkIsArmed, runtimeVars, hostVars

(* A batch of whatever session that is refused is taken back: there is one *)
(* announcement less of what no longer counts as delivered.                *)
LEMMA SendRejectsKeeps == ASSUME IInv, NEW p \in sent, SendRejects(p) PROVE IInv'
<1> USE DEF IInv
<1>1. /\ failures' \in 0..MaxFailures
      /\ sent' = sent \ {p} /\ delivered' = delivered \ p.keys
      /\ announced' = [k \in Keys |-> IF k \in p.keys THEN announced[k] - 1 ELSE announced[k]]
      /\ UNCHANGED <<runtimeVars, hostVars, graceArmed, branchVars, gracePending, observed,
                     pendingDelivered, migrationPending, claims, forgotten, seen>>
  BY DEF SendRejects, TypeOK
<1>2. armed' /\ armed' \in BOOLEAN /\ toolOpportunity' \in BOOLEAN
  BY DEF SendRejects, Arm, TypeOK
<1>3. p.keys \subseteq Keys
  BY DEF TypeOK
<1>4. TypeOK'
  BY <1>1, <1>2, <1>3 DEF TypeOK, runtimeVars, hostVars, branchVars
<1>5. AnnouncedOnce' /\ Owed'
  BY <1>1, <1>3 DEF AnnouncedOnce, Owed, TypeOK, hostVars, branchVars
<1> QED BY <1>1, <1>2, <1>4, <1>5
        DEF Launched, SeenObserved, PendingWorkIsArmed, runtimeVars, hostVars

-----------------------------------------------------------------------------
(* The session.                                                            *)

(* What the branch marks counts as delivered again. *)
LEMMA SessionStartKeeps == ASSUME IInv, SessionStart PROVE IInv'
<1> USE DEF IInv
<1> DEFINE historical == IF migrated THEN {} ELSE indexed
<1>1. /\ ~ctx /\ ctx' = TRUE /\ sessions' \in 0..MaxSessions
      /\ delivered' = markers \cup historical
      /\ FlushMarkers(historical, historical, ~migrated)
      /\ armed' = TRUE /\ toolOpportunity' = (toolOpportunity \/ FALSE)
      /\ UNCHANGED <<runtimeVars, mode, idle, graceArmed, gracePending, observed, claims,
                     sendVars, seen>>
  BY DEF SessionStart, Arm, TypeOK
<1>2. TypeOK /\ historical \in SUBSET Keys /\ (~migrated) \in BOOLEAN
  BY DEF TypeOK
<1>3. /\ pendingDelivered' \subseteq Keys /\ migrationPending' \in BOOLEAN
      /\ markers' \subseteq Keys /\ migrated' \in BOOLEAN /\ indexed' \subseteq Keys
  BY <1>1, <1>2, MarkersFlushed
<1> HIDE DEF historical
<1>4. TypeOK'
  BY <1>1, <1>2, <1>3 DEF TypeOK, runtimeVars, sendVars
<1>5. AnnouncedOnce' /\ Owed'
  BY <1>1 DEF AnnouncedOnce, Owed, sendVars
<1> QED BY <1>1, <1>4, <1>5 DEF Launched, SeenObserved, PendingWorkIsArmed, runtimeVars

(* What was announced and is not marked is forgotten. *)
LEMMA SessionShutdownKeeps == ASSUME IInv, SessionShutdown PROVE IInv'
<1> USE DEF IInv, SessionShutdown, branchVars
<1>1. TypeOK'
  BY DEF TypeOK, NoClaim
<1>2. AnnouncedOnce' /\ Owed'
  BY DEF AnnouncedOnce, Owed, TypeOK
<1>3. Launched'
  BY DEF Launched, TypeOK
<1> QED BY <1>1, <1>2, <1>3 DEF SeenObserved, PendingWorkIsArmed

LEMMA ToggleIdleKeeps == ASSUME IInv, ToggleIdle PROVE IInv'
BY DEF IInv, ToggleIdle, runtimeVars, timerVars, branchVars, markVars, sendVars, TypeOK,
       Launched, AnnouncedOnce, Owed, SeenObserved, PendingWorkIsArmed

-----------------------------------------------------------------------------
LEMMA InitIInv == Init => IInv
<1> SUFFICES ASSUME Init PROVE IInv
  OBVIOUS
<1> USE DEF Init
<1>1. TypeOK
  <2>1. /\ gen \in [Subagents -> 0..MaxGeneration]
        /\ state \in [Subagents -> {"none", "running", "done", "removed"}]
        /\ sessions \in 0..MaxSessions /\ failures \in 0..MaxFailures
    OBVIOUS
  <2>2. NoClaim \in [action : Actions \cup {"none"}, keys : SUBSET Keys]
    BY DEF NoClaim
  <2>3. claims \in [Calls -> [action : Actions \cup {"none"}, keys : SUBSET Keys]]
    BY <2>2
  <2>4. announced \in [Keys -> Int] /\ sent \subseteq [keys : SUBSET Keys, session : 0..MaxSessions]
    OBVIOUS
  <2> QED BY <2>1, <2>3, <2>4 DEF TypeOK
<1>2. Launched /\ AnnouncedOnce /\ Owed
  BY DEF Launched, AnnouncedOnce, Owed
<1>3. SeenObserved /\ PendingWorkIsArmed
  BY DEF SeenObserved, PendingWorkIsArmed
<1> QED BY <1>1, <1>2, <1>3 DEF IInv

LEMMA StepKeeps == IInv /\ [Next]_vars => IInv'
<1> SUFFICES ASSUME IInv, [Next]_vars PROVE IInv'
  OBVIOUS
<1>1. ASSUME NEW s \in Subagents, Begin(s) \/ Finish(s) \/ Observe(s) \/ Collect(s) PROVE IInv'
  BY <1>1, BeginKeeps, FinishKeeps, ObserveKeeps, CollectKeeps
<1>2. ASSUME NEW c \in Calls, NEW targets \in SUBSET Subagents,
             \/ \E a \in Actions : BeginTool(c, a, targets)
             \/ CompleteTool(c, targets)
      PROVE IInv'
  BY <1>2, BeginToolKeeps, CompleteToolKeeps
<1>3. ASSUME NEW p \in sent, SendResolves(p) \/ SendRejects(p) PROVE IInv'
  BY <1>3, SendResolvesKeeps, SendRejectsKeeps
<1>4. CASE ToolStart \/ Retry \/ Opportunity \/ GraceEnds
  BY <1>4, ToolStartKeeps, RetryKeeps, OpportunityKeeps, GraceEndsKeeps
<1>5. CASE SessionStart \/ SessionShutdown \/ ToggleIdle
  BY <1>5, SessionStartKeeps, SessionShutdownKeeps, ToggleIdleKeeps
<1>6. CASE UNCHANGED vars
  BY <1>6 DEF vars, runtimeVars, hostVars, timerVars, branchVars, markVars, sendVars, IInv,
              TypeOK, Launched, AnnouncedOnce, Owed, SeenObserved, PendingWorkIsArmed
<1> QED BY <1>1, <1>2, <1>3, <1>4, <1>5, <1>6 DEF Next

(* The inductive invariant of the notifier. *)
THEOREM Invariance == Spec => []IInv
BY InitIInv, StepKeeps, PTL DEF Spec

(* Every variable of the notifier keeps its type. *)
THEOREM TypeCorrect == Spec => []TypeOK
BY Invariance, PTL DEF IInv

(* A generation is announced once over all sessions, and once more for     *)
(* each session that ended with an announcement the branch did not mark.   *)
THEOREM AnnouncesOnce == Spec => []AnnouncedOnce
BY Invariance, PTL DEF IInv

(* Generations in their grace period and entries to append always have a   *)
(* timer that comes back to them.                                          *)
THEOREM PendingIsArmed == Spec => []PendingWorkIsArmed
BY Invariance, PTL DEF IInv

-----------------------------------------------------------------------------
(* flush() announces nothing that was seen. *)
LEMMA FlushSparesSeen ==
  ASSUME IInv, NEW opportunity \in BOOLEAN, NEW on, NEW opp, Flush(opportunity, on, opp),
         NEW k \in Keys, k \in seen
  PROVE  announced'[k] = announced[k]
<1> DEFINE E == Batch(opportunity)
<1>1. k \notin E
  BY BatchIsDue DEF IInv, SeenObserved
<1>2. \/ UNCHANGED announced
      \/ announced' = [j \in Keys |-> IF j \in E THEN announced[j] + 1 ELSE announced[j]]
  BY DEF Flush, sendVars, SentAtOnce, SentLater, Refused
<1> QED BY <1>1, <1>2

LEMMA StepSparesSeen ==
  ASSUME IInv, [Next]_vars, NEW k \in Keys, k \in seen, ctx, ctx'
  PROVE  announced'[k] <= announced[k]
<1>1. announced[k] \in Int
  BY DEF IInv, TypeOK
<1>2. CASE Retry \/ Opportunity
  <2>1. \E opportunity \in BOOLEAN, on \in BOOLEAN, opp \in BOOLEAN : Flush(opportunity, on, opp)
    BY <1>2 DEF Retry, Opportunity, IInv, TypeOK
  <2>2. announced'[k] = announced[k]
    BY <2>1, FlushSparesSeen
  <2> QED BY <1>1, <2>2
<1>3. ASSUME NEW p \in sent, SendResolves(p) \/ SendRejects(p) PROVE announced'[k] <= announced[k]
  <2>1. announced'[k] = announced[k] \/ announced'[k] = announced[k] - 1
    BY <1>3 DEF SendResolves, SendRejects
  <2> QED BY <1>1, <2>1
<1>4. CASE UNCHANGED announced
  BY <1>1, <1>4
<1>5. ASSUME NEW s \in Subagents, Begin(s) \/ Finish(s) \/ Observe(s) \/ Collect(s)
      PROVE UNCHANGED announced
  BY <1>5 DEF Begin, Finish, Observe, Collect, sendVars
<1>6. ASSUME NEW c \in Calls, NEW targets \in SUBSET Subagents,
             \/ \E a \in Actions : BeginTool(c, a, targets)
             \/ CompleteTool(c, targets)
      PROVE UNCHANGED announced
  BY <1>6 DEF BeginTool, CompleteTool, sendVars
<1>7. CASE ToolStart \/ GraceEnds \/ ToggleIdle \/ UNCHANGED vars
  BY <1>4, <1>7 DEF ToolStart, GraceEnds, ToggleIdle, sendVars, vars
<1>8. ~SessionStart /\ ~SessionShutdown
  BY DEF SessionStart, SessionShutdown
<1> QED BY <1>2, <1>3, <1>4, <1>5, <1>6, <1>7, <1>8 DEF Next

(* What inspect or cancel showed is not announced again in the session. *)
THEOREM SeenIsNotAnnounced == Spec => SeenStaysQuiet
<1>1. IInv /\ [Next]_vars =>
        [\A k \in Keys : k \in seen /\ ctx /\ ctx' => announced'[k] <= announced[k]]_vars
  BY StepSparesSeen
<1> QED BY <1>1, Invariance, PTL DEF Spec, SeenStaysQuiet
=============================================================================
