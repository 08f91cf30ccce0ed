------------------------- MODULE ConversationProofs -------------------------
(***************************************************************************)
(* Theorems about Conversation, for any number of generations, steers and  *)
(* observers and for both kinds of executor.  Then about PaneExecution,    *)
(* for any number of viewers: it is a Conversation, it leaves no pane      *)
(* behind without an owner, and a generation returns only its own result.  *)
(***************************************************************************)
EXTENDS PaneExecution, SequenceTheorems, TLAPS

(* Who is done: every generation but the latest, and the latest once       *)
(* nothing of it is queued or running.  An execution is owed an end as     *)
(* long as its completion is open.                                         *)
Lifecycle ==
  /\ \A g \in Generations : g < latest => IsDone(g) /\ completion[g] # "open"
  /\ \A g \in Generations : g > latest =>
       exec[g] = "absent" /\ completion[g] = "open" /\ abortStep[g] = "none"
  /\ \A g \in Generations : completion[g] # "open" => IsDone(g)
  /\ \A g \in Generations : abortStep[g] # "none" => IsDone(g)
  /\ \A g \in Generations : exec[g] \in {"returned", "dropped"} => completion[g] # "open"
  /\ exec[latest] # "absent"
  /\ status[latest] = "running" => exec[latest] = "executing"
  /\ status[latest] = "queued" => exec[latest] \in {"pending", "started", "launching"}

(* A generation that is done while its execution is owed is one that a     *)
(* cancel settled and still waits for.                                     *)
OwedIsStopping ==
  \A g \in Generations : IsDone(g) /\ completion[g] = "open" => stopping.generation = g

(* While the conversation waits for a cancelled execution, its completion  *)
(* is settled only by its end: giving it up is what ends the waiting.      *)
SettledIsOver ==
  \A g \in Generations :
    stopping.generation = g /\ completion[g] # "open" => exec[g] \in {"returned", "dropped"}

(* A steer that is being sent is at the head of the chain, and one that    *)
(* was called belongs to a generation that exists.                         *)
SteerChain ==
  /\ \A s \in Steers : steer[s] \in {"sending", "sent"} => steerTail # <<>> /\ Head(steerTail) = s
  /\ \A s \in Steers : steer[s] # "idle" => steerGen[s] \in 1..latest

(* A session belongs to the session executor and a session file to panes,  *)
(* and a generation that is to continue one finds it.                      *)
Resources ==
  /\ PaneBacked => ~session
  /\ ~PaneBacked => ~sessionFile
  /\ ResumeFindsSession

(* Without panes an abandoned execution takes the session with it: what    *)
(* may still be resumed has nothing unfinished behind it.                  *)
ExecutionOver(g) == exec[g] \in {"returned", "dropped"} /\ abortStep[g] \in {"none", "over"}

SessionsExclusive ==
  ~PaneBacked =>
    /\ ExecutionsDisjoint
    /\ session \/ ~IsDone(latest) =>
         \A g \in Generations : IsDone(g) /\ stopping.generation # g => ExecutionOver(g)

IInv ==
  /\ TypeOK
  /\ Lifecycle
  /\ OwedIsStopping
  /\ StoppingTracksAbort
  /\ SteerChain
  /\ ReceiptsClosed
  /\ Resources
  /\ SessionsExclusive
  /\ SettledIsOver

StoppingRecords ==
  [generation : 0..MaxGenerations, abortSettled : BOOLEAN, executionSettled : BOOLEAN]

(* Marking one of the two settlements leaves the other fields alone. *)
LEMMA StoppingFields ==
  /\ NotStopping \in StoppingRecords
  /\ \A s \in StoppingRecords :
       LET a == [s EXCEPT !.abortSettled = TRUE]
           e == [s EXCEPT !.executionSettled = TRUE] IN
       /\ a \in StoppingRecords /\ e \in StoppingRecords
       /\ a.generation = s.generation /\ e.generation = s.generation
       /\ a.abortSettled = TRUE /\ a.executionSettled = s.executionSettled
       /\ e.executionSettled = TRUE /\ e.abortSettled = s.abortSettled
  <1>1. NotStopping \in StoppingRecords
    BY MaxGenerationsAssumption DEF NotStopping, StoppingRecords
  <1>2. ASSUME NEW s \in StoppingRecords
        PROVE  LET a == [s EXCEPT !.abortSettled = TRUE]
                   e == [s EXCEPT !.executionSettled = TRUE] IN
               /\ a \in StoppingRecords /\ e \in StoppingRecords
               /\ a.generation = s.generation /\ e.generation = s.generation
               /\ a.abortSettled = TRUE /\ a.executionSettled = s.executionSettled
               /\ e.executionSettled = TRUE /\ e.abortSettled = s.abortSettled
    BY DEF StoppingRecords
  <1>3. QED
    BY <1>1, <1>2

-----------------------------------------------------------------------------
(* One lemma per action of Next: it keeps the inductive invariant.  The    *)
(* last step before QED gathers the conjuncts whose variables the action   *)
(* leaves alone.                                                           *)

LEMMA StartTaskKeeps ==
  ASSUME IInv, NEW g \in Generations, StartTask(g)
  PROVE  IInv'
  <1>1. ExecutionTypes'
    BY DEF IInv, TypeOK, ExecutionTypes, StartTask, ExecStages, resourceVars
  <1>2. Lifecycle'
    BY DEF IInv, StartTask, Lifecycle, IsDone, historyVars, stopVars
  <1>3. Resources'
    BY DEF IInv, StartTask, Resources, ResumeFindsSession, IsDone,
           historyVars, resourceVars
  <1>4. SessionsExclusive'
    BY DEF IInv, StartTask, SessionsExclusive, ExecutionsDisjoint,
           ExecutionOver, IsDone, historyVars, stopVars, resourceVars
  <1>5. SettledIsOver'
    BY DEF IInv, StartTask, SettledIsOver, stopVars
  <1>6. /\ HistoryTypes' /\ StoppingTypes' /\ SteerTypes' /\ OwedIsStopping'
        /\ StoppingTracksAbort' /\ SteerChain' /\ ReceiptsClosed'
    BY DEF IInv, TypeOK, HistoryTypes, StoppingTypes, SteerTypes,
           OwedIsStopping, StoppingTracksAbort, SteerChain, ReceiptsClosed,
           StartTask, IsDone, IsStopping, historyVars, stopVars, steerVars
  <1>7. QED
    BY <1>1, <1>2, <1>3, <1>4, <1>5, <1>6 DEF IInv, TypeOK

LEMMA SkipSettledKeeps ==
  ASSUME IInv, NEW g \in Generations, SkipSettled(g)
  PROVE  IInv'
  <1>1. ExecutionTypes'
    BY DEF IInv, TypeOK, ExecutionTypes, SkipSettled, Return, ExecStages,
           resourceVars
  <1>2. Lifecycle'
    BY DEF IInv, TypeOK, ExecutionTypes, SkipSettled, Return, Lifecycle,
           IsDone, Outcomes, historyVars, stopVars
  <1>3. OwedIsStopping'
    BY DEF IInv, SkipSettled, Return, OwedIsStopping, IsDone, historyVars,
           stopVars
  <1>4. StoppingTracksAbort'
    BY DEF IInv, SkipSettled, Return, StoppingTracksAbort, IsStopping,
           historyVars, stopVars
  <1>5. Resources'
    BY DEF IInv, SkipSettled, Return, Resources, ResumeFindsSession, IsDone,
           historyVars, resourceVars
  <1>6. SessionsExclusive'
    BY DEF IInv, SkipSettled, Return, SessionsExclusive, ExecutionsDisjoint,
           ExecutionOver, IsDone, historyVars, stopVars, resourceVars
  <1>7. SettledIsOver'
    BY DEF IInv, TypeOK, ExecutionTypes, SkipSettled, Return, SettledIsOver,
           stopVars
  <1>8. /\ HistoryTypes' /\ StoppingTypes' /\ SteerTypes' /\ SteerChain'
        /\ ReceiptsClosed'
    BY DEF IInv, TypeOK, HistoryTypes, StoppingTypes, SteerTypes, SteerChain,
           ReceiptsClosed, SkipSettled, historyVars, stopVars, steerVars
  <1>9. QED
    BY <1>1, <1>2, <1>3, <1>4, <1>5, <1>6, <1>7, <1>8 DEF IInv, TypeOK

LEMMA FailToStartKeeps ==
  ASSUME IInv, NEW g \in Generations, FailToStart(g)
  PROVE  IInv'
  <1>1. HistoryTypes'
    BY MaxGenerationsAssumption
    DEF IInv, TypeOK, HistoryTypes, FailToStart, Settle, Generations, Outcomes
  <1>2. ExecutionTypes'
    BY DEF IInv, TypeOK, ExecutionTypes, FailToStart, Return, ExecStages,
           resourceVars
  <1>3. SteerTypes'
    BY DEF IInv, TypeOK, SteerTypes, FailToStart, Settle, SteerStates
  <1>4. Lifecycle'
    BY MaxGenerationsAssumption
    DEF IInv, TypeOK, HistoryTypes, ExecutionTypes, FailToStart, Settle,
        Return, Lifecycle, IsDone, Generations, Outcomes, stopVars
  <1>5. OwedIsStopping'
    BY MaxGenerationsAssumption
    DEF IInv, TypeOK, HistoryTypes, ExecutionTypes, FailToStart, Settle,
        Return, OwedIsStopping, Lifecycle, IsDone, Generations, Outcomes
  <1>6. StoppingTracksAbort'
    BY DEF IInv, TypeOK, HistoryTypes, FailToStart, Settle, Return,
           StoppingTracksAbort, IsStopping, Lifecycle, IsDone, stopVars
  <1>7. SteerChain'
    BY DEF IInv, FailToStart, Settle, SteerChain
  <1>8. ReceiptsClosed'
    BY MaxGenerationsAssumption, PaneBackedAssumption
    DEF IInv, TypeOK, HistoryTypes, FailToStart, Settle, ReceiptsClosed,
        SteerChain, Generations, Outcomes, stopVars
  <1>9. Resources'
    BY DEF IInv, FailToStart, Settle, Return, Resources, ResumeFindsSession,
           IsDone, resourceVars
  <1>10. SessionsExclusive'
    BY MaxGenerationsAssumption
    DEF IInv, TypeOK, HistoryTypes, ExecutionTypes, FailToStart, Settle,
        Return, SessionsExclusive, ExecutionsDisjoint, ExecutionOver,
        Lifecycle, IsDone, Generations, stopVars
  <1>11. SettledIsOver'
    BY DEF IInv, TypeOK, ExecutionTypes, FailToStart, Return, SettledIsOver,
           stopVars
  <1>12. StoppingTypes'
    BY DEF IInv, TypeOK, StoppingTypes, FailToStart, stopVars
  <1>13. QED
    BY <1>1, <1>2, <1>3, <1>4, <1>5, <1>6, <1>7, <1>8, <1>9, <1>10, <1>11,
       <1>12 DEF IInv, TypeOK

LEMMA LaunchKeeps ==
  ASSUME IInv, NEW g \in Generations, Launch(g)
  PROVE  IInv'
  <1>1. ExecutionTypes'
    BY DEF IInv, TypeOK, ExecutionTypes, Launch, ExecStages, resourceVars
  <1>2. Lifecycle'
    BY DEF IInv, Launch, Lifecycle, IsDone, historyVars, stopVars
  <1>3. Resources'
    BY DEF IInv, Launch, Resources, ResumeFindsSession, IsDone, historyVars,
           resourceVars
  <1>4. SessionsExclusive'
    BY DEF IInv, TypeOK, HistoryTypes, Launch, SessionsExclusive,
           ExecutionsDisjoint, ExecutionOver, Lifecycle, StoppingTracksAbort,
           IsStopping, IsDone, Generations, historyVars
  <1>5. SettledIsOver'
    BY DEF IInv, Launch, SettledIsOver, stopVars
  <1>6. /\ HistoryTypes' /\ StoppingTypes' /\ SteerTypes' /\ OwedIsStopping'
        /\ StoppingTracksAbort' /\ SteerChain' /\ ReceiptsClosed'
    BY DEF IInv, TypeOK, HistoryTypes, StoppingTypes, SteerTypes,
           OwedIsStopping, StoppingTracksAbort, SteerChain, ReceiptsClosed,
           Launch, IsDone, IsStopping, historyVars, stopVars, steerVars
  <1>7. QED
    BY <1>1, <1>2, <1>3, <1>4, <1>5, <1>6 DEF IInv, TypeOK

LEMMA ReuseKeeps ==
  ASSUME IInv, NEW g \in Generations, Reuse(g)
  PROVE  IInv'
  <1>1. HistoryTypes'
    <2>1. status' = [status EXCEPT ![g] = "running"] /\ status[g] # "absent"
      BY DEF IInv, Lifecycle, TypeOK, HistoryTypes, Reuse
    <2>2. QED
      BY <2>1 DEF IInv, TypeOK, HistoryTypes, Reuse
  <1>2. ExecutionTypes'
    BY DEF IInv, TypeOK, ExecutionTypes, Reuse, ExecStages, resourceVars
  <1>3. Lifecycle'
    BY DEF IInv, TypeOK, HistoryTypes, ExecutionTypes, Reuse, Lifecycle,
           IsDone, stopVars
  <1>4. OwedIsStopping'
    BY DEF IInv, TypeOK, HistoryTypes, Reuse, OwedIsStopping, Lifecycle,
           IsDone, Generations, Outcomes
  <1>5. StoppingTracksAbort'
    BY DEF IInv, TypeOK, HistoryTypes, Reuse, StoppingTracksAbort, IsStopping,
           IsDone, stopVars
  <1>6. ReceiptsClosed'
    BY DEF IInv, Reuse, ReceiptsClosed, steerVars
  <1>7. Resources'
    BY DEF IInv, Reuse, Resources, ResumeFindsSession, resourceVars
  <1>8. SessionsExclusive'
    BY DEF IInv, Reuse, SessionsExclusive, ExecutionsDisjoint, ExecutionOver,
           IsDone, Outcomes, stopVars
  <1>9. SettledIsOver'
    BY DEF IInv, Reuse, SettledIsOver, stopVars
  <1>10. StoppingTypes' /\ SteerTypes' /\ SteerChain'
    BY DEF IInv, TypeOK, StoppingTypes, SteerTypes, SteerChain, Reuse,
           stopVars, steerVars
  <1>11. QED
    BY <1>1, <1>2, <1>3, <1>4, <1>5, <1>6, <1>7, <1>8, <1>9, <1>10 DEF IInv, TypeOK

LEMMA LaunchFailsKeeps ==
  ASSUME IInv, NEW g \in Generations, NEW bound \in BOOLEAN, LaunchFails(g, bound)
  PROVE  IInv'
  <1>1. HistoryTypes'
    BY MaxGenerationsAssumption
    DEF IInv, TypeOK, HistoryTypes, LaunchFails, Settle, Generations, Outcomes
  <1>2. ExecutionTypes'
    BY DEF IInv, TypeOK, ExecutionTypes, LaunchFails, Return, ExecStages,
           resourceVars
  <1>3. SteerTypes'
    BY DEF IInv, TypeOK, SteerTypes, LaunchFails, Settle, SteerStates
  <1>4. Lifecycle'
    BY MaxGenerationsAssumption
    DEF IInv, TypeOK, HistoryTypes, ExecutionTypes, LaunchFails, Settle,
        Return, Lifecycle, IsDone, Generations, Outcomes, stopVars
  <1>5. OwedIsStopping'
    BY MaxGenerationsAssumption
    DEF IInv, TypeOK, HistoryTypes, ExecutionTypes, LaunchFails, Settle,
        Return, OwedIsStopping, IsDone, stopVars
  <1>6. StoppingTracksAbort'
    BY DEF IInv, TypeOK, HistoryTypes, ExecutionTypes, LaunchFails, Settle,
           Return, StoppingTracksAbort, IsStopping, IsDone, stopVars
  <1>7. SteerChain'
    BY DEF IInv, LaunchFails, Settle, SteerChain
  <1>8. ReceiptsClosed'
    BY MaxGenerationsAssumption
    DEF IInv, TypeOK, HistoryTypes, SteerTypes, LaunchFails, Settle,
        ReceiptsClosed, SteerChain, Lifecycle, Generations
  <1>9. Resources'
    <2>1. /\ session' = session
          /\ sessionFile => sessionFile'
          /\ sessionFile' => sessionFile \/ PaneBacked
      BY DEF LaunchFails
    <2>2. \A h \in Generations : exec'[h] \in {"pending", "started"} => exec[h] = exec'[h]
      BY DEF IInv, TypeOK, ExecutionTypes, LaunchFails, Return
    <2>3. \A h \in Generations : ~IsDone(h)' => ~IsDone(h)
      BY DEF IInv, TypeOK, HistoryTypes, LaunchFails, Settle, IsDone, Outcomes
    <2>4. latest' = latest /\ latest \in Generations
      BY DEF IInv, TypeOK, HistoryTypes, LaunchFails
    <2>5. (PaneBacked => ~session)' /\ (~PaneBacked => ~sessionFile)'
      BY <2>1 DEF IInv, Resources
    <2>6. ResumeFindsSession'
      BY <2>1, <2>2, <2>3, <2>4 DEF IInv, Resources, ResumeFindsSession, IsDone
    <2>7. QED
      BY <2>5, <2>6 DEF Resources
  <1>10. SessionsExclusive'
    BY MaxGenerationsAssumption
    DEF IInv, TypeOK, HistoryTypes, ExecutionTypes, LaunchFails, Settle,
        Return, SessionsExclusive, ExecutionsDisjoint, ExecutionOver,
        Lifecycle, IsDone, stopVars, resourceVars
  <1>11. SettledIsOver'
    BY DEF IInv, TypeOK, ExecutionTypes, LaunchFails, Return, SettledIsOver,
           stopVars
  <1>12. StoppingTypes'
    BY DEF IInv, TypeOK, StoppingTypes, LaunchFails, stopVars
  <1>13. QED
    BY <1>1, <1>2, <1>3, <1>4, <1>5, <1>6, <1>7, <1>8, <1>9, <1>10, <1>11,
       <1>12 DEF IInv, TypeOK

LEMMA BindKeeps ==
  ASSUME IInv, NEW g \in Generations, Bind(g)
  PROVE  IInv'
  <1>1. HistoryTypes'
    BY MaxGenerationsAssumption DEF IInv, TypeOK, HistoryTypes, Bind, Generations
  <1>2. ExecutionTypes'
    BY DEF IInv, TypeOK, ExecutionTypes, Bind, Return, ExecStages
  <1>3. Lifecycle'
    BY MaxGenerationsAssumption
    DEF IInv, TypeOK, HistoryTypes, ExecutionTypes, Bind, Return, Lifecycle,
        IsDone, Generations, Outcomes, stopVars, steerVars
  <1>4. OwedIsStopping'
    BY MaxGenerationsAssumption
    DEF IInv, TypeOK, HistoryTypes, ExecutionTypes, Bind, Return,
        OwedIsStopping, IsDone, Outcomes, stopVars
  <1>5. StoppingTracksAbort'
    BY MaxGenerationsAssumption
    DEF IInv, TypeOK, HistoryTypes, ExecutionTypes, Bind, Return,
        StoppingTracksAbort, IsStopping, IsDone, stopVars
  <1>6. ReceiptsClosed'
    BY MaxGenerationsAssumption, PaneBackedAssumption
    DEF IInv, TypeOK, HistoryTypes, Bind, ReceiptsClosed, SteerChain,
        Generations, Outcomes, steerVars
  <1>7. Resources'
    BY DEF IInv, TypeOK, HistoryTypes, ExecutionTypes, Bind, Return,
           Resources, ResumeFindsSession, IsDone
  <1>8. SessionsExclusive'
    BY MaxGenerationsAssumption
    DEF IInv, TypeOK, HistoryTypes, ExecutionTypes, Bind, Return,
        SessionsExclusive, ExecutionsDisjoint, ExecutionOver, IsDone,
        Outcomes, stopVars
  <1>9. SettledIsOver'
    BY PaneBackedAssumption
    DEF IInv, TypeOK, ExecutionTypes, Bind, Return, SettledIsOver, stopVars,
        steerVars
  <1>10. StoppingTypes' /\ SteerTypes' /\ SteerChain'
    BY DEF IInv, TypeOK, StoppingTypes, SteerTypes, SteerChain, Bind,
           stopVars, steerVars
  <1>11. QED
    BY <1>1, <1>2, <1>3, <1>4, <1>5, <1>6, <1>7, <1>8, <1>9, <1>10 DEF IInv, TypeOK

LEMMA ExecutorEndsKeeps ==
  ASSUME IInv, NEW g \in Generations, NEW outcome \in {"completed", "error", "interrupted"},
         ExecutorEnds(g, outcome)
  PROVE  IInv'
  <1>1. HistoryTypes'
    BY MaxGenerationsAssumption
    DEF IInv, TypeOK, HistoryTypes, ExecutorEnds, Settle, Generations,
        Outcomes
  <1>2. ExecutionTypes'
    BY DEF IInv, TypeOK, ExecutionTypes, ExecutorEnds, Return, ExecStages,
           resourceVars
  <1>3. SteerTypes'
    BY DEF IInv, TypeOK, SteerTypes, ExecutorEnds, Settle, SteerStates
  <1>4. Lifecycle'
    BY MaxGenerationsAssumption
    DEF IInv, TypeOK, HistoryTypes, ExecutionTypes, ExecutorEnds, Settle,
        Return, Lifecycle, IsDone, Generations, Outcomes, stopVars
  <1>5. OwedIsStopping'
    BY MaxGenerationsAssumption
    DEF IInv, TypeOK, HistoryTypes, ExecutionTypes, ExecutorEnds, Settle,
        Return, OwedIsStopping, IsDone, stopVars
  <1>6. StoppingTracksAbort'
    BY DEF IInv, TypeOK, HistoryTypes, ExecutionTypes, ExecutorEnds, Settle,
           Return, StoppingTracksAbort, IsStopping, IsDone, stopVars
  <1>7. SteerChain'
    BY DEF IInv, ExecutorEnds, Settle, SteerChain
  <1>8. ReceiptsClosed'
    <2>1. CASE g = latest /\ ~IsDone(g)
      <3>1. ASSUME NEW s \in Steers, steer'[s] \in {"queued", "delivered"}
            PROVE  steer[s] = steer'[s] /\ steerGen[s] # g
        BY <2>1, <3>1 DEF IInv, TypeOK, SteerTypes, ExecutorEnds, Settle
      <3>2. ASSUME NEW s \in Steers, steer'[s] \in {"queued", "delivered"}
            PROVE  steerGen[s] \in Generations
        BY <3>1, <3>2, MaxGenerationsAssumption
        DEF IInv, TypeOK, HistoryTypes, Generations, SteerChain
      <3>3. status' = [status EXCEPT ![g] = outcome] /\ UNCHANGED steerGen
        BY <2>1 DEF ExecutorEnds, Settle
      <3>4. QED
        BY <3>1, <3>2, <3>3 DEF IInv, TypeOK, HistoryTypes, ReceiptsClosed
    <2>2. CASE ~(g = latest /\ ~IsDone(g))
      BY <2>2 DEF IInv, ReceiptsClosed, ExecutorEnds, Settle
    <2>3. QED
      BY <2>1, <2>2
  <1>9. Resources'
    BY DEF IInv, ExecutionTypes, ExecutorEnds, Settle, Return, Resources,
           ResumeFindsSession, IsDone, resourceVars
  <1>10. SessionsExclusive'
    BY MaxGenerationsAssumption
    DEF IInv, TypeOK, HistoryTypes, ExecutionTypes, ExecutorEnds, Settle,
        Return, SessionsExclusive, ExecutionsDisjoint, ExecutionOver,
        Lifecycle, IsDone, stopVars, resourceVars
  <1>11. SettledIsOver'
    BY DEF IInv, TypeOK, ExecutionTypes, ExecutorEnds, Return, SettledIsOver,
           stopVars
  <1>12. StoppingTypes'
    BY DEF IInv, TypeOK, StoppingTypes, ExecutorEnds, stopVars
  <1>13. QED
    BY <1>1, <1>2, <1>3, <1>4, <1>5, <1>6, <1>7, <1>8, <1>9, <1>10, <1>11,
       <1>12 DEF IInv, TypeOK

LEMMA ObserveCompletionKeeps ==
  ASSUME IInv, NEW g \in Generations, ObserveCompletion(g)
  PROVE  IInv'
  <1> USE DEF Generations
  <1>1. /\ stopping \in StoppingRecords
        /\ completion' = [completion EXCEPT ![g] = "observed"]
    BY DEF IInv, TypeOK, StoppingTypes, StoppingRecords, ObserveCompletion
  <1>2. \/ stopping.generation # g /\ stopping' = stopping
        \/ stopping.generation = g /\ stopping.abortSettled /\ stopping' = NotStopping
        \/ /\ stopping.generation = g /\ ~stopping.abortSettled
           /\ stopping' = [stopping EXCEPT !.executionSettled = TRUE]
    BY <1>1, StoppingFields DEF ObserveCompletion, FinishStopping
  <1>3. /\ stopping' \in StoppingRecords
        /\ \/ stopping'.generation = stopping.generation
           \/ /\ stopping.generation = g /\ stopping.abortSettled
              /\ stopping'.generation = 0
    <2>1. CASE stopping.generation = g /\ stopping.abortSettled /\ stopping' = NotStopping
      <3>1. NotStopping.generation = 0 /\ NotStopping \in StoppingRecords
        BY StoppingFields DEF NotStopping
      <3>2. QED
        BY <2>1, <3>1
    <2>2. CASE stopping' = stopping
      BY <1>1, <2>2
    <2>3. CASE stopping' = [stopping EXCEPT !.executionSettled = TRUE]
      BY <1>1, <2>3, StoppingFields
    <2>4. QED
      BY <1>2, <2>1, <2>2, <2>3
  <1>4. StoppingTypes' /\ ExecutionTypes'
    BY <1>1, <1>3 DEF IInv, TypeOK, StoppingTypes, ExecutionTypes, StoppingRecords,
                      ObserveCompletion, resourceVars
  <1>5. Lifecycle'
    BY <1>1 DEF IInv, TypeOK, HistoryTypes, ExecutionTypes, Lifecycle, IsDone, ObserveCompletion,
                historyVars
  <1>6. OwedIsStopping'
    BY <1>1, <1>3 DEF IInv, TypeOK, ExecutionTypes, OwedIsStopping, IsDone, ObserveCompletion,
                      historyVars
  <1>7. StoppingTracksAbort'
    <2>1. CASE stopping.generation # g
      BY <1>1, <1>2, <2>1, MaxGenerationsAssumption
      DEF IInv, TypeOK, HistoryTypes, ExecutionTypes, StoppingTypes, StoppingTracksAbort, IsStopping,
          ObserveCompletion, historyVars, execVars
    <2>2. CASE stopping' = NotStopping
      BY <2>2 DEF StoppingTracksAbort, IsStopping, NotStopping
    <2>3. CASE stopping.generation = g /\ stopping' = [stopping EXCEPT !.executionSettled = TRUE]
      <3>1. /\ stopping'.generation = g /\ stopping'.executionSettled = TRUE
            /\ stopping'.abortSettled = stopping.abortSettled
        BY <1>1, <2>3, StoppingFields
      <3>2. CASE stopping.abortSettled
        BY <1>2, <2>2, <2>3, <3>2
      <3>3. CASE ~stopping.abortSettled
        <4>1. g = latest /\ status[latest] = "aborted" /\ abortStep[latest] # "over"
          BY <2>3, <3>3 DEF IInv, StoppingTracksAbort, IsStopping
        <4>2. completion'[g] = "observed"
          BY <1>1 DEF IInv, TypeOK, ExecutionTypes
        <4>3. QED
          BY <3>1, <3>3, <4>1, <4>2
          DEF StoppingTracksAbort, IsStopping, ObserveCompletion, historyVars
      <3>4. QED
        BY <3>2, <3>3
    <2>4. QED
      BY <1>2, <2>1, <2>2, <2>3
  <1>8. SessionsExclusive'
    <2>1. ASSUME ~PaneBacked, session \/ ~IsDone(latest), NEW h \in Generations,
                 IsDone(h), stopping'.generation # h
          PROVE  ExecutionOver(h)'
      <3>1. CASE stopping.generation # h
        BY <1>1, <2>1, <3>1
        DEF IInv, TypeOK, StoppingTypes, SessionsExclusive, ExecutionOver, ObserveCompletion, execVars
      <3>2. CASE stopping.generation = h
        <4>1. h = g /\ stopping.generation = g /\ stopping.abortSettled
          BY <1>3, <2>1, <3>2
        <4>2. abortStep[h] = "over"
          BY <4>1 DEF IInv, StoppingTracksAbort, IsStopping
        <4>3. exec[h] \in {"returned", "dropped"}
          BY <4>1 DEF IInv, SettledIsOver, ObserveCompletion
        <4>4. QED
          BY <4>2, <4>3 DEF ExecutionOver, ObserveCompletion
      <3>3. QED
        BY <3>1, <3>2
    <2>2. ~PaneBacked => ExecutionsDisjoint'
      BY <1>1 DEF IInv, TypeOK, StoppingTypes, SessionsExclusive, ExecutionsDisjoint, ObserveCompletion,
                  historyVars, execVars
    <2>3. QED
      BY <2>1, <2>2 DEF SessionsExclusive, IsDone, ObserveCompletion, historyVars, resourceVars
  <1>9. SettledIsOver'
    BY <1>1, <1>3 DEF IInv, TypeOK, ExecutionTypes, SettledIsOver, ObserveCompletion, execVars
  <1>10. HistoryTypes' /\ SteerTypes' /\ SteerChain' /\ ReceiptsClosed' /\ Resources'
    BY DEF IInv, TypeOK, HistoryTypes, SteerTypes, SteerChain, ReceiptsClosed, Resources,
           ResumeFindsSession, IsDone, ObserveCompletion, historyVars, execVars, resourceVars,
           steerVars
  <1>11. QED
    BY <1>4, <1>5, <1>6, <1>7, <1>8, <1>9, <1>10 DEF IInv, TypeOK

LEMMA BindGenerationKeeps ==
  ASSUME IInv, NEW o \in Observers, BindGeneration(o)
  PROVE  IInv'
  <1>1. HistoryTypes'
    BY DEF IInv, TypeOK, HistoryTypes, BindGeneration, Generations
  <1>2. /\ ExecutionTypes' /\ StoppingTypes' /\ SteerTypes' /\ Lifecycle'
        /\ OwedIsStopping' /\ StoppingTracksAbort' /\ SteerChain'
        /\ ReceiptsClosed' /\ Resources' /\ SessionsExclusive'
        /\ SettledIsOver'
    BY DEF IInv, TypeOK, ExecutionTypes, StoppingTypes, SteerTypes, Lifecycle,
           OwedIsStopping, StoppingTracksAbort, SteerChain, ReceiptsClosed,
           Resources, SessionsExclusive, SettledIsOver, BindGeneration,
           IsDone, IsStopping, ResumeFindsSession, ExecutionsDisjoint,
           ExecutionOver, execVars, stopVars, resourceVars, steerVars
  <1>3. QED
    BY <1>1, <1>2 DEF IInv, TypeOK

LEMMA CollectKeeps ==
  ASSUME IInv, NEW o \in Observers, Collect(o)
  PROVE  IInv'
  <1>1. HistoryTypes'
    <2>1. observes[o] \in Generations
      BY MaxGenerationsAssumption DEF IInv, TypeOK, HistoryTypes, Collect, Generations
    <2>2. QED
      BY <2>1, MaxGenerationsAssumption DEF IInv, TypeOK, HistoryTypes, Collect
  <1>2. /\ ExecutionTypes' /\ StoppingTypes' /\ SteerTypes' /\ Lifecycle'
        /\ OwedIsStopping' /\ StoppingTracksAbort' /\ SteerChain'
        /\ ReceiptsClosed' /\ Resources' /\ SessionsExclusive'
        /\ SettledIsOver'
    BY DEF IInv, TypeOK, ExecutionTypes, StoppingTypes, SteerTypes, Lifecycle,
           OwedIsStopping, StoppingTracksAbort, SteerChain, ReceiptsClosed,
           Resources, SessionsExclusive, SettledIsOver, Collect, IsDone,
           IsStopping, ResumeFindsSession, ExecutionsDisjoint, ExecutionOver,
           execVars, stopVars, resourceVars, steerVars
  <1>3. QED
    BY <1>1, <1>2 DEF IInv, TypeOK

LEMMA InterruptJoinKeeps ==
  ASSUME IInv, NEW o \in Observers, InterruptJoin(o)
  PROVE  IInv'
  <1>1. HistoryTypes'
    BY MaxGenerationsAssumption DEF IInv, TypeOK, HistoryTypes, InterruptJoin
  <1>2. /\ ExecutionTypes' /\ StoppingTypes' /\ SteerTypes' /\ Lifecycle'
        /\ OwedIsStopping' /\ StoppingTracksAbort' /\ SteerChain'
        /\ ReceiptsClosed' /\ Resources' /\ SessionsExclusive'
        /\ SettledIsOver'
    BY DEF IInv, TypeOK, ExecutionTypes, StoppingTypes, SteerTypes, Lifecycle,
           OwedIsStopping, StoppingTracksAbort, SteerChain, ReceiptsClosed,
           Resources, SessionsExclusive, SettledIsOver, InterruptJoin, IsDone,
           IsStopping, ResumeFindsSession, ExecutionsDisjoint, ExecutionOver,
           execVars, stopVars, resourceVars, steerVars
  <1>3. QED
    BY <1>1, <1>2 DEF IInv, TypeOK

LEMMA ResumeKeeps ==
  ASSUME IInv, Resume
  PROVE  IInv'
  <1>1. HistoryTypes'
    BY MaxGenerationsAssumption
    DEF IInv, TypeOK, HistoryTypes, Resume, IsResumeAllowed, Generations
  <1>2. ExecutionTypes'
    BY DEF IInv, TypeOK, ExecutionTypes, Resume, IsResumeAllowed, ExecStages,
           resourceVars
  <1>3. Lifecycle'
    BY MaxGenerationsAssumption
    DEF IInv, TypeOK, HistoryTypes, ExecutionTypes, Resume, IsResumeAllowed,
        IsStopping, Lifecycle, IsDone, Generations, OwedIsStopping, stopVars
  <1>4. OwedIsStopping'
    BY DEF IInv, Resume, IsResumeAllowed, IsStopping, OwedIsStopping, IsDone,
           Generations, Outcomes
  <1>5. StoppingTracksAbort'
    BY DEF IInv, Resume, IsResumeAllowed, IsStopping, StoppingTracksAbort,
           stopVars
  <1>6. SteerChain'
    BY DEF IInv, TypeOK, HistoryTypes, Resume, IsResumeAllowed, SteerChain,
           Generations, steerVars
  <1>7. ReceiptsClosed'
    BY DEF IInv, TypeOK, HistoryTypes, Resume, IsResumeAllowed,
           ReceiptsClosed, Generations, steerVars
  <1>8. Resources'
    BY DEF IInv, Resume, IsResumeAllowed, Resources, ResumeFindsSession,
           resourceVars
  <1>9. SessionsExclusive'
    BY DEF IInv, TypeOK, HistoryTypes, Resume, IsResumeAllowed, IsStopping,
           SessionsExclusive, ExecutionsDisjoint, ExecutionOver, IsDone,
           Generations, Outcomes, Resources, stopVars
  <1>10. SettledIsOver'
    BY DEF IInv, Resume, IsResumeAllowed, IsStopping, SettledIsOver,
           Generations, stopVars
  <1>11. StoppingTypes' /\ SteerTypes'
    BY DEF IInv, TypeOK, StoppingTypes, SteerTypes, Resume, IsResumeAllowed,
           stopVars, steerVars
  <1>12. QED
    BY <1>1, <1>2, <1>3, <1>4, <1>5, <1>6, <1>7, <1>8, <1>9, <1>10, <1>11 DEF IInv, TypeOK

LEMMA CancelKeeps ==
  ASSUME IInv, Cancel
  PROVE  IInv'
  <1>1. HistoryTypes'
    BY MaxGenerationsAssumption
    DEF IInv, TypeOK, HistoryTypes, Cancel, Settle, Generations, Outcomes
  <1>2. ExecutionTypes'
    BY DEF IInv, TypeOK, ExecutionTypes, Cancel, ExecStages, execVars,
           resourceVars
  <1>3. StoppingTypes'
    <2>1. stopping' \in StoppingRecords
      <3>1. latest \in 0..MaxGenerations
        BY MaxGenerationsAssumption DEF IInv, TypeOK, HistoryTypes, Generations
      <3>2. stopping' = [generation |-> latest, abortSettled |-> FALSE, executionSettled |-> FALSE]
        BY DEF Cancel, NotStopping
      <3>3. QED
        BY <3>1, <3>2 DEF StoppingRecords
    <2>2. abortTail' \in [Generations -> SUBSET Steers]
      <3>1. Range(steerTail) \subseteq Steers
        BY DEF IInv, TypeOK, SteerTypes, Range
      <3>2. QED
        BY <3>1 DEF IInv, TypeOK, StoppingTypes, Cancel
    <2>3. abortStep' \in [Generations -> {"none", "draining", "waiting", "control", "over"}]
      BY DEF IInv, TypeOK, StoppingTypes, Cancel
    <2>4. QED
      BY <2>1, <2>2, <2>3 DEF StoppingTypes, StoppingRecords
  <1>4. SteerTypes'
    BY DEF IInv, TypeOK, SteerTypes, Cancel, Settle, SteerStates
  <1>5. Lifecycle'
    <2>1. /\ latest \in Generations /\ latest' = latest
          /\ status' = [status EXCEPT ![latest] = "aborted"]
          /\ \E step \in {"draining", "waiting"} : abortStep' = [abortStep EXCEPT ![latest] = step]
      BY DEF IInv, TypeOK, HistoryTypes, Cancel, Settle
    <2>2. CASE exec[latest] = "pending"
      <3>1. /\ exec' = [exec EXCEPT ![latest] = "dropped"]
            /\ completion' = [completion EXCEPT ![latest] = "settled"]
        BY <2>2 DEF Cancel
      <3>2. \A g \in Generations : IsDone(g) => IsDone(g)'
        BY <2>1 DEF IInv, TypeOK, HistoryTypes, IsDone, Outcomes
      <3>3. IsDone(latest)' /\ status'[latest] = "aborted"
        BY <2>1 DEF IInv, TypeOK, HistoryTypes, IsDone, Outcomes
      <3>4. QED
        BY <2>1, <3>1, <3>2, <3>3
        DEF IInv, TypeOK, ExecutionTypes, StoppingTypes, Lifecycle, Generations
    <2>3. CASE exec[latest] # "pending"
      BY <2>1, <2>3 DEF IInv, TypeOK, HistoryTypes, ExecutionTypes, StoppingTypes, Lifecycle,
                        IsDone, Outcomes, Generations, Cancel, execVars
    <2>4. QED
      BY <2>2, <2>3
  <1>6. OwedIsStopping'
    BY MaxGenerationsAssumption
    DEF IInv, TypeOK, HistoryTypes, ExecutionTypes, Cancel, Settle,
        OwedIsStopping, Lifecycle, IsDone, Generations, Outcomes, execVars
  <1>7. StoppingTracksAbort'
    BY MaxGenerationsAssumption
    DEF IInv, TypeOK, HistoryTypes, ExecutionTypes, Cancel, Settle,
        StoppingTracksAbort, Lifecycle, NotStopping, execVars
  <1>8. SteerChain'
    BY DEF IInv, Cancel, Settle, SteerChain
  <1>9. ReceiptsClosed'
    BY MaxGenerationsAssumption, PaneBackedAssumption
    DEF IInv, TypeOK, HistoryTypes, SteerTypes, Cancel, Settle,
        ReceiptsClosed, SteerChain, IsDone, Generations, Outcomes
  <1>10. Resources'
    BY DEF IInv, TypeOK, HistoryTypes, Cancel, Settle, Resources,
           ResumeFindsSession, IsDone, Outcomes, resourceVars
  <1>11. SessionsExclusive'
    BY MaxGenerationsAssumption
    DEF IInv, TypeOK, HistoryTypes, ExecutionTypes, Cancel, Settle,
        SessionsExclusive, ExecutionsDisjoint, ExecutionOver,
        StoppingTracksAbort, IsStopping, IsDone, Generations, execVars
  <1>12. SettledIsOver'
    BY DEF IInv, TypeOK, ExecutionTypes, Cancel, SettledIsOver, Lifecycle,
           NotStopping, execVars
  <1>13. QED
    BY <1>1, <1>2, <1>3, <1>4, <1>5, <1>6, <1>7, <1>8, <1>9, <1>10, <1>11,
       <1>12 DEF IInv, TypeOK

LEMMA AbortDrainedKeeps ==
  ASSUME IInv, NEW g \in Generations, AbortDrained(g)
  PROVE  IInv'
  <1>1. StoppingTypes'
    BY DEF IInv, TypeOK, StoppingTypes, AbortDrained
  <1>2. SteerTypes'
    BY DEF IInv, TypeOK, SteerTypes, AbortDrained
  <1>3. Lifecycle'
    BY DEF IInv, AbortDrained, Lifecycle, IsDone, historyVars, execVars
  <1>4. StoppingTracksAbort'
    BY DEF IInv, AbortDrained, StoppingTracksAbort, IsStopping, historyVars,
           execVars
  <1>5. SessionsExclusive'
    BY DEF IInv, AbortDrained, SessionsExclusive, ExecutionsDisjoint,
           ExecutionOver, IsDone, historyVars, execVars, resourceVars
  <1>6. /\ HistoryTypes' /\ ExecutionTypes' /\ OwedIsStopping' /\ SteerChain'
        /\ ReceiptsClosed' /\ Resources' /\ SettledIsOver'
    BY DEF IInv, TypeOK, HistoryTypes, ExecutionTypes, OwedIsStopping,
           SteerChain, ReceiptsClosed, Resources, SettledIsOver, AbortDrained,
           IsDone, ResumeFindsSession, historyVars, execVars, resourceVars
  <1>7. QED
    BY <1>1, <1>2, <1>3, <1>4, <1>5, <1>6 DEF IInv, TypeOK

LEMMA AbortSettledKeeps ==
  ASSUME IInv, NEW g \in Generations, AbortSettled(g)
  PROVE  IInv'
  <1> USE DEF Generations
  <1>1. /\ stopping \in StoppingRecords
        /\ abortStep' = [abortStep EXCEPT ![g] = "over"]
    BY DEF IInv, TypeOK, StoppingTypes, StoppingRecords, AbortSettled
  <1>2. \/ stopping.generation # g /\ stopping' = stopping
        \/ stopping.generation = g /\ stopping.executionSettled /\ stopping' = NotStopping
        \/ /\ stopping.generation = g /\ ~stopping.executionSettled
           /\ stopping' = [stopping EXCEPT !.abortSettled = TRUE]
    BY <1>1, StoppingFields DEF AbortSettled, FinishStopping
  <1>3. /\ stopping' \in StoppingRecords
        /\ \/ stopping'.generation = stopping.generation
           \/ /\ stopping.generation = g /\ stopping.executionSettled
              /\ stopping'.generation = 0
    <2>1. CASE stopping.generation = g /\ stopping.executionSettled /\ stopping' = NotStopping
      <3>1. NotStopping.generation = 0 /\ NotStopping \in StoppingRecords
        BY StoppingFields DEF NotStopping
      <3>2. QED
        BY <2>1, <3>1
    <2>2. CASE stopping' = stopping
      BY <1>1, <2>2
    <2>3. CASE stopping' = [stopping EXCEPT !.abortSettled = TRUE]
      BY <1>1, <2>3, StoppingFields
    <2>4. QED
      BY <1>2, <2>1, <2>2, <2>3
  <1>4. StoppingTypes' /\ ExecutionTypes'
    BY <1>1, <1>3 DEF IInv, TypeOK, StoppingTypes, ExecutionTypes, StoppingRecords,
                      AbortSettled, resourceVars, execVars
  <1>5. Lifecycle'
    BY <1>1 DEF IInv, TypeOK, HistoryTypes, StoppingTypes, Lifecycle, IsDone, AbortSettled,
                historyVars, execVars
  <1>6. OwedIsStopping'
    <2>1. stopping.generation = g /\ stopping.executionSettled => completion[g] # "open"
      BY DEF IInv, StoppingTracksAbort, IsStopping
    <2>2. QED
      BY <1>3, <2>1 DEF IInv, OwedIsStopping, IsDone, AbortSettled, historyVars, execVars
  <1>7. StoppingTracksAbort'
    <2>1. CASE stopping.generation # g
      BY <1>1, <1>2, <2>1, MaxGenerationsAssumption
      DEF IInv, TypeOK, HistoryTypes, ExecutionTypes, StoppingTypes, StoppingTracksAbort, IsStopping,
          AbortSettled, historyVars, execVars
    <2>2. CASE stopping' = NotStopping
      BY <2>2 DEF StoppingTracksAbort, IsStopping, NotStopping
    <2>3. CASE stopping.generation = g /\ stopping' = [stopping EXCEPT !.abortSettled = TRUE]
      <3>1. /\ stopping'.generation = g /\ stopping'.abortSettled = TRUE
            /\ stopping'.executionSettled = stopping.executionSettled
        BY <1>1, <2>3, StoppingFields
      <3>2. CASE stopping.executionSettled
        BY <1>2, <2>2, <2>3, <3>2
      <3>3. CASE ~stopping.executionSettled
        <4>1. g = latest /\ status[latest] = "aborted" /\ completion[latest] # "observed"
          BY <2>3, <3>3 DEF IInv, StoppingTracksAbort, IsStopping
        <4>2. abortStep'[g] = "over"
          BY <1>1 DEF IInv, TypeOK, StoppingTypes
        <4>3. QED
          BY <3>1, <3>3, <4>1, <4>2
          DEF StoppingTracksAbort, IsStopping, AbortSettled, historyVars, execVars
      <3>4. QED
        BY <3>2, <3>3
    <2>4. QED
      BY <1>2, <2>1, <2>2, <2>3
  <1>8. SessionsExclusive'
    <2>1. ASSUME ~PaneBacked, session \/ ~IsDone(latest), NEW h \in Generations,
                 IsDone(h), stopping'.generation # h
          PROVE  ExecutionOver(h)'
      <3>1. CASE stopping.generation # h
        BY <1>1, <2>1, <3>1
        DEF IInv, TypeOK, StoppingTypes, SessionsExclusive, ExecutionOver, AbortSettled, execVars
      <3>2. CASE stopping.generation = h
        <4>1. h = g /\ stopping.generation = g /\ stopping.executionSettled
          BY <1>3, <2>1, <3>2
        <4>2. abortStep'[h] = "over"
          BY <1>1, <4>1 DEF IInv, TypeOK, StoppingTypes
        <4>3. exec[h] \in {"returned", "dropped"}
          BY <4>1 DEF IInv, StoppingTracksAbort, IsStopping, SettledIsOver
        <4>4. QED
          BY <4>2, <4>3 DEF ExecutionOver, AbortSettled, execVars
      <3>3. QED
        BY <3>1, <3>2
    <2>2. ~PaneBacked => ExecutionsDisjoint'
      BY <1>1 DEF IInv, TypeOK, StoppingTypes, SessionsExclusive, ExecutionsDisjoint, AbortSettled,
                  historyVars, execVars
    <2>3. QED
      BY <2>1, <2>2 DEF SessionsExclusive, IsDone, AbortSettled, historyVars, resourceVars
  <1>9. SettledIsOver'
    BY <1>1, <1>3 DEF IInv, TypeOK, ExecutionTypes, SettledIsOver, AbortSettled, execVars
  <1>10. HistoryTypes' /\ SteerTypes' /\ SteerChain' /\ ReceiptsClosed' /\ Resources'
    BY DEF IInv, TypeOK, HistoryTypes, SteerTypes, SteerChain, ReceiptsClosed, Resources,
           ResumeFindsSession, IsDone, AbortSettled, historyVars, execVars, resourceVars,
           steerVars
  <1>11. QED
    BY <1>4, <1>5, <1>6, <1>7, <1>8, <1>9, <1>10 DEF IInv, TypeOK

LEMMA ForceAbandonKeeps ==
  ASSUME IInv, ForceAbandon
  PROVE  IInv'
  <1>1. ExecutionTypes'
    BY DEF IInv, TypeOK, ExecutionTypes, ForceAbandon
  <1>2. StoppingTypes'
    BY MaxGenerationsAssumption DEF IInv, TypeOK, StoppingTypes, ForceAbandon, NotStopping
  <1>3. Lifecycle'
    BY DEF IInv, TypeOK, HistoryTypes, ForceAbandon, Lifecycle, IsDone,
           StoppingTracksAbort, historyVars
  <1>4. OwedIsStopping'
    BY DEF IInv, TypeOK, ExecutionTypes, ForceAbandon, OwedIsStopping, IsDone,
           historyVars
  <1>5. StoppingTracksAbort'
    BY DEF IInv, ForceAbandon, StoppingTracksAbort, IsStopping, NotStopping
  <1>6. Resources'
    BY DEF IInv, TypeOK, HistoryTypes, ForceAbandon, Resources,
           ResumeFindsSession, IsDone, StoppingTracksAbort, historyVars
  <1>7. SessionsExclusive'
    BY DEF IInv, ForceAbandon, SessionsExclusive, ExecutionsDisjoint,
           ExecutionOver, StoppingTracksAbort, IsDone, historyVars
  <1>8. SettledIsOver'
    BY DEF IInv, ForceAbandon, SettledIsOver, NotStopping, Generations
  <1>9. HistoryTypes' /\ SteerTypes' /\ SteerChain' /\ ReceiptsClosed'
    BY DEF IInv, TypeOK, HistoryTypes, SteerTypes, SteerChain, ReceiptsClosed,
           ForceAbandon, historyVars, steerVars
  <1>10. QED
    BY <1>1, <1>2, <1>3, <1>4, <1>5, <1>6, <1>7, <1>8, <1>9 DEF IInv, TypeOK

LEMMA SteerSubagentKeeps ==
  ASSUME IInv, NEW s \in Steers, SteerSubagent(s)
  PROVE  IInv'
  <1>1. SteerTypes'
    <2>1. steerTail' \in Seq(Steers)
      BY AppendProperties DEF IInv, TypeOK, SteerTypes, SteerSubagent
    <2>2. steer' \in [Steers -> SteerStates]
      BY DEF IInv, TypeOK, SteerTypes, SteerStates, SteerSubagent
    <2>3. steerGen' \in [Steers -> 0..MaxGenerations]
      BY MaxGenerationsAssumption
      DEF IInv, TypeOK, SteerTypes, HistoryTypes, Generations, SteerSubagent
    <2>4. UNCHANGED <<consumedBy, sessionQueue>>
      BY DEF SteerSubagent
    <2>5. QED
      BY <2>1, <2>2, <2>3, <2>4 DEF IInv, TypeOK, SteerTypes
  <1>2. SteerChain'
    <2>1. steerTail # <<>> => steerTail' # <<>> /\ Head(steerTail') = Head(steerTail)
      BY HeadTailAppend, AppendProperties DEF IInv, TypeOK, SteerTypes, SteerSubagent
    <2>2. ASSUME NEW r \in Steers, steer'[r] \in {"sending", "sent"}
          PROVE  steerTail' # <<>> /\ Head(steerTail') = r
      <3>1. steer[r] \in {"sending", "sent"}
        BY <2>2 DEF IInv, TypeOK, SteerTypes, SteerSubagent
      <3>2. QED
        BY <2>1, <3>1 DEF IInv, SteerChain
    <2>3. ASSUME NEW r \in Steers, steer'[r] # "idle" PROVE steerGen'[r] \in 1..latest'
      BY <2>3, MaxGenerationsAssumption
      DEF IInv, TypeOK, SteerTypes, HistoryTypes, Generations, SteerChain, SteerSubagent, historyVars
    <2>4. QED
      BY <2>2, <2>3 DEF SteerChain
  <1>3. ReceiptsClosed'
    BY DEF IInv, SteerSubagent, ReceiptsClosed, historyVars
  <1>4. /\ HistoryTypes' /\ ExecutionTypes' /\ StoppingTypes' /\ Lifecycle'
        /\ OwedIsStopping' /\ StoppingTracksAbort' /\ Resources'
        /\ SessionsExclusive' /\ SettledIsOver'
    BY DEF IInv, TypeOK, HistoryTypes, ExecutionTypes, StoppingTypes,
           Lifecycle, OwedIsStopping, StoppingTracksAbort, Resources,
           SessionsExclusive, SettledIsOver, SteerSubagent, IsDone,
           IsStopping, ResumeFindsSession, ExecutionsDisjoint, ExecutionOver,
           historyVars, execVars, stopVars, resourceVars
  <1>5. QED
    BY <1>1, <1>2, <1>3, <1>4 DEF IInv, TypeOK

LEMMA StartSteerKeeps ==
  ASSUME IInv, NEW s \in Steers, StartSteer(s)
  PROVE  IInv'
  <1>1. SteerTypes'
    <2>1. steerTail # <<>> => Tail(steerTail) \in Seq(Steers)
      BY HeadTailProperties DEF IInv, TypeOK, SteerTypes
    <2>2. steerTail' \in Seq(Steers)
      BY <2>1 DEF IInv, TypeOK, SteerTypes, SteerChain, StartSteer, IsHead
    <2>3. steer' \in [Steers -> SteerStates]
      BY DEF IInv, TypeOK, SteerTypes, SteerStates, StartSteer
    <2>4. UNCHANGED <<steerGen, consumedBy>> /\ sessionQueue' \in SUBSET Steers
      BY DEF IInv, TypeOK, SteerTypes, StartSteer
    <2>5. QED
      BY <2>2, <2>3, <2>4 DEF IInv, TypeOK, SteerTypes
  <1>2. SteerChain'
    BY MaxGenerationsAssumption, PaneBackedAssumption
    DEF IInv, TypeOK, HistoryTypes, SteerTypes, StartSteer, IsHead,
        SteerChain, Outcomes, historyVars, execVars, stopVars, resourceVars,
        steerVars
  <1>3. ReceiptsClosed'
    BY DEF IInv, TypeOK, SteerTypes, StartSteer, IsHead, ReceiptsClosed,
           historyVars
  <1>4. /\ HistoryTypes' /\ ExecutionTypes' /\ StoppingTypes' /\ Lifecycle'
        /\ OwedIsStopping' /\ StoppingTracksAbort' /\ Resources'
        /\ SessionsExclusive' /\ SettledIsOver'
    BY DEF IInv, TypeOK, HistoryTypes, ExecutionTypes, StoppingTypes,
           Lifecycle, OwedIsStopping, StoppingTracksAbort, Resources,
           SessionsExclusive, SettledIsOver, StartSteer, IsHead, IsDone,
           IsStopping, ResumeFindsSession, ExecutionsDisjoint, ExecutionOver,
           historyVars, execVars, stopVars, resourceVars
  <1>5. QED
    BY <1>1, <1>2, <1>3, <1>4 DEF IInv, TypeOK

LEMMA SendSteerKeeps ==
  ASSUME IInv, NEW s \in Steers, SendSteer(s)
  PROVE  IInv'
  <1>1. SteerTypes'
    BY DEF IInv, TypeOK, SteerTypes, SendSteer, SteerStates
  <1>2. SteerChain'
    BY DEF IInv, SendSteer, SteerChain, historyVars
  <1>3. ReceiptsClosed'
    BY DEF IInv, SendSteer, ReceiptsClosed, historyVars
  <1>4. /\ HistoryTypes' /\ ExecutionTypes' /\ StoppingTypes' /\ Lifecycle'
        /\ OwedIsStopping' /\ StoppingTracksAbort' /\ Resources'
        /\ SessionsExclusive' /\ SettledIsOver'
    BY DEF IInv, TypeOK, HistoryTypes, ExecutionTypes, StoppingTypes,
           Lifecycle, OwedIsStopping, StoppingTracksAbort, Resources,
           SessionsExclusive, SettledIsOver, SendSteer, IsDone, IsStopping,
           ResumeFindsSession, ExecutionsDisjoint, ExecutionOver, historyVars,
           execVars, stopVars, resourceVars
  <1>5. QED
    BY <1>1, <1>2, <1>3, <1>4 DEF IInv, TypeOK

LEMMA SendFailsKeeps ==
  ASSUME IInv, NEW s \in Steers, SendFails(s)
  PROVE  IInv'
  <1>1. SteerTypes'
    <2>1. steerTail # <<>> => Tail(steerTail) \in Seq(Steers)
      BY HeadTailProperties DEF IInv, TypeOK, SteerTypes
    <2>2. steerTail' \in Seq(Steers)
      BY <2>1 DEF IInv, TypeOK, SteerTypes, SteerChain, SendFails
    <2>3. steer' \in [Steers -> SteerStates]
      BY DEF IInv, TypeOK, SteerTypes, SteerStates, SendFails
    <2>4. UNCHANGED <<steerGen, consumedBy>> /\ sessionQueue' \in SUBSET Steers
      BY DEF IInv, TypeOK, SteerTypes, SendFails
    <2>5. QED
      BY <2>2, <2>3, <2>4 DEF IInv, TypeOK, SteerTypes
  <1>2. SteerChain'
    BY DEF IInv, TypeOK, SteerTypes, SendFails, SteerChain, historyVars
  <1>3. ReceiptsClosed'
    BY DEF IInv, SendFails, ReceiptsClosed, historyVars
  <1>4. /\ HistoryTypes' /\ ExecutionTypes' /\ StoppingTypes' /\ Lifecycle'
        /\ OwedIsStopping' /\ StoppingTracksAbort' /\ Resources'
        /\ SessionsExclusive' /\ SettledIsOver'
    BY DEF IInv, TypeOK, HistoryTypes, ExecutionTypes, StoppingTypes,
           Lifecycle, OwedIsStopping, StoppingTracksAbort, Resources,
           SessionsExclusive, SettledIsOver, SendFails, IsDone, IsStopping,
           ResumeFindsSession, ExecutionsDisjoint, ExecutionOver, historyVars,
           execVars, stopVars, resourceVars
  <1>5. QED
    BY <1>1, <1>2, <1>3, <1>4 DEF IInv, TypeOK

LEMMA AcceptSteerKeeps ==
  ASSUME IInv, NEW s \in Steers, AcceptSteer(s)
  PROVE  IInv'
  <1>1. SteerTypes'
    <2>1. steerTail # <<>> => Tail(steerTail) \in Seq(Steers)
      BY HeadTailProperties DEF IInv, TypeOK, SteerTypes
    <2>2. steerTail' \in Seq(Steers)
      BY <2>1 DEF IInv, TypeOK, SteerTypes, SteerChain, AcceptSteer
    <2>3. steer' \in [Steers -> SteerStates]
      BY DEF IInv, TypeOK, SteerTypes, SteerStates, AcceptSteer
    <2>4. UNCHANGED <<steerGen, consumedBy>> /\ sessionQueue' \in SUBSET Steers
      BY DEF IInv, TypeOK, SteerTypes, AcceptSteer
    <2>5. QED
      BY <2>2, <2>3, <2>4 DEF IInv, TypeOK, SteerTypes
  <1>2. SteerChain'
    BY DEF IInv, TypeOK, SteerTypes, AcceptSteer, SteerChain, historyVars
  <1>3. ReceiptsClosed'
    BY DEF IInv, AcceptSteer, ReceiptsClosed, historyVars
  <1>4. /\ HistoryTypes' /\ ExecutionTypes' /\ StoppingTypes' /\ Lifecycle'
        /\ OwedIsStopping' /\ StoppingTracksAbort' /\ Resources'
        /\ SessionsExclusive' /\ SettledIsOver'
    BY DEF IInv, TypeOK, HistoryTypes, ExecutionTypes, StoppingTypes,
           Lifecycle, OwedIsStopping, StoppingTracksAbort, Resources,
           SessionsExclusive, SettledIsOver, AcceptSteer, IsDone, IsStopping,
           ResumeFindsSession, ExecutionsDisjoint, ExecutionOver, historyVars,
           execVars, stopVars, resourceVars
  <1>5. QED
    BY <1>1, <1>2, <1>3, <1>4 DEF IInv, TypeOK

LEMMA ConsumeSteerKeeps ==
  ASSUME IInv, NEW s \in Steers, ConsumeSteer(s)
  PROVE  IInv'
  <1>1. SteerTypes'
    <2>1. steer' \in [Steers -> SteerStates]
      BY DEF IInv, TypeOK, SteerTypes, SteerStates, ConsumeSteer
    <2>2. consumedBy' \in [Steers -> 0..MaxGenerations]
      BY MaxGenerationsAssumption
      DEF IInv, TypeOK, SteerTypes, HistoryTypes, Generations, ConsumeSteer
    <2>3. UNCHANGED <<steerTail, steerGen>> /\ sessionQueue' \in SUBSET Steers
      BY DEF IInv, TypeOK, SteerTypes, ConsumeSteer
    <2>4. QED
      BY <2>1, <2>2, <2>3 DEF IInv, TypeOK, SteerTypes
  <1>2. SteerChain'
    BY DEF IInv, ConsumeSteer, SteerChain, historyVars
  <1>3. ReceiptsClosed'
    BY DEF IInv, ConsumeSteer, ReceiptsClosed, historyVars
  <1>4. /\ HistoryTypes' /\ ExecutionTypes' /\ StoppingTypes' /\ Lifecycle'
        /\ OwedIsStopping' /\ StoppingTracksAbort' /\ Resources'
        /\ SessionsExclusive' /\ SettledIsOver'
    BY DEF IInv, TypeOK, HistoryTypes, ExecutionTypes, StoppingTypes,
           Lifecycle, OwedIsStopping, StoppingTracksAbort, Resources,
           SessionsExclusive, SettledIsOver, ConsumeSteer, IsDone, IsStopping,
           ResumeFindsSession, ExecutionsDisjoint, ExecutionOver, historyVars,
           execVars, stopVars, resourceVars
  <1>5. QED
    BY <1>1, <1>2, <1>3, <1>4 DEF IInv, TypeOK

LEMMA ProcessSteersKeeps ==
  ASSUME IInv, ProcessSteers
  PROVE  IInv'
  <1>1. SteerTypes'
    BY DEF IInv, TypeOK, SteerTypes, ProcessSteers, SteerStates
  <1>2. SteerChain'
    BY DEF IInv, ProcessSteers, SteerChain, historyVars
  <1>3. ReceiptsClosed'
    BY DEF IInv, ProcessSteers, ReceiptsClosed, historyVars
  <1>4. /\ HistoryTypes' /\ ExecutionTypes' /\ StoppingTypes' /\ Lifecycle'
        /\ OwedIsStopping' /\ StoppingTracksAbort' /\ Resources'
        /\ SessionsExclusive' /\ SettledIsOver'
    BY DEF IInv, TypeOK, HistoryTypes, ExecutionTypes, StoppingTypes,
           Lifecycle, OwedIsStopping, StoppingTracksAbort, Resources,
           SessionsExclusive, SettledIsOver, ProcessSteers, IsDone,
           IsStopping, ResumeFindsSession, ExecutionsDisjoint, ExecutionOver,
           historyVars, execVars, stopVars, resourceVars
  <1>5. QED
    BY <1>1, <1>2, <1>3, <1>4 DEF IInv, TypeOK

-----------------------------------------------------------------------------
(* The invariant holds initially, and every step keeps it.                 *)

LEMMA InitIInv == Init => IInv
  <1> SUFFICES ASSUME Init PROVE IInv
    OBVIOUS
  <1> USE MaxGenerationsAssumption DEF Init, Generations
  <1>1. TypeOK
    <2>1. HistoryTypes
      BY DEF HistoryTypes
    <2>2. ExecutionTypes
      BY DEF ExecutionTypes, ExecStages
    <2>3. StoppingTypes
      BY StoppingFields DEF StoppingTypes, StoppingRecords
    <2>4. SteerTypes
      BY EmptySeq DEF SteerTypes, SteerStates
    <2>5. QED
      BY <2>1, <2>2, <2>3, <2>4 DEF TypeOK
  <1>2. \A g \in Generations : ~IsDone(g)
    BY DEF IsDone, Outcomes
  <1>3. stopping.generation = 0
    BY DEF NotStopping
  <1>4. Lifecycle
    BY <1>2 DEF Lifecycle
  <1>5. OwedIsStopping /\ StoppingTracksAbort /\ SettledIsOver
    BY <1>2, <1>3 DEF OwedIsStopping, StoppingTracksAbort, IsStopping, SettledIsOver
  <1>6. SteerChain /\ ReceiptsClosed
    BY DEF SteerChain, ReceiptsClosed
  <1>7. Resources /\ SessionsExclusive
    BY <1>2 DEF Resources, ResumeFindsSession, SessionsExclusive, ExecutionsDisjoint
  <1>8. QED
    BY <1>1, <1>4, <1>5, <1>6, <1>7 DEF IInv

LEMMA StutterKeeps == ASSUME IInv, UNCHANGED vars PROVE IInv'
  <1> USE DEF vars, historyVars, execVars, stopVars, resourceVars, steerVars
  <1>1. TypeOK'
    BY DEF IInv, TypeOK, HistoryTypes, ExecutionTypes, StoppingTypes, SteerTypes
  <1>2. Lifecycle' /\ OwedIsStopping' /\ StoppingTracksAbort' /\ SettledIsOver'
    BY DEF IInv, Lifecycle, OwedIsStopping, StoppingTracksAbort, IsStopping, IsDone, SettledIsOver
  <1>3. SteerChain' /\ ReceiptsClosed' /\ Resources' /\ SessionsExclusive'
    BY DEF IInv, SteerChain, ReceiptsClosed, Resources, ResumeFindsSession, SessionsExclusive,
           ExecutionsDisjoint, ExecutionOver, IsDone
  <1>4. QED
    BY <1>1, <1>2, <1>3 DEF IInv

LEMMA StepKeeps == IInv /\ [Next]_vars => IInv'
  <1> SUFFICES ASSUME IInv, [Next]_vars PROVE IInv'
    OBVIOUS
  <1>1. ASSUME NEW g \in Generations, ExecutionStep(g) PROVE IInv'
    BY <1>1, StartTaskKeeps, SkipSettledKeeps, FailToStartKeeps, LaunchKeeps, ReuseKeeps,
       LaunchFailsKeeps, BindKeeps, ObserveCompletionKeeps, ExecutorEndsKeeps DEF ExecutionStep
  <1>2. ASSUME NEW g \in Generations, AbortStep(g) PROVE IInv'
    BY <1>2, AbortDrainedKeeps, AbortSettledKeeps DEF AbortStep
  <1>3. ASSUME NEW o \in Observers, JoinStep(o) PROVE IInv'
    BY <1>3, BindGenerationKeeps, CollectKeeps, InterruptJoinKeeps DEF JoinStep
  <1>4. ASSUME NEW s \in Steers, SteerStep(s) PROVE IInv'
    BY <1>4, SteerSubagentKeeps, StartSteerKeeps, SendSteerKeeps, SendFailsKeeps,
       AcceptSteerKeeps, ConsumeSteerKeeps DEF SteerStep
  <1>5. CASE Resume \/ Cancel \/ ForceAbandon \/ ProcessSteers
    BY <1>5, ResumeKeeps, CancelKeeps, ForceAbandonKeeps, ProcessSteersKeeps
  <1>6. CASE UNCHANGED vars
    BY <1>6, StutterKeeps
  <1>7. QED
    BY <1>1, <1>2, <1>3, <1>4, <1>5, <1>6 DEF Next

(* The invariant that is inductive, from which the others follow. *)
THEOREM Invariance == Spec => []IInv
  <1>1. QED
    BY InitIInv, StepKeeps, PTL DEF Spec

(* Every variable keeps its type. *)
THEOREM TypeCorrect == Spec => []TypeOK
  <1>1. IInv => TypeOK
    BY DEF IInv
  <1>2. QED
    BY <1>1, Invariance, PTL

(* No generation starts while an older execution is owed an end, neither   *)
(* in a session nor in a pane.                                             *)
THEOREM OlderExecutionsSettled == Spec => []OneExecutionOwed
  <1>1. IInv => OneExecutionOwed
    BY DEF IInv, Lifecycle, OneExecutionOwed
  <1>2. QED
    BY <1>1, Invariance, PTL

(* A resumed generation finds the session or the session file it continues. *)
THEOREM ResumedHasSession == Spec => []ResumeFindsSession
  <1>1. IInv => ResumeFindsSession
    BY DEF IInv, Resources
  <1>2. QED
    BY <1>1, Invariance, PTL

(* No receipt stays open when its generation is done. *)
THEOREM ReceiptsSettled == Spec => []ReceiptsClosed
  <1>1. IInv => ReceiptsClosed
    BY DEF IInv
  <1>2. QED
    BY <1>1, Invariance, PTL

(* `stopping' is about the latest generation, and waits for nothing that   *)
(* has happened.                                                           *)
THEOREM StoppingAccurate == Spec => []StoppingTracksAbort
  <1>1. IInv => StoppingTracksAbort
    BY DEF IInv
  <1>2. QED
    BY <1>1, Invariance, PTL

(* In the session executor nothing of an older generation is still at work *)
(* when the next one exists: this is what panes lose.                      *)
THEOREM SessionExecutionsDisjoint == ASSUME ~PaneBacked PROVE Spec => []ExecutionsDisjoint
  <1>1. IInv => ExecutionsDisjoint
    BY DEF IInv, SessionsExclusive
  <1>2. QED
    BY <1>1, Invariance, PTL

-----------------------------------------------------------------------------
(* What was steered into a generation that was aborted.                    *)

InSession(s) == s \in sessionQueue \/ steer[s] \in {"sending", "sent"}

(* Only the session has a queue; a steer that was not called is not in it. *)
QueueOfSession ==
  /\ PaneBacked => sessionQueue = {}
  /\ \A s \in Steers : steer[s] = "idle" => s \notin sessionQueue /\ consumedBy[s] = 0

(* A message that was taken out belongs to a generation that exists, and   *)
(* one that is sent or queued to one that was running.                     *)
SentWhileRunning ==
  \A s \in Steers :
    /\ consumedBy[s] <= latest
    /\ InSession(s) => status[steerGen[s]] # "queued"

(* An abort that has still to clear the queue is that of the latest        *)
(* generation, and until it does so there is no resume: the conversation   *)
(* is stopping, or lost its session.                                       *)
DrainingHolds ==
  \A g \in Generations : abortStep[g] = "draining" =>
    g = latest /\ ~PaneBacked /\ (stopping.generation = g \/ ~session)

(* What is left of an aborted generation is cleared by its abort, which    *)
(* awaits what is being sent.                                              *)
LeftoversDrained ==
  ~PaneBacked => \A s \in Steers :
    InSession(s) /\ status[steerGen[s]] = "aborted" =>
      /\ abortStep[steerGen[s]] = "draining"
      /\ steer[s] \in {"sending", "sent"} => s \in abortTail[steerGen[s]]

SteersInv ==
  QueueOfSession /\ SentWhileRunning /\ DrainingHolds /\ LeftoversDrained /\ AbortDropsSteers

LEMMA SteersInit == Init => SteersInv
  <1> SUFFICES ASSUME Init PROVE SteersInv
    OBVIOUS
  <1>1. QueueOfSession /\ DrainingHolds /\ LeftoversDrained /\ AbortDropsSteers
    BY DEF Init, QueueOfSession, DrainingHolds, LeftoversDrained, AbortDropsSteers, InSession
  <1>2. SentWhileRunning
    BY DEF Init, SentWhileRunning, InSession
  <1> QED BY <1>1, <1>2 DEF SteersInv

(* What a steer that was called is about. *)
LEMMA SteerFacts ==
  ASSUME IInv
  PROVE  /\ latest \in Generations /\ Generations \subseteq Nat
         /\ \A s \in Steers : steer[s] # "idle" => (steerGen[s] \in Generations /\ steerGen[s] <= latest)
         /\ \A s \in Steers : consumedBy[s] \in Nat /\ steerGen[s] \in Nat
         /\ \A g \in Generations : abortStep[g] # "none" => IsDone(g)
         /\ \A g \in Generations : g < latest => IsDone(g)
BY MaxGenerationsAssumption
   DEF IInv, TypeOK, HistoryTypes, SteerTypes, SteerChain, Lifecycle, Generations

(* The message that is being sent is at the head of the chain. *)
LEMMA HeadIsChained ==
  ASSUME IInv, NEW s \in Steers, steer[s] \in {"sending", "sent"}
  PROVE  s \in Range(steerTail)
  <1>1. steerTail \in Seq(Steers) /\ steerTail # <<>> /\ Head(steerTail) = s
    BY DEF IInv, TypeOK, SteerTypes, SteerChain
  <1>2. 1 \in DOMAIN steerTail /\ steerTail[1] = s
    BY <1>1
  <1> QED BY <1>2 DEF Range

(* Steps that neither send, take out, steer nor abort: outcomes other than *)
(* "aborted", receipts that are closed, and a session only for a           *)
(* generation that is not done.                                            *)
LEMMA OtherStepKeeps ==
  ASSUME IInv, SteersInv,
         UNCHANGED <<latest, sessionQueue, consumedBy, steerGen, abortTail>>,
         \A s \in Steers : \/ steer'[s] = steer[s]
           \/ (steer[s] \in {"queued", "delivered"} /\ steer'[s] \in {"discarded", "processed"}),
         \A g \in Generations :
           /\ status'[g] = "aborted" => status[g] = "aborted"
           /\ status'[g] = "queued" => status[g] = "queued"
           /\ abortStep'[g] = "draining" <=> abortStep[g] = "draining"
           /\ (abortStep[g] = "draining" /\ stopping.generation = g) =>
                (stopping'.generation = g \/ ~session'),
         session' => session \/ ~IsDone(latest)
  PROVE  SteersInv'
  <1> USE SteerFacts
  <1>1. \A s \in Steers :
          /\ steer'[s] = "idle" <=> steer[s] = "idle"
          /\ steer'[s] \in {"sending", "sent"} <=> steer[s] \in {"sending", "sent"}
          /\ InSession(s)' <=> InSession(s)
          /\ InSession(s) => steer[s] # "idle"
    BY DEF InSession, SteersInv, QueueOfSession
  <1>2. QueueOfSession'
    BY <1>1 DEF SteersInv, QueueOfSession
  <1>3. SentWhileRunning'
    BY <1>1 DEF SteersInv, SentWhileRunning
  <1>4. DrainingHolds'
    BY DEF SteersInv, DrainingHolds
  <1>5. LeftoversDrained'
    BY <1>1 DEF SteersInv, LeftoversDrained
  <1>6. AbortDropsSteers'
    BY DEF SteersInv, AbortDropsSteers, QueueOfSession
  <1> QED BY <1>2, <1>3, <1>4, <1>5, <1>6 DEF SteersInv

(* this.settle with an outcome other than "aborted". *)
LEMMA SettleFacts ==
  ASSUME IInv, NEW g \in Generations, NEW outcome \in Outcomes \ {"aborted"}, Settle(g, outcome)
  PROVE  /\ \A s \in Steers : \/ steer'[s] = steer[s]
              \/ (steer[s] \in {"queued", "delivered"} /\ steer'[s] \in {"discarded", "processed"})
         /\ \A h \in Generations :
              /\ status'[h] = "aborted" => status[h] = "aborted"
              /\ status'[h] = "queued" => status[h] = "queued"
  <1>1. CASE g = latest /\ ~IsDone(g)
    BY <1>1 DEF Settle, IInv, TypeOK, HistoryTypes, Outcomes
  <1>2. CASE ~(g = latest /\ ~IsDone(g))
    BY <1>2 DEF Settle
  <1> QED BY <1>1, <1>2

LEMMA ExecutionKeepsSteers ==
  ASSUME IInv, SteersInv, NEW g \in Generations, ExecutionStep(g)
  PROVE  SteersInv'
  <1> USE DEF historyVars, execVars, stopVars, resourceVars, steerVars
  <1>t. status \in [Generations -> {"absent", "queued", "running"} \cup Outcomes]
    BY DEF IInv, TypeOK, HistoryTypes
  <1>1. CASE StartTask(g) \/ SkipSettled(g) \/ Launch(g)
    BY <1>1, OtherStepKeeps DEF StartTask, SkipSettled, Launch
  <1>2. CASE FailToStart(g)
    BY <1>2, SettleFacts, OtherStepKeeps DEF FailToStart, Outcomes
  <1>3. ASSUME NEW bound \in BOOLEAN, LaunchFails(g, bound) PROVE SteersInv'
    BY <1>3, SettleFacts, OtherStepKeeps DEF LaunchFails, Outcomes
  <1>4. ASSUME NEW outcome \in {"completed", "error", "interrupted"}, ExecutorEnds(g, outcome)
        PROVE  SteersInv'
    BY <1>4, SettleFacts, OtherStepKeeps DEF ExecutorEnds, Outcomes
  <1>5. CASE Reuse(g)
    BY <1>5, <1>t, OtherStepKeeps DEF Reuse
  <1>6. CASE Bind(g)
    BY <1>6, <1>t, OtherStepKeeps DEF Bind
  <1>7. CASE ObserveCompletion(g)
    <2>1. ASSUME NEW h \in Generations, abortStep[h] = "draining", stopping.generation = h
          PROVE  stopping'.generation = h
      <3>1. h = latest /\ stopping.abortSettled = FALSE
        BY <2>1 DEF IInv, StoppingTracksAbort, IsStopping, TypeOK, StoppingTypes, Generations
      <3>2. stopping \in StoppingRecords
        BY DEF IInv, TypeOK, StoppingTypes, StoppingRecords
      <3> QED BY <1>7, <2>1, <3>1, <3>2, StoppingFields DEF ObserveCompletion, FinishStopping
    <2> QED BY <1>7, <2>1, OtherStepKeeps DEF ObserveCompletion
  <1> QED BY <1>1, <1>2, <1>3, <1>4, <1>5, <1>6, <1>7 DEF ExecutionStep

LEMMA AbortKeepsSteers ==
  ASSUME IInv, SteersInv, NEW g \in Generations, AbortStep(g)
  PROVE  SteersInv'
  <1> USE SteerFacts DEF historyVars, execVars, resourceVars, steerVars
  <1>t. abortStep \in [Generations -> {"none", "draining", "waiting", "control", "over"}]
    BY DEF IInv, TypeOK, StoppingTypes
  <1>1. CASE AbortSettled(g)
    <2>1. ASSUME NEW h \in Generations, abortStep[h] = "draining", stopping.generation = h
          PROVE  stopping'.generation = h
      <3>1. h # g
        BY <1>1, <2>1 DEF AbortSettled
      <3> QED BY <1>1, <2>1, <3>1 DEF AbortSettled
    <2>2. \A h \in Generations : abortStep'[h] = "draining" <=> abortStep[h] = "draining"
      BY <1>1, <1>t DEF AbortSettled
    <2> QED BY <1>1, <2>1, <2>2, OtherStepKeeps DEF AbortSettled
  <1>2. CASE AbortDrained(g) /\ abortStep[g] = "waiting"
    <2>1. \A h \in Generations : abortStep'[h] = "draining" <=> abortStep[h] = "draining"
      BY <1>2, <1>t DEF AbortDrained
    <2> QED BY <1>2, <2>1, OtherStepKeeps DEF AbortDrained
  <1>3. CASE AbortDrained(g) /\ abortStep[g] = "draining"
    <2>1. /\ sessionQueue' = {} /\ abortStep' = [abortStep EXCEPT ![g] = "control"]
          /\ abortTail[g] \cap Range(steerTail) = {}
          /\ UNCHANGED <<historyVars, stopping, abortTail, session, steerGen, steer, consumedBy>>
      BY <1>3 DEF AbortDrained
    <2>2. QueueOfSession' /\ SentWhileRunning' /\ AbortDropsSteers' /\ DrainingHolds'
      BY <1>t, <2>1 DEF SteersInv, QueueOfSession, SentWhileRunning, InSession,
                        AbortDropsSteers, DrainingHolds
    <2>3. ASSUME NEW s \in Steers, InSession(s)', status[steerGen[s]] = "aborted", ~PaneBacked
          PROVE  FALSE
      <3>1. steer[s] \in {"sending", "sent"} /\ steerGen[s] \in Generations
        BY <2>1, <2>3 DEF InSession
      <3>2. abortStep[steerGen[s]] = "draining" /\ s \in abortTail[steerGen[s]]
        BY <2>3, <3>1 DEF SteersInv, LeftoversDrained, InSession
      <3>3. steerGen[s] = g
        BY <1>3, <3>1, <3>2 DEF SteersInv, DrainingHolds
      <3>4. s \in Range(steerTail)
        BY <3>1, HeadIsChained
      <3> QED BY <2>1, <3>2, <3>3, <3>4
    <2>4. LeftoversDrained'
      BY <2>1, <2>3 DEF LeftoversDrained
    <2> QED BY <2>2, <2>4 DEF SteersInv
  <1> QED BY <1>1, <1>2, <1>3 DEF AbortStep, AbortDrained

LEMMA CancelKeepsSteers ==
  ASSUME IInv, SteersInv, Cancel
  PROVE  SteersInv'
  <1> USE SteerFacts
  <1>t. /\ abortStep \in [Generations -> {"none", "draining", "waiting", "control", "over"}]
        /\ abortTail \in [Generations -> SUBSET Steers]
        /\ status \in [Generations -> {"absent", "queued", "running"} \cup Outcomes]
        /\ steerTail \in Seq(Steers)
    BY DEF IInv, TypeOK, HistoryTypes, StoppingTypes, SteerTypes
  <1>1. /\ ~IsDone(latest) /\ stopping'.generation = latest
        /\ status' = [status EXCEPT ![latest] = "aborted"]
        /\ UNCHANGED <<latest, session, steerGen, consumedBy>>
        /\ sessionQueue' = IF status[latest] = "running" THEN {} ELSE sessionQueue
        /\ abortTail'[latest] = Range(steerTail)
        /\ abortStep' = [abortStep EXCEPT ![latest] =
             IF status[latest] = "running" /\ ~PaneBacked THEN "draining" ELSE "waiting"]
    BY <1>t DEF Cancel, Settle, NotStopping, resourceVars
  <1>2. \A s \in Steers : \/ steer'[s] = steer[s]
          \/ (steer[s] \in {"queued", "delivered"} /\ steer'[s] \in {"discarded", "processed"})
    BY <1>1 DEF Cancel, Settle
  <1>3. \A s \in Steers : (steer'[s] = "idle" <=> steer[s] = "idle")
          /\ (InSession(s)' => (InSession(s) /\ steer[s] # "idle"))
    BY <1>1, <1>2 DEF InSession, SteersInv, QueueOfSession
  <1>4. QueueOfSession'
    BY <1>1, <1>3 DEF SteersInv, QueueOfSession
  <1>5. SentWhileRunning'
    BY <1>1, <1>3, <1>t DEF SteersInv, SentWhileRunning
  <1>6. \A h \in Generations : abortStep[h] # "draining"
    BY <1>1 DEF SteersInv, DrainingHolds
  <1>7. DrainingHolds'
    BY <1>1, <1>6, <1>t DEF DrainingHolds
  <1>8. ASSUME NEW s \in Steers, InSession(s)', status'[steerGen[s]] = "aborted", ~PaneBacked
        PROVE  /\ abortStep'[steerGen[s]] = "draining"
               /\ steer'[s] \in {"sending", "sent"} => s \in abortTail'[steerGen[s]]
    <2>1. steerGen[s] \in Generations /\ InSession(s) /\ status[steerGen[s]] # "queued"
      BY <1>3, <1>8 DEF SteersInv, SentWhileRunning
    <2>2. steerGen[s] = latest
      BY <1>1, <1>6, <1>8, <1>t, <2>1 DEF SteersInv, LeftoversDrained
    <2>3. status[latest] = "running"
      BY <1>1, <1>t, <2>1, <2>2 DEF IsDone, IInv, TypeOK, HistoryTypes, Generations
    <2>4. steer'[s] \in {"sending", "sent"} => s \in Range(steerTail)
      BY <1>2, HeadIsChained
    <2> QED BY <1>1, <1>t, <1>8, <2>2, <2>3, <2>4
  <1>9. LeftoversDrained'
    BY <1>1, <1>8 DEF LeftoversDrained
  <1>10. AbortDropsSteers'
    BY <1>1, <1>t DEF SteersInv, SentWhileRunning, AbortDropsSteers
  <1> QED BY <1>4, <1>5, <1>7, <1>9, <1>10 DEF SteersInv

LEMMA ResumeKeepsSteers ==
  ASSUME IInv, SteersInv, Resume
  PROVE  SteersInv'
  <1> USE SteerFacts
  <1>t. status \in [Generations -> {"absent", "queued", "running"} \cup Outcomes]
    BY DEF IInv, TypeOK, HistoryTypes
  <1>1. /\ stopping.generation = 0 /\ (session \/ sessionFile) /\ latest' = latest + 1
        /\ latest < MaxGenerations
        /\ status' = [status EXCEPT ![latest + 1] = "queued"]
        /\ UNCHANGED <<stopping, abortStep, abortTail, session, steerGen, steer,
                       sessionQueue, consumedBy>>
    BY DEF Resume, IsResumeAllowed, IsStopping, stopVars, resourceVars, steerVars
  <1>2. latest + 1 \in Generations /\ latest + 1 # 0
    BY <1>1, MaxGenerationsAssumption DEF Generations
  <1>3. \A h \in Generations : abortStep[h] # "draining"
    BY <1>1 DEF SteersInv, DrainingHolds, IInv, Resources, Generations
  <1>4. \A s \in Steers : InSession(s) => steer[s] # "idle"
    BY DEF InSession, SteersInv, QueueOfSession
  <1>5. QueueOfSession' /\ DrainingHolds'
    BY <1>1, <1>3 DEF SteersInv, QueueOfSession, DrainingHolds
  <1>6. SentWhileRunning'
    BY <1>1, <1>2, <1>4, <1>t DEF SteersInv, SentWhileRunning, InSession
  <1>7. LeftoversDrained'
    BY <1>1, <1>2, <1>4, <1>t DEF SteersInv, LeftoversDrained, InSession
  <1>8. AbortDropsSteers'
    <2> SUFFICES ASSUME NEW s \in Steers, consumedBy[s] > steerGen[s],
                        status'[steerGen[s]] = "aborted"
                 PROVE  FALSE
      BY <1>1 DEF AbortDropsSteers
    <2>1. steerGen[s] # latest + 1 /\ status[steerGen[s]] # "aborted"
      BY DEF SteersInv, SentWhileRunning, AbortDropsSteers
    <2> QED BY <1>1, <1>2, <1>t, <2>1
  <1> QED BY <1>5, <1>6, <1>7, <1>8 DEF SteersInv

LEMMA SteerKeepsSteers ==
  ASSUME IInv, SteersInv, NEW s \in Steers, SteerStep(s)
  PROVE  SteersInv'
  <1> USE SteerFacts DEF historyVars, execVars, stopVars, resourceVars
  <1>t. /\ steer \in [Steers -> SteerStates] /\ steerGen \in [Steers -> 0..MaxGenerations]
        /\ consumedBy \in [Steers -> 0..MaxGenerations]
        /\ status \in [Generations -> {"absent", "queued", "running"} \cup Outcomes]
    BY DEF IInv, TypeOK, HistoryTypes, SteerTypes
  <1>d. DrainingHolds'
    BY DEF SteersInv, DrainingHolds, SteerStep, SteerSubagent, StartSteer, SendSteer, SendFails,
           AcceptSteer, ConsumeSteer
  <1>1. CASE SteerSubagent(s)
    <2>1. \A u \in Steers : InSession(u)' <=> (InSession(u) /\ u # s)
      BY <1>1, <1>t DEF SteerSubagent, InSession, SteersInv, QueueOfSession
    <2>2. QueueOfSession' /\ SentWhileRunning' /\ LeftoversDrained'
      BY <1>1, <1>t, <2>1
      DEF SteerSubagent, SteersInv, QueueOfSession, SentWhileRunning, LeftoversDrained
    <2>3. AbortDropsSteers'
      BY <1>1, <1>t DEF SteerSubagent, SteersInv, QueueOfSession, AbortDropsSteers
    <2> QED BY <1>d, <2>2, <2>3 DEF SteersInv
  <1>2. CASE StartSteer(s)
    <2>1. /\ UNCHANGED <<latest, status, abortStep, abortTail, steerGen, sessionQueue, consumedBy>>
          /\ \A u \in Steers \ {s} : steer'[u] = steer[u]
          /\ steer[s] = "chained"
          /\ \/ steer'[s] = "rejected"
             \/ steer'[s] = "sending" /\ status[steerGen[s]] = "running"
      BY <1>2, <1>t DEF StartSteer
    <2>2. \A u \in Steers : InSession(u)' => (InSession(u) \/ status[steerGen[u]] = "running")
      BY <2>1 DEF InSession
    <2>3. QueueOfSession' /\ SentWhileRunning' /\ LeftoversDrained' /\ AbortDropsSteers'
      BY <2>1, <2>2 DEF SteersInv, QueueOfSession, SentWhileRunning, LeftoversDrained,
                        AbortDropsSteers
    <2> QED BY <1>d, <2>3 DEF SteersInv
  <1>3. CASE SendSteer(s) \/ SendFails(s) \/ AcceptSteer(s)
    <2>1. /\ UNCHANGED <<latest, status, abortStep, abortTail, steerGen, consumedBy>>
          /\ \A u \in Steers \ {s} : steer'[u] = steer[u]
          /\ steer[s] \in {"sending", "sent"} /\ steer'[s] # "idle" /\ steer'[s] # "sending"
          /\ sessionQueue' \in {{}, sessionQueue, sessionQueue \cup {s}}
          /\ PaneBacked => sessionQueue' \subseteq sessionQueue
      BY <1>3, <1>t DEF SendSteer, SendFails, AcceptSteer
    <2>2. \A u \in Steers : InSession(u)' => InSession(u)
      BY <2>1 DEF InSession
    <2>3. \A u \in Steers : steer'[u] \in {"sending", "sent"} => steer[u] \in {"sending", "sent"}
      BY <2>1
    <2>4. QueueOfSession'
      BY <2>1 DEF SteersInv, QueueOfSession
    <2>5. SentWhileRunning' /\ LeftoversDrained' /\ AbortDropsSteers'
      BY <2>1, <2>2, <2>3 DEF SteersInv, SentWhileRunning, LeftoversDrained, AbortDropsSteers
    <2> QED BY <1>d, <2>4, <2>5 DEF SteersInv
  <1>4. CASE ConsumeSteer(s)
    <2>1. /\ s \in sessionQueue /\ status[latest] = "running"
          /\ sessionQueue' = sessionQueue \ {s} /\ consumedBy' = [consumedBy EXCEPT ![s] = latest]
          /\ UNCHANGED <<latest, status, abortStep, abortTail, steerGen, session, stopping>>
          /\ \A u \in Steers : \/ steer'[u] = steer[u]
                             \/ (steer[u] = "queued" /\ steer'[u] = "delivered")
      BY <1>4, <1>t DEF ConsumeSteer
    <2>2. \A u \in Steers : (InSession(u)' => InSession(u)) /\ (steer'[u] = "idle" <=> steer[u] = "idle")
            /\ (steer'[u] \in {"sending", "sent"} <=> steer[u] \in {"sending", "sent"})
      BY <2>1 DEF InSession
    <2>3. steer[s] # "idle" /\ InSession(s) /\ ~PaneBacked
      BY <2>1 DEF SteersInv, QueueOfSession, InSession
    <2>4. QueueOfSession' /\ SentWhileRunning' /\ LeftoversDrained'
      BY <1>t, <2>1, <2>2, <2>3
      DEF SteersInv, QueueOfSession, SentWhileRunning, LeftoversDrained
    <2>5. status[steerGen[s]] # "aborted"
      <3> SUFFICES ASSUME status[steerGen[s]] = "aborted" PROVE FALSE
        OBVIOUS
      <3>1. steerGen[s] \in Generations /\ abortStep[steerGen[s]] = "draining"
        BY <2>3 DEF SteersInv, LeftoversDrained
      <3>2. steerGen[s] = latest
        BY <3>1 DEF SteersInv, DrainingHolds
      <3> QED BY <2>1, <3>2
    <2>6. AbortDropsSteers'
      BY <1>t, <2>1, <2>5 DEF SteersInv, AbortDropsSteers
    <2> QED BY <1>d, <2>4, <2>6 DEF SteersInv
  <1> QED BY <1>1, <1>2, <1>3, <1>4 DEF SteerStep

LEMMA SteersKept ==
  ASSUME IInv, SteersInv, [Next]_vars
  PROVE  SteersInv'
  <1> USE DEF historyVars, execVars, stopVars, resourceVars, steerVars
  <1>1. ASSUME NEW o \in Observers, JoinStep(o) PROVE SteersInv'
    BY <1>1, OtherStepKeeps DEF JoinStep, BindGeneration, Collect, InterruptJoin
  <1>2. CASE ForceAbandon
    BY <1>2, OtherStepKeeps DEF ForceAbandon
  <1>3. CASE ProcessSteers
    BY <1>3, OtherStepKeeps DEF ProcessSteers
  <1>4. CASE UNCHANGED vars
    BY <1>4, OtherStepKeeps DEF vars
  <1> QED
    BY <1>1, <1>2, <1>3, <1>4, ExecutionKeepsSteers, AbortKeepsSteers, SteerKeepsSteers,
       ResumeKeepsSteers, CancelKeepsSteers DEF Next

(* However a steer, an abort and a resume interleave: what was steered     *)
(* into a generation that was aborted is never taken out of the session's  *)
(* queue by a later one.                                                   *)
THEOREM AbortedSteersDropped == Spec => []AbortDropsSteers
  <1>1. SteersInv => AbortDropsSteers
    BY DEF SteersInv
  <1> QED BY <1>1, SteersInit, SteersKept, Invariance, PTL DEF Spec

-----------------------------------------------------------------------------
(* The conversation implements the append-only history of generations.     *)

HistoryStep == [History!Next]_(History!historyVars)

LEMMA SettleInHistory ==
  ASSUME IInv, NEW g \in Generations, NEW outcome \in Outcomes, Settle(g, outcome),
         UNCHANGED <<latest, joined, observes>>
  PROVE  HistoryStep
  <1>1. CASE g = latest /\ ~IsDone(g)
    <2>1. status[latest] \in {"queued", "running"}
      BY <1>1 DEF IInv, TypeOK, HistoryTypes, IsDone, Generations
    <2>2. History!End(outcome)
      BY <1>1, <2>1 DEF Settle, History!End
    <2>3. QED
      BY <2>2 DEF HistoryStep, History!Next
  <1>2. CASE ~(g = latest /\ ~IsDone(g))
    BY <1>2 DEF Settle, HistoryStep, History!historyVars
  <1>3. QED
    BY <1>1, <1>2

(* Who has an execution that did not begin its work is queued. *)
LEMMA RunInHistory ==
  ASSUME IInv, NEW g \in Generations, ~IsDone(g), exec[g] \in {"started", "launching"},
         status' = [status EXCEPT ![g] = "running"], UNCHANGED <<latest, joined, observes>>
  PROVE  HistoryStep
  <1>1. g = latest
    BY DEF IInv, TypeOK, HistoryTypes, Lifecycle, Generations
  <1>2. status[latest] = "queued"
    BY <1>1 DEF IInv, TypeOK, HistoryTypes, Lifecycle, IsDone, Generations
  <1>3. History!Run
    BY <1>1, <1>2 DEF History!Run
  <1>4. QED
    BY <1>3 DEF HistoryStep, History!Next

LEMMA ExecutionInHistory ==
  ASSUME IInv, NEW g \in Generations, ExecutionStep(g) PROVE HistoryStep
  <1>1. CASE StartTask(g) \/ SkipSettled(g) \/ Launch(g) \/ ObserveCompletion(g)
    BY <1>1 DEF StartTask, SkipSettled, Launch, ObserveCompletion, historyVars,
                HistoryStep, History!historyVars
  <1>2. CASE FailToStart(g)
    BY <1>2, SettleInHistory DEF FailToStart, Outcomes
  <1>3. ASSUME NEW bound \in BOOLEAN, LaunchFails(g, bound) PROVE HistoryStep
    BY <1>3, SettleInHistory DEF LaunchFails, Outcomes
  <1>4. ASSUME NEW outcome \in {"completed", "error", "interrupted"}, ExecutorEnds(g, outcome)
        PROVE  HistoryStep
    BY <1>4, SettleInHistory DEF ExecutorEnds, Outcomes
  <1>5. CASE Reuse(g)
    BY <1>5, RunInHistory DEF Reuse
  <1>6. CASE Bind(g)
    <2>1. CASE g = latest /\ ~IsDone(g)
      BY <1>6, <2>1, RunInHistory DEF Bind
    <2>2. CASE ~(g = latest /\ ~IsDone(g))
      BY <1>6, <2>2 DEF Bind, HistoryStep, History!historyVars
    <2>3. QED
      BY <2>1, <2>2
  <1>7. QED
    BY <1>1, <1>2, <1>3, <1>4, <1>5, <1>6 DEF ExecutionStep

LEMMA JoinInHistory == ASSUME IInv, NEW o \in Observers, JoinStep(o) PROVE HistoryStep
  <1>1. CASE BindGeneration(o)
    <2>1. History!Observe(o)
      BY <1>1 DEF BindGeneration, History!Observe
    <2>2. QED
      BY <2>1 DEF HistoryStep, History!Next
  <1>2. CASE Collect(o) \/ InterruptJoin(o)
    <2>1. History!Leave(o)
      BY <1>2 DEF Collect, InterruptJoin, IsDone, History!Leave
    <2>2. QED
      BY <2>1 DEF HistoryStep, History!Next
  <1>3. QED
    BY <1>1, <1>2 DEF JoinStep

LEMMA NextInHistory == IInv /\ [Next]_vars => HistoryStep
  <1> SUFFICES ASSUME IInv, [Next]_vars PROVE HistoryStep
    OBVIOUS
  <1>1. ASSUME NEW g \in Generations, ExecutionStep(g) PROVE HistoryStep
    BY <1>1, ExecutionInHistory
  <1>2. ASSUME NEW o \in Observers, JoinStep(o) PROVE HistoryStep
    BY <1>2, JoinInHistory
  <1>3. ASSUME NEW g \in Generations, AbortStep(g) PROVE HistoryStep
    BY <1>3 DEF AbortStep, AbortDrained, AbortSettled, historyVars, HistoryStep, History!historyVars
  <1>4. ASSUME NEW s \in Steers, SteerStep(s) PROVE HistoryStep
    BY <1>4 DEF SteerStep, SteerSubagent, StartSteer, SendSteer, SendFails, AcceptSteer,
                ConsumeSteer, historyVars, HistoryStep, History!historyVars
  <1>5. CASE Resume
    <2>1. History!Append
      BY <1>5 DEF Resume, IsResumeAllowed, Outcomes, History!Append
    <2>2. QED
      BY <2>1 DEF HistoryStep, History!Next
  <1>6. CASE Cancel
    <2>1. latest \in Generations
      BY DEF IInv, TypeOK, HistoryTypes
    <2>2. QED
      BY <1>6, <2>1, SettleInHistory DEF Cancel, Outcomes
  <1>7. CASE ForceAbandon \/ ProcessSteers \/ UNCHANGED vars
    BY <1>7 DEF ForceAbandon, ProcessSteers, vars, historyVars, HistoryStep, History!historyVars
  <1>8. QED
    BY <1>1, <1>2, <1>3, <1>4, <1>5, <1>6, <1>7 DEF Next

(* Whoever holds a generation sees an append-only history with final       *)
(* outcomes, whatever executions, aborts and steers do meanwhile.          *)
THEOREM ConversationImplementsHistory == Spec => ImplementsHistory
  <1>1. Init => History!Init
    BY DEF Init, History!Init, Generations
  <1>2. IInv /\ [Next]_vars => [History!Next]_(History!historyVars)
    BY NextInHistory DEF HistoryStep
  <1>3. QED
    BY <1>1, <1>2, Invariance, PTL DEF Spec, ImplementsHistory, History!Spec

-----------------------------------------------------------------------------

(* A step of the panes is one of the conversation, or changes nothing      *)
(* there.                                                                  *)
LEMMA PaneStepIsConversationStep == [PaneNext]_allVars => [Next]_vars
  <1> SUFFICES ASSUME [PaneNext]_allVars PROVE [Next]_vars
    OBVIOUS
  <1>1. CASE ConversationStep
    BY <1>1 DEF ConversationStep, Next, ExecutionStep
  <1>2. ASSUME NEW g \in Generations, PaneStep(g) PROVE [Next]_vars
    <2>1. CASE LaunchPane(g) \/ LaunchPaneFails(g) \/ BindPane(g) \/ BindPaneFails(g)
      BY <2>1 DEF LaunchPane, LaunchPaneFails, BindPane, BindPaneFails, Next, ExecutionStep
    <2>2. CASE ClearCompletion(g) \/ CreateSurface(g) \/ TakeCompletion(g)
               \/ ChildFinishes(g) \/ ChildExits(g)
      BY <2>2 DEF ClearCompletion, CreateSurface, TakeCompletion, ChildFinishes, ChildExits
    <2>3. CASE SettlePane(g) \/ PollFails(g)
      BY <2>3 DEF SettlePane, PollFails, Next, ExecutionStep
    <2>4. QED
      BY <1>2, <2>1, <2>2, <2>3 DEF PaneStep
  <1>3. ASSUME NEW v \in Viewers, ViewerStep(v) PROVE [Next]_vars
    BY <1>3 DEF ViewerStep, OpenConversationPane, CheckRetainedPane, CreateViewer,
                ViewerFails, RetainViewer
  <1>4. ASSUME NEW p \in Surfaces, PaneVanishes(p) PROVE [Next]_vars
    BY <1>4 DEF PaneVanishes
  <1>5. CASE CancelPane
    BY <1>5 DEF CancelPane, Next
  <1>6. CASE UNCHANGED allVars
    BY <1>6 DEF allVars
  <1>7. QED
    BY <1>1, <1>2, <1>3, <1>4, <1>5, <1>6 DEF PaneNext

(* The conversation of the panes is one of Conversation: whatever holds of *)
(* every behaviour of its steps holds here.                                *)
THEOREM PanesImplementConversation == PaneSpec => Init /\ [][Next]_vars
  <1>1. PaneInit => Init
    BY DEF PaneInit
  <1>2. QED
    BY <1>1, PaneStepIsConversationStep, PTL DEF PaneSpec

LEMMA ConversationInvariance == PaneSpec => []IInv
  BY PanesImplementConversation, InitIInv, StepKeeps, PTL

-----------------------------------------------------------------------------
(* The types.                                                              *)

LEMMA ClosedType ==
  ASSUME PaneTypeOK, NEW P
  PROVE  Closed(P) \in [Surfaces -> {"none", "open", "closed"}]
  BY DEF PaneTypeOK, Closed

LEMMA WithoutType ==
  ASSUME NEW P, NEW c \in [Generations -> {"none", "working", "ending", "exited", "gone"}]
  PROVE  Without(P, c) \in [Generations -> {"none", "working", "ending", "exited", "gone"}]
  BY DEF Without

LEMMA PaneTypeInit == PaneInit => PaneTypeOK
  BY DEF PaneInit, PaneTypeOK, Surfaces, Nothing

LEMMA PaneStepTyped ==
  ASSUME IInv, PaneTypeOK, NEW g \in Generations, PaneStep(g)
  PROVE  PaneTypeOK'
  <1> USE DEF PaneTypeOK
  <1>g. g \in Surfaces
    BY DEF Surfaces
  <1>1. CASE LaunchPane(g)
    BY <1>1 DEF LaunchPane, worldVars
  <1>2. CASE ClearCompletion(g)
    BY <1>2 DEF ClearCompletion
  <1>3. CASE CreateSurface(g)
    BY <1>3, <1>g DEF CreateSurface
  <1>4. CASE LaunchPaneFails(g)
    BY <1>4, ClosedType, WithoutType DEF LaunchPaneFails, Close
  <1>5. CASE BindPane(g)
    <2>1. [child EXCEPT ![g] = "working"]
            \in [Generations -> {"none", "working", "ending", "exited", "gone"}]
      OBVIOUS
    <2>2. QED
      BY <1>5, <1>g, <2>1, ClosedType, WithoutType DEF BindPane, Retain
  <1>12. CASE BindPaneFails(g)
    <2>1. [child EXCEPT ![g] = "working"]
            \in [Generations -> {"none", "working", "ending", "exited", "gone"}]
      OBVIOUS
    <2>2. QED
      BY <1>12, <1>g, <2>1, ClosedType, WithoutType DEF BindPaneFails, Retain
  <1>6. CASE TakeCompletion(g)
    BY <1>6 DEF TakeCompletion, Completions, launchVars, worldVars
  <1>7. CASE SettlePane(g)
    BY <1>7, ClosedType, WithoutType DEF SettlePane, Close, Unretain, launchVars
  <1>8. CASE PollFails(g)
    BY <1>8, ClosedType, WithoutType DEF PollFails, Close, Unretain, launchVars
  <1>9. CASE ChildFinishes(g)
    BY <1>9 DEF ChildFinishes, Completions, launchVars
  <1>10. CASE ChildExits(g)
    BY <1>10 DEF ChildExits, Completions, launchVars
  <1>11. QED
    BY <1>1, <1>2, <1>3, <1>4, <1>5, <1>6, <1>7, <1>8, <1>9, <1>10, <1>12 DEF PaneStep

LEMMA ViewerStepTyped ==
  ASSUME PaneTypeOK, NEW v \in Viewers, ViewerStep(v)
  PROVE  PaneTypeOK'
  <1> USE DEF PaneTypeOK
  <1>v. v \in Surfaces
    BY DEF Surfaces
  <1>1. CASE OpenConversationPane(v)
    BY <1>1 DEF OpenConversationPane, worldVars
  <1>2. CASE CheckRetainedPane(v)
    BY <1>2, ClosedType, WithoutType DEF CheckRetainedPane, Close, Unretain
  <1>3. CASE CreateViewer(v)
    BY <1>3, <1>v DEF CreateViewer
  <1>4. CASE ViewerFails(v)
    BY <1>4, ClosedType, WithoutType DEF ViewerFails, Close
  <1>5. CASE RetainViewer(v)
    BY <1>5, <1>v, ClosedType, WithoutType DEF RetainViewer, Retain
  <1>6. QED
    BY <1>1, <1>2, <1>3, <1>4, <1>5 DEF ViewerStep

LEMMA PaneNextTyped == IInv /\ PaneTypeOK /\ [PaneNext]_allVars => PaneTypeOK'
  <1> SUFFICES ASSUME IInv, PaneTypeOK, [PaneNext]_allVars PROVE PaneTypeOK'
    OBVIOUS
  <1>1. CASE ConversationStep \/ UNCHANGED allVars
    BY <1>1 DEF ConversationStep, PaneTypeOK, allVars, paneVars, launchVars, worldVars
  <1>2. ASSUME NEW p \in Surfaces, PaneVanishes(p) PROVE PaneTypeOK'
    BY <1>2, ClosedType, WithoutType DEF PaneVanishes, PaneTypeOK, Close, launchVars
  <1>3. CASE CancelPane
    <2>1. latest \in Generations
      BY DEF IInv, TypeOK, HistoryTypes
    <2>2. QED
      BY <1>3, <2>1 DEF CancelPane, PaneTypeOK, Completions, launchVars
  <1>4. QED
    BY <1>1, <1>2, <1>3, PaneStepTyped, ViewerStepTyped DEF PaneNext

(* Panes, launches, sidecar and retained surface keep their types.         *)
THEOREM PaneTypeCorrect == PaneSpec => []PaneTypeOK
  BY ConversationInvariance, PaneTypeInit, PaneNextTyped, PTL DEF PaneSpec

-----------------------------------------------------------------------------
(* Who owns a pane.  An executor that is at work on a generation that is   *)
(* done was overtaken by a cancel, and only a launch is at a stage of one. *)
OvertakenByCancel ==
  \A g \in Generations :
    exec[g] \in {"launching", "executing"} /\ IsDone(g) => status[g] = "aborted"

LaunchStages == \A g \in Generations : launch[g] # "idle" => exec[g] = "launching"

PaneInv == PaneTypeOK /\ OvertakenByCancel /\ LaunchStages /\ PanesOwned

LEMMA NotAViewer == \A g \in Generations : g \in Surfaces /\ g \notin Viewers
  BY ViewersAssumption DEF Surfaces

LEMMA ConversationStepOwned ==
  ASSUME IInv, PaneInv, ConversationStep
  PROVE  OvertakenByCancel' /\ LaunchStages' /\ PanesOwned'
  <1> USE DEF PaneInv, OvertakenByCancel, LaunchStages, PanesOwned, paneVars, launchVars,
              worldVars, IsDone
  <1>t. exec \in [Generations -> ExecStages] /\ latest \in Generations
        /\ status \in [Generations -> {"absent", "queued", "running"} \cup Outcomes]
    BY DEF IInv, TypeOK, HistoryTypes, ExecutionTypes
  <1>p. UNCHANGED <<launch, view, pane, retained>>
    BY DEF ConversationStep
  <1>1. ASSUME NEW g \in Generations, StartTask(g)
        PROVE  OvertakenByCancel' /\ LaunchStages' /\ PanesOwned'
    BY <1>1, <1>p, <1>t DEF StartTask, historyVars
  <1>2. ASSUME NEW g \in Generations, SkipSettled(g)
        PROVE  OvertakenByCancel' /\ LaunchStages' /\ PanesOwned'
    BY <1>2, <1>p, <1>t DEF SkipSettled, Return, historyVars
  <1>3. ASSUME NEW g \in Generations, FailToStart(g)
        PROVE  OvertakenByCancel' /\ LaunchStages' /\ PanesOwned'
    <2>1. /\ exec' = [exec EXCEPT ![g] = "returned"] /\ exec[g] = "started"
          /\ status' = [status EXCEPT ![g] = "error"] \/ status' = status
      BY <1>3 DEF FailToStart, Settle, Return
    <2>2. status[g] # "aborted"
      BY <1>3 DEF FailToStart, Outcomes
    <2>3. QED
      BY <2>1, <2>2, <1>p, <1>t
  <1>4. ASSUME NEW g \in Generations, ObserveCompletion(g) \/ AbortStep(g)
        PROVE  OvertakenByCancel' /\ LaunchStages' /\ PanesOwned'
    BY <1>4, <1>p DEF ObserveCompletion, AbortStep, AbortDrained, AbortSettled, historyVars, execVars
  <1>5. ASSUME NEW o \in Observers, JoinStep(o)
        PROVE  OvertakenByCancel' /\ LaunchStages' /\ PanesOwned'
    BY <1>5, <1>p DEF JoinStep, BindGeneration, Collect, InterruptJoin, execVars
  <1>6. CASE Resume
    <2>1. /\ status' = [status EXCEPT ![latest + 1] = "queued"]
          /\ exec' = [exec EXCEPT ![latest + 1] = "pending"]
          /\ latest + 1 \in Generations
      BY <1>6, <1>t, MaxGenerationsAssumption DEF Resume, Generations
    <2>2. status[latest + 1] = "absent" /\ exec[latest + 1] = "absent"
      BY <2>1, <1>t DEF IInv, TypeOK, HistoryTypes, Lifecycle, Generations
    <2>3. QED
      BY <2>1, <2>2, <1>p, <1>t DEF Outcomes
  <1>7. CASE ForceAbandon
    BY <1>7, <1>p DEF ForceAbandon, historyVars
  <1>8. QED
    BY <1>1, <1>2, <1>3, <1>4, <1>5, <1>6, <1>7 DEF ConversationStep

LEMMA CancelPaneOwned ==
  ASSUME IInv, PaneInv, CancelPane
  PROVE  OvertakenByCancel' /\ LaunchStages' /\ PanesOwned'
  <1> USE DEF PaneInv, OvertakenByCancel, LaunchStages, PanesOwned, launchVars, IsDone
  <1>t. exec \in [Generations -> ExecStages] /\ latest \in Generations
        /\ status \in [Generations -> {"absent", "queued", "running"} \cup Outcomes]
    BY DEF IInv, TypeOK, HistoryTypes, ExecutionTypes
  <1>1. /\ status' = [status EXCEPT ![latest] = "aborted"]
        /\ \/ exec' = exec
           \/ exec[latest] = "pending" /\ exec' = [exec EXCEPT ![latest] = "dropped"]
    BY DEF CancelPane, Cancel, Settle, execVars
  <1>2. status[latest] # "aborted"
    BY DEF CancelPane, Cancel, Outcomes
  <1>3. UNCHANGED <<launch, view, pane, retained>>
    BY DEF CancelPane
  <1>4. QED
    BY <1>1, <1>2, <1>3, <1>t

(* The end of an executor: its pane is closed, and only its generation     *)
(* settles.                                                                *)
LEMMA EndOwned ==
  ASSUME IInv, PaneInv, NEW g \in Generations, NEW outcome \in Outcomes,
         exec[g] \in {"launching", "executing"},
         Settle(g, outcome), Return(g),
         launch'[g] = "idle", \A h \in Generations \ {g} : launch'[h] = launch[h],
         Close({g}), UNCHANGED view,
         retained' = retained \/ (retained = g /\ retained' = 0)
  PROVE  OvertakenByCancel' /\ LaunchStages' /\ PanesOwned'
  <1> USE DEF PaneInv, OvertakenByCancel, LaunchStages, IsDone
  <1>t. exec \in [Generations -> ExecStages]
        /\ status \in [Generations -> {"absent", "queued", "running"} \cup Outcomes]
    BY DEF IInv, TypeOK, HistoryTypes, ExecutionTypes
  <1>1. /\ exec' = [exec EXCEPT ![g] = "returned"]
        /\ status' = [status EXCEPT ![g] = outcome] \/ status' = status
    BY DEF Settle, Return
  <1>2. OvertakenByCancel' /\ LaunchStages'
    BY <1>1, <1>t
  <1>3. \A p \in Surfaces : pane'[p] = "open" => p # g /\ pane[p] = "open"
    BY DEF Close, Closed
  <1>4. PanesOwned'
    BY <1>1, <1>3, <1>t, NotAViewer DEF PanesOwned
  <1>5. QED
    BY <1>2, <1>4

LEMMA BindPaneOwned ==
  ASSUME IInv, PaneInv, NEW g \in Generations, BindPane(g)
  PROVE  OvertakenByCancel' /\ LaunchStages' /\ PanesOwned'
  <1> USE DEF PaneInv, OvertakenByCancel, LaunchStages, IsDone
  <1>t. /\ exec \in [Generations -> ExecStages] /\ latest \in Generations
        /\ status \in [Generations -> {"absent", "queued", "running"} \cup Outcomes]
        /\ launch \in [Generations -> {"idle", "paths", "mux", "sleep"}]
    BY DEF IInv, TypeOK, HistoryTypes, ExecutionTypes, PaneTypeOK
  <1>1. /\ launch' = [launch EXCEPT ![g] = "idle"] /\ exec[g] = "launching"
        /\ retained' = g /\ UNCHANGED view
        /\ \A p \in Surfaces : pane'[p] = "open" => pane[p] = "open" /\ p # retained
    BY DEF BindPane, Bind, Retain, Closed
  <1>2. CASE g = latest /\ ~IsDone(g)
    <2>1. exec' = [exec EXCEPT ![g] = "executing"] /\ status' = [status EXCEPT ![g] = "running"]
      BY <1>2 DEF BindPane, Bind
    <2>2. QED
      BY <2>1, <1>1, <1>t, NotAViewer DEF PanesOwned, Outcomes
  <1>3. CASE ~(g = latest /\ ~IsDone(g))
    <2>1. exec' = [exec EXCEPT ![g] = "returned"] /\ status' = status
      BY <1>3 DEF BindPane, Bind, Return
    <2>2. g <= latest
      BY <1>1, <1>t DEF IInv, Lifecycle, Generations
    <2>3. IsDone(g)
      BY <1>3, <2>2, <1>t DEF IInv, Lifecycle, Generations
    <2>4. status[g] = "aborted"
      BY <2>3, <1>1
    <2>5. QED
      BY <2>1, <2>4, <1>1, <1>t, NotAViewer DEF PanesOwned
  <1>4. QED
    BY <1>2, <1>3

(* The pane of a generation whose lease could not be appended.             *)
LEMMA BindPaneFailsOwned ==
  ASSUME IInv, PaneInv, NEW g \in Generations, BindPaneFails(g)
  PROVE  OvertakenByCancel' /\ LaunchStages' /\ PanesOwned'
  <1> USE DEF PaneInv, OvertakenByCancel, LaunchStages, IsDone
  <1>t. /\ exec \in [Generations -> ExecStages] /\ latest \in Generations
        /\ status \in [Generations -> {"absent", "queued", "running"} \cup Outcomes]
        /\ launch \in [Generations -> {"idle", "paths", "mux", "sleep"}]
    BY DEF IInv, TypeOK, HistoryTypes, ExecutionTypes, PaneTypeOK
  <1>1. /\ launch' = [launch EXCEPT ![g] = "idle"] /\ exec[g] = "launching"
        /\ exec' = [exec EXCEPT ![g] = "returned"]
        /\ status' = [status EXCEPT ![g] = "error"]
        /\ retained' = g /\ UNCHANGED view
    BY DEF BindPaneFails, LaunchFails, Settle, Return, Retain
  <1>2. \A p \in Surfaces : pane'[p] = "open" => pane[p] = "open" /\ p # retained
    BY DEF BindPaneFails, Retain, Closed
  <1>3. QED
    BY <1>1, <1>2, <1>t, NotAViewer DEF PanesOwned, Outcomes

LEMMA PaneStepOwned ==
  ASSUME IInv, PaneInv, NEW g \in Generations, PaneStep(g)
  PROVE  OvertakenByCancel' /\ LaunchStages' /\ PanesOwned'
  <1>t. /\ exec \in [Generations -> ExecStages]
        /\ launch \in [Generations -> {"idle", "paths", "mux", "sleep"}]
        /\ pane \in [Surfaces -> {"none", "open", "closed"}]
    BY DEF PaneInv, IInv, TypeOK, ExecutionTypes, PaneTypeOK
  <1>o. "error" \in Outcomes /\ "completed" \in Outcomes
    BY DEF Outcomes
  <1>1. CASE LaunchPane(g)
    BY <1>1, <1>t, NotAViewer
       DEF LaunchPane, Launch, PaneInv, OvertakenByCancel, LaunchStages, PanesOwned, IsDone,
           historyVars, worldVars
  <1>2. CASE ClearCompletion(g) \/ CreateSurface(g)
    BY <1>2, <1>t, NotAViewer
       DEF ClearCompletion, CreateSurface, PaneInv, OvertakenByCancel, LaunchStages, PanesOwned,
           IsDone, vars, historyVars, execVars, worldVars
  <1>3. CASE LaunchPaneFails(g)
    BY <1>3, <1>t, <1>o, EndOwned DEF LaunchPaneFails, LaunchFails
  <1>4. CASE BindPane(g) \/ BindPaneFails(g)
    BY <1>4, BindPaneOwned, BindPaneFailsOwned
  <1>5. CASE TakeCompletion(g) \/ ChildFinishes(g) \/ ChildExits(g)
    BY <1>5 DEF TakeCompletion, ChildFinishes, ChildExits, PaneInv, OvertakenByCancel,
                LaunchStages, PanesOwned, IsDone, vars, historyVars, execVars, launchVars, worldVars
  <1>6. CASE SettlePane(g) \/ PollFails(g)
    <2>1. PICK outcome \in Outcomes : ExecutorEnds(g, outcome)
      BY <1>6, <1>o DEF SettlePane, PollFails
    <2>2. Settle(g, outcome) /\ Return(g) /\ exec[g] = "executing"
      BY <2>1 DEF ExecutorEnds
    <2>3. /\ Close({g}) /\ UNCHANGED <<view, launch>>
          /\ retained' = retained \/ (retained = g /\ retained' = 0)
      BY <1>6 DEF SettlePane, PollFails, Unretain, launchVars
    <2>4. launch[g] = "idle"
      BY <2>2 DEF PaneInv, LaunchStages
    <2>5. QED
      BY <2>2, <2>3, <2>4, EndOwned
  <1>7. QED
    BY <1>1, <1>2, <1>3, <1>4, <1>5, <1>6 DEF PaneStep

LEMMA ViewerStepOwned ==
  ASSUME PaneInv, NEW v \in Viewers, ViewerStep(v)
  PROVE  OvertakenByCancel' /\ LaunchStages' /\ PanesOwned'
  <1>v. v \in Surfaces /\ v \notin Generations
    BY ViewersAssumption DEF Surfaces
  <1>t. /\ view \in [Viewers -> {"idle", "checking", "opening", "sleep", "over"}]
        /\ pane \in [Surfaces -> {"none", "open", "closed"}]
    BY DEF PaneInv, PaneTypeOK
  <1>1. UNCHANGED <<exec, status, launch>>
    BY DEF ViewerStep, OpenConversationPane, CheckRetainedPane, CreateViewer, ViewerFails,
           RetainViewer, vars, historyVars, execVars
  <1>2. OvertakenByCancel' /\ LaunchStages'
    BY <1>1 DEF PaneInv, OvertakenByCancel, LaunchStages, IsDone
  <1>3. PanesOwned'
    <2> USE DEF PaneInv, PanesOwned
    <2>1. CASE OpenConversationPane(v)
      BY <2>1, <1>1, <1>t DEF OpenConversationPane, worldVars
    <2>2. CASE CheckRetainedPane(v)
      <3>1. /\ \A p \in Surfaces : pane'[p] = "open" => pane[p] = "open"
            /\ \A p \in Surfaces : retained = p /\ pane'[p] = "open" => retained' = p
        BY <2>2 DEF CheckRetainedPane, Close, Closed, Unretain
      <3>2. \A w \in Viewers : view[w] = "sleep" => view'[w] = "sleep"
        BY <2>2, <1>t DEF CheckRetainedPane
      <3>3. QED
        BY <3>1, <3>2, <1>1 DEF Surfaces
    <2>3. CASE CreateViewer(v)
      BY <2>3, <1>1, <1>v, <1>t DEF CreateViewer
    <2>4. CASE ViewerFails(v)
      BY <2>4, <1>1, <1>v, <1>t DEF ViewerFails, Close, Closed
    <2>5. CASE RetainViewer(v)
      BY <2>5, <1>1, <1>v, <1>t DEF RetainViewer, Retain, Closed
    <2>6. QED
      BY <2>1, <2>2, <2>3, <2>4, <2>5 DEF ViewerStep
  <1>4. QED
    BY <1>2, <1>3

LEMMA PaneInvKept == IInv /\ PaneInv /\ [PaneNext]_allVars => PaneInv'
  <1> SUFFICES ASSUME IInv, PaneInv, [PaneNext]_allVars PROVE PaneInv'
    OBVIOUS
  <1>1. PaneTypeOK'
    BY PaneNextTyped DEF PaneInv
  <1>2. OvertakenByCancel' /\ LaunchStages' /\ PanesOwned'
    <2>1. ASSUME NEW p \in Surfaces, PaneVanishes(p)
          PROVE  OvertakenByCancel' /\ LaunchStages' /\ PanesOwned'
      BY <2>1 DEF PaneVanishes, Close, Closed, PaneInv, OvertakenByCancel, LaunchStages,
                  PanesOwned, IsDone, vars, historyVars, execVars, launchVars
    <2>2. CASE UNCHANGED allVars
      BY <2>2 DEF allVars, PaneInv, OvertakenByCancel, LaunchStages, PanesOwned, IsDone, vars,
                  historyVars, execVars, paneVars, launchVars, worldVars
    <2>3. QED
      BY <2>1, <2>2, ConversationStepOwned, CancelPaneOwned, PaneStepOwned, ViewerStepOwned
         DEF PaneNext
  <1>3. QED
    BY <1>1, <1>2 DEF PaneInv

(* However launches, cancels, resumes, viewers and the user's hand follow  *)
(* each other, a pane that is open has an owner that will close it.        *)
THEOREM PanesHaveOwners == PaneSpec => []PanesOwned
  <1>1. PaneInit => PaneInv
    BY PaneTypeInit DEF PaneInit, Init, PaneInv, OvertakenByCancel, LaunchStages, PanesOwned
  <1>2. PaneInv => PanesOwned
    BY DEF PaneInv
  <1>3. QED
    BY <1>1, <1>2, ConversationInvariance, PaneInvKept, PTL DEF PaneSpec
-----------------------------------------------------------------------------
(* Whose completion a generation takes from the sidecar.  A child that is  *)
(* at work has its pane, and its executor unless that was overtaken; ...   *)
AtWork(g) == child[g] \in {"working", "ending"}

ChildrenAtWork ==
  \A g \in Generations :
    /\ AtWork(g) => pane[g] = "open" /\ (exec[g] = "executing" \/ status[g] \in {"aborted", "error"})
    /\ child[g] # "none" => g <= latest

(* ... only what came to an end without an error is continued, ...         *)
Continued == \A g \in Generations : g < latest => status[g] # "error"

(* ... so that a sidecar which the latest generation cleared is written by *)
(* its own child, unless one that was cancelled outlived its generation.   *)
CancelledBefore(g) == \E h \in Generations : h < g /\ status[h] = "aborted"

SidecarOwn ==
  (exec[latest] = "executing" \/ launch[latest] \in {"mux", "sleep"}) /\ sidecar # Nothing =>
    sidecar.by = latest \/ CancelledBefore(latest)

TakenOwn ==
  \A g \in Generations :
    taken[g] # Nothing => taken[g].by = g \/ status[g] = "aborted" \/ CancelledBefore(g)

ResultInv == ChildrenAtWork /\ Continued /\ SidecarOwn /\ TakenOwn

LEMMA AbortedStays ==
  ASSUME IInv, [PaneNext]_allVars
  PROVE  /\ \A g \in Generations : status[g] = "aborted" => status'[g] = "aborted"
         /\ \A g \in Generations : IsDone(g) => status'[g] = status[g]
  <1>1. HistoryStep
    BY PaneStepIsConversationStep, NextInHistory
  <1>t. /\ latest \in Generations
        /\ status \in [Generations -> {"absent", "queued", "running"} \cup Outcomes]
        /\ \A g \in Generations : g > latest => status[g] = "absent"
    BY DEF IInv, TypeOK, HistoryTypes
  <1>2. \A g \in Generations : IsDone(g) => status'[g] = status[g]
    <2>1. CASE UNCHANGED status
      BY <2>1
    <2>2. CASE History!Run \/ \E outcome \in Outcomes : History!End(outcome)
      BY <2>2, <1>t DEF History!Run, History!End, IsDone, Outcomes
    <2>3. CASE History!Append
      <3>1. /\ latest + 1 \in Generations /\ status[latest + 1] = "absent"
            /\ status' = [status EXCEPT ![latest + 1] = "queued"]
        BY <2>3, <1>t, MaxGenerationsAssumption DEF History!Append, Generations
      <3>2. QED
        BY <3>1, <1>t DEF IsDone, Outcomes
    <2>4. QED
      BY <1>1, <2>1, <2>2, <2>3
         DEF HistoryStep, History!Next, History!Observe, History!Leave, History!historyVars
  <1>3. QED
    BY <1>2 DEF IsDone, Outcomes

(* Who is at work on a generation that is not done: the latest one. *)
LEMMA UndoneIsLatest ==
  ASSUME IInv, NEW g \in Generations, exec[g] # "absent"
  PROVE  /\ g <= latest /\ (~IsDone(g) => g = latest)
  BY DEF IInv, TypeOK, HistoryTypes, Lifecycle, Generations

(* What a generation took, and the children and sidecar it leaves behind:  *)
(* the steps that start no child and write no completion.                  *)
LEMMA RestKeepsResults ==
  ASSUME IInv, PaneInv, ResultInv, [PaneNext]_allVars, UNCHANGED <<latest, taken>>,
         \A g \in Generations : AtWork(g)' =>
           /\ AtWork(g) /\ pane'[g] = "open"
           /\ exec[g] = "executing" => exec'[g] = "executing" \/ status'[g] \in {"aborted", "error"},
         \A g \in Generations : child'[g] # "none" => child[g] # "none",
         (exec'[latest] = "executing" \/ launch'[latest] \in {"mux", "sleep"}) /\ sidecar' # Nothing =>
           /\ exec[latest] = "executing" \/ launch[latest] \in {"mux", "sleep"}
           /\ sidecar' = sidecar
  PROVE  ResultInv'
  <1> USE DEF ResultInv
  <1>a. /\ \A g \in Generations : status[g] = "aborted" => status'[g] = "aborted"
        /\ \A g \in Generations : IsDone(g) => status'[g] = status[g]
    BY AbortedStays
  <1>b. \A g \in Generations : CancelledBefore(g) => CancelledBefore(g)'
    BY <1>a DEF CancelledBefore
  <1>c. latest \in Generations
    BY DEF IInv, TypeOK, HistoryTypes
  <1>d. \A g \in Generations : status[g] \in {"aborted", "error"} => IsDone(g)
    BY DEF IsDone, Outcomes
  <1>1. ChildrenAtWork'
    BY <1>a, <1>d DEF ChildrenAtWork
  <1>2. Continued'
    BY <1>a, <1>c DEF Continued, IInv, Lifecycle
  <1>3. SidecarOwn'
    BY <1>b, <1>c DEF SidecarOwn
  <1>4. TakenOwn'
    BY <1>a, <1>b DEF TakenOwn
  <1>5. QED
    BY <1>1, <1>2, <1>3, <1>4

(* Where a pane is closed its child is gone. *)
LEMMA ClosedChildren ==
  ASSUME ChildrenAtWork, NEW P, Close(P) \/ (P = {retained} /\ \E p : Retain(p, child))
  PROVE  \A g \in Generations :
           /\ AtWork(g)' => AtWork(g) /\ pane'[g] = "open" /\ g \notin P
           /\ child'[g] # "none" => child[g] # "none"
  <1>1. pane' = Closed(P) /\ child' = Without(P, child)
    BY DEF Close, Retain
  <1>2. \A g \in Generations : g \in Surfaces
    BY DEF Surfaces
  <1>3. QED
    BY <1>1, <1>2 DEF Closed, Without, AtWork, ChildrenAtWork

LEMMA ConversationStepResults ==
  ASSUME IInv, PaneInv, ResultInv, ConversationStep PROVE ResultInv'
  <1>t. /\ exec \in [Generations -> ExecStages] /\ latest \in Generations
        /\ status \in [Generations -> {"absent", "queued", "running"} \cup Outcomes]
    BY DEF IInv, TypeOK, HistoryTypes, ExecutionTypes
  <1>p. UNCHANGED <<launch, view, pane, retained, child, sidecar, taken>> /\ [PaneNext]_allVars
    BY DEF ConversationStep, paneVars, launchVars, worldVars, PaneNext
  <1>w. \A g \in Generations : AtWork(g)' => AtWork(g) /\ pane'[g] = "open"
    BY <1>p DEF ResultInv, ChildrenAtWork, AtWork
  <1>r. ASSUME UNCHANGED latest, \A g \in Generations : exec[g] = "executing" <=> exec'[g] = "executing"
        PROVE  ResultInv'
    BY <1>r, <1>p, <1>t, <1>w, RestKeepsResults
  <1>1. ASSUME NEW g \in Generations,
               StartTask(g) \/ SkipSettled(g) \/ FailToStart(g) \/ ObserveCompletion(g) \/ AbortStep(g)
        PROVE  ResultInv'
    <2>1. /\ UNCHANGED latest
          /\ \/ UNCHANGED exec
             \/ /\ exec[g] \in {"pending", "started"}
                /\ \E stage \in {"started", "returned"} : exec' = [exec EXCEPT ![g] = stage]
      BY <1>1 DEF StartTask, SkipSettled, FailToStart, ObserveCompletion, AbortStep, AbortDrained,
                  AbortSettled, Return, historyVars, execVars
    <2>2. QED
      BY <2>1, <1>r, <1>t
  <1>2. ASSUME NEW o \in Observers, JoinStep(o) PROVE ResultInv'
    BY <1>2, <1>r DEF JoinStep, BindGeneration, Collect, InterruptJoin, execVars
  <1>3. CASE ForceAbandon
    BY <1>3, <1>r DEF ForceAbandon, historyVars
  <1>4. CASE Resume
    <2>1. /\ latest' = latest + 1 /\ latest + 1 \in Generations
          /\ status' = [status EXCEPT ![latest + 1] = "queued"]
          /\ exec' = [exec EXCEPT ![latest + 1] = "pending"]
          /\ status[latest] # "error"
      BY <1>4, <1>t, MaxGenerationsAssumption DEF Resume, IsResumeAllowed, Generations
    <2>2. \A g \in Generations : g # latest + 1 => status'[g] = status[g] /\ exec'[g] = exec[g]
      BY <2>1, <1>t
    <2>3. /\ \A g \in Generations : CancelledBefore(g) => CancelledBefore(g)'
          /\ \A g \in Generations : status[g] = "aborted" => status'[g] = "aborted"
      BY <1>p, AbortedStays DEF CancelledBefore
    <2>4. ChildrenAtWork'
      <3>1. ~(latest + 1 <= latest) /\ \A g \in Generations : g <= latest => g <= latest + 1
        BY <1>t DEF Generations
      <3>2. QED
        BY <3>1, <2>1, <2>2, <1>p DEF ResultInv, ChildrenAtWork, AtWork
    <2>5. Continued'
      <3>1. \A g \in Generations : g < latest + 1 => g # latest + 1 /\ (g < latest \/ g = latest)
        BY <1>t DEF Generations
      <3>2. QED
        BY <3>1, <2>1, <2>2 DEF ResultInv, Continued
    <2>6. SidecarOwn'
      <3>1. exec'[latest + 1] = "pending"
        BY <2>1, <1>t
      <3>2. launch[latest + 1] = "idle"
        <4>1. exec[latest + 1] = "absent"
          BY <2>1, <1>t DEF IInv, Lifecycle, Generations
        <4>2. QED
          BY <2>1, <4>1 DEF PaneInv, LaunchStages
      <3>3. QED
        BY <3>1, <3>2, <2>1, <1>p DEF SidecarOwn
    <2>7. TakenOwn'
      BY <2>3, <1>p DEF ResultInv, TakenOwn
    <2>8. QED
      BY <2>4, <2>5, <2>6, <2>7 DEF ResultInv
  <1>5. QED
    BY <1>1, <1>2, <1>3, <1>4 DEF ConversationStep

LEMMA CancelPaneResults ==
  ASSUME IInv, PaneInv, ResultInv, CancelPane PROVE ResultInv'
  <1>t. /\ exec \in [Generations -> ExecStages] /\ latest \in Generations
    BY DEF IInv, TypeOK, HistoryTypes, ExecutionTypes
  <1>1. /\ UNCHANGED <<latest, launch, pane, child, taken>>
        /\ \A g \in Generations : exec[g] = "executing" <=> exec'[g] = "executing"
        /\ sidecar' = sidecar \/ sidecar' = [by |-> latest, kind |-> "interrupt"]
    <2>1. UNCHANGED <<latest, launch, pane, child, taken>>
      BY DEF CancelPane, Cancel, launchVars
    <2>2. exec' = exec \/ (exec[latest] = "pending" /\ exec' = [exec EXCEPT ![latest] = "dropped"])
      BY DEF CancelPane, Cancel, execVars
    <2>3. sidecar' = sidecar \/ sidecar' = [by |-> latest, kind |-> "interrupt"]
      BY DEF CancelPane
    <2>4. QED
      BY <2>1, <2>2, <2>3, <1>t
  <1>2. [PaneNext]_allVars
    BY DEF PaneNext
  <1>3. CASE sidecar' = sidecar
    BY <1>1, <1>2, <1>3, <1>t, RestKeepsResults DEF ResultInv, ChildrenAtWork, AtWork
  <1>4. CASE sidecar' = [by |-> latest, kind |-> "interrupt"]
    <2>1. SidecarOwn'
      BY <1>1, <1>4 DEF SidecarOwn
    <2>2. /\ \A g \in Generations : status[g] = "aborted" => status'[g] = "aborted"
          /\ \A g \in Generations : IsDone(g) => status'[g] = status[g]
      BY <1>2, AbortedStays
    <2>3. ChildrenAtWork'
      BY <1>1, <2>2 DEF ResultInv, ChildrenAtWork, AtWork, IsDone, Outcomes
    <2>4. Continued'
      BY <1>1, <2>2, <1>t DEF ResultInv, Continued, IInv, Lifecycle
    <2>5. TakenOwn'
      BY <1>1, <2>2 DEF ResultInv, TakenOwn, CancelledBefore
    <2>6. QED
      BY <2>1, <2>3, <2>4, <2>5 DEF ResultInv
  <1>5. QED
    BY <1>1, <1>3, <1>4
(* The end of an executor closes its pane, so that its child is gone. *)
LEMMA EndResults ==
  ASSUME IInv, PaneInv, ResultInv, [PaneNext]_allVars, NEW g \in Generations, NEW outcome,
         Settle(g, outcome), Return(g), Close({g}), UNCHANGED <<latest, sidecar, taken>>,
         \A h \in Generations \ {g} : launch'[h] = launch[h], launch'[g] = "idle"
  PROVE  ResultInv'
  <1>t. exec \in [Generations -> ExecStages] /\ latest \in Generations
    BY DEF IInv, TypeOK, HistoryTypes, ExecutionTypes
  <1>1. exec' = [exec EXCEPT ![g] = "returned"]
    BY DEF Return
  <1>2. \A h \in Generations :
           /\ AtWork(h)' => AtWork(h) /\ pane'[h] = "open" /\ h \notin {g}
           /\ child'[h] # "none" => child[h] # "none"
    BY ClosedChildren DEF ResultInv
  <1>3. \A h \in Generations \ {g} : exec'[h] = exec[h]
    BY <1>1, <1>t
  <1>4. exec'[g] = "returned"
    BY <1>1, <1>t
  <1>5. QED
    BY <1>2, <1>3, <1>4, <1>t, RestKeepsResults

(* The pane of g is up: its child goes to work, unless the surface was     *)
(* disposed of.                                                            *)
LEMMA BindPaneResults ==
  ASSUME IInv, PaneInv, ResultInv, NEW g \in Generations, BindPane(g) \/ BindPaneFails(g)
  PROVE  ResultInv'
  <1>t. /\ exec \in [Generations -> ExecStages] /\ latest \in Generations
        /\ status \in [Generations -> {"absent", "queued", "running"} \cup Outcomes]
        /\ launch \in [Generations -> {"idle", "paths", "mux", "sleep"}]
        /\ child \in [Generations -> {"none", "working", "ending", "exited", "gone"}]
    BY DEF IInv, TypeOK, HistoryTypes, ExecutionTypes, PaneInv, PaneTypeOK
  <1>n. [PaneNext]_allVars
    BY DEF PaneNext, PaneStep
  <1>a. /\ \A h \in Generations : status[h] = "aborted" => status'[h] = "aborted"
        /\ \A h \in Generations : IsDone(h) => status'[h] = status[h]
    BY <1>n, AbortedStays
  <1>1. /\ launch[g] = "sleep" /\ pane[g] = "open" /\ exec[g] = "launching"
        /\ launch' = [launch EXCEPT ![g] = "idle"] /\ UNCHANGED <<latest, sidecar, taken>>
        /\ Retain(g, [child EXCEPT ![g] = "working"])
    BY DEF BindPane, BindPaneFails, Bind, LaunchFails
  <1>2. g <= latest /\ (~IsDone(g) => g = latest)
    BY <1>1, UndoneIsLatest
  <1>3. /\ \E stage \in {"executing", "returned"} : exec' = [exec EXCEPT ![g] = stage]
        /\ exec'[g] = "executing" \/ status'[g] \in {"aborted", "error"}
        /\ exec'[g] = "executing" => g = latest
    <2>1. CASE BindPane(g) /\ g = latest /\ ~IsDone(g)
      BY <2>1, <1>t DEF BindPane, Bind
    <2>2. CASE BindPane(g) /\ ~(g = latest /\ ~IsDone(g))
      <3>1. exec' = [exec EXCEPT ![g] = "returned"] /\ status' = status
        BY <2>2 DEF BindPane, Bind, Return
      <3>2. status[g] = "aborted"
        BY <2>2, <1>1, <1>2 DEF PaneInv, OvertakenByCancel
      <3>3. QED
        BY <3>1, <3>2, <1>t
    <2>3. CASE BindPaneFails(g)
      BY <2>3, <1>t DEF BindPaneFails, LaunchFails, Settle, Return
    <2>4. QED
      BY <2>1, <2>2, <2>3
  <1>4. \A h \in Generations \ {g} : exec'[h] = exec[h] /\ launch'[h] = launch[h]
    BY <1>1, <1>3, <1>t
  <1>5. \A h \in Generations :
           /\ AtWork(h)' => (AtWork(h) \/ h = g) /\ pane'[h] = "open"
           /\ child'[h] # "none" => child[h] # "none" \/ h = g
    <2>1. pane' = Closed({retained}) /\ child' = Without({retained}, [child EXCEPT ![g] = "working"])
      BY <1>1 DEF Retain
    <2>2. \A h \in Generations : h \in Surfaces
      BY DEF Surfaces
    <2>3. QED
      BY <1>1, <2>1, <2>2, <1>t DEF Closed, Without, AtWork, ResultInv, ChildrenAtWork
  <1>6. ChildrenAtWork'
    <2>1. \A h \in Generations : status[h] \in {"aborted", "error"} => IsDone(h)
      BY DEF IsDone, Outcomes
    <2>2. QED
      BY <2>1, <1>1, <1>2, <1>3, <1>4, <1>5, <1>a DEF ResultInv, ChildrenAtWork
  <1>7. Continued'
    BY <1>1, <1>a, <1>t DEF ResultInv, Continued, IInv, Lifecycle
  <1>8. CancelledBefore(latest) => CancelledBefore(latest)'
    BY <1>1, <1>a DEF CancelledBefore
  <1>9. SidecarOwn'
    <2>1. exec'[latest] = "executing" \/ launch'[latest] \in {"mux", "sleep"} =>
            exec[latest] = "executing" \/ launch[latest] \in {"mux", "sleep"}
      BY <1>1, <1>4, <1>t
    <2>2. QED
      BY <2>1, <1>1, <1>8 DEF ResultInv, SidecarOwn
  <1>10. TakenOwn'
    BY <1>1, <1>a DEF ResultInv, TakenOwn, CancelledBefore
  <1>11. QED
    BY <1>6, <1>7, <1>9, <1>10 DEF ResultInv

(* A child comes to its end: if it is not that of the latest generation,   *)
(* its own was cancelled.                                                  *)
LEMMA ChildResults ==
  ASSUME IInv, PaneInv, ResultInv, NEW g \in Generations, ChildFinishes(g) \/ ChildExits(g)
  PROVE  ResultInv'
  <1>t. latest \in Generations /\ child \in [Generations -> {"none", "working", "ending", "exited", "gone"}]
    BY DEF IInv, TypeOK, HistoryTypes, PaneInv, PaneTypeOK
  <1>1. /\ AtWork(g) /\ UNCHANGED <<latest, status, exec, launch, pane, taken>>
        /\ \E stage \in {"ending", "exited"} : child' = [child EXCEPT ![g] = stage]
        /\ sidecar' = sidecar \/ sidecar'.by = g
    BY DEF ChildFinishes, ChildExits, AtWork, vars, historyVars, execVars, launchVars
  <1>2. g = latest \/ CancelledBefore(latest)
    <2>1. g <= latest /\ (exec[g] = "executing" \/ status[g] \in {"aborted", "error"})
      BY <1>1 DEF ResultInv, ChildrenAtWork, AtWork
    <2>2. CASE g < latest
      <3>1. IsDone(g) /\ status[g] # "error"
        BY <2>2 DEF IInv, Lifecycle, ResultInv, Continued
      <3>2. status[g] = "aborted"
        BY <2>1, <3>1 DEF PaneInv, OvertakenByCancel
      <3>3. QED
        BY <2>2, <3>2 DEF CancelledBefore
    <2>3. QED
      BY <2>1, <2>2, <1>t DEF Generations
  <1>3. CancelledBefore(latest)' <=> CancelledBefore(latest)
    BY <1>1 DEF CancelledBefore
  <1>4. SidecarOwn'
    BY <1>1, <1>2, <1>3 DEF ResultInv, SidecarOwn
  <1>5. ChildrenAtWork'
    BY <1>1, <1>t DEF ResultInv, ChildrenAtWork, AtWork
  <1>6. Continued' /\ TakenOwn'
    BY <1>1 DEF ResultInv, Continued, TakenOwn, CancelledBefore
  <1>7. QED
    BY <1>4, <1>5, <1>6 DEF ResultInv

(* The poll of a generation that was not cancelled is that of the latest.  *)
LEMMA TakeResults ==
  ASSUME IInv, PaneInv, ResultInv, NEW g \in Generations, TakeCompletion(g)
  PROVE  ResultInv'
  <1>t. /\ latest \in Generations /\ taken \in [Generations -> Completions \cup {Nothing}]
        /\ sidecar \in Completions \cup {Nothing}
    BY DEF IInv, TypeOK, HistoryTypes, PaneInv, PaneTypeOK
  <1>1. exec[g] = "executing" /\ UNCHANGED <<latest, status, exec, launch, pane, child, sidecar>>
    BY DEF TakeCompletion, vars, historyVars, execVars, launchVars, worldVars
  <1>2. PICK c : /\ taken' = [taken EXCEPT ![g] = c]
                 /\ (c = sidecar /\ sidecar # Nothing) \/ c.by = g
    <2>1. CASE sidecar # Nothing /\ taken' = [taken EXCEPT ![g] = sidecar]
      BY <2>1
    <2>2. ASSUME NEW kind, taken' = [taken EXCEPT ![g] = [by |-> g, kind |-> kind]]
          PROVE  \E c : /\ taken' = [taken EXCEPT ![g] = c]
                        /\ (c = sidecar /\ sidecar # Nothing) \/ c.by = g
      <3>1. [by |-> g, kind |-> kind].by = g
        OBVIOUS
      <3>2. QED
        BY <2>2, <3>1
    <2>3. QED
      BY <2>1, <2>2 DEF TakeCompletion
  <1>3. taken'[g] = c /\ \A h \in Generations \ {g} : taken'[h] = taken[h]
    BY <1>2, <1>t
  <1>4. c.by = g \/ status[g] = "aborted" \/ CancelledBefore(g)
    <2>1. CASE IsDone(g)
      BY <2>1, <1>1 DEF PaneInv, OvertakenByCancel
    <2>2. CASE ~IsDone(g)
      <3>1. g = latest
        BY <2>2, <1>1, UndoneIsLatest
      <3>2. QED
        BY <3>1, <1>1, <1>2 DEF ResultInv, SidecarOwn
    <2>3. QED
      BY <2>1, <2>2
  <1>5. TakenOwn'
    BY <1>1, <1>3, <1>4 DEF ResultInv, TakenOwn, CancelledBefore
  <1>6. ChildrenAtWork' /\ Continued' /\ SidecarOwn'
    BY <1>1 DEF ResultInv, ChildrenAtWork, Continued, SidecarOwn, AtWork, CancelledBefore
  <1>7. QED
    BY <1>5, <1>6 DEF ResultInv

LEMMA PaneStepResults ==
  ASSUME IInv, PaneInv, ResultInv, NEW g \in Generations, PaneStep(g)
  PROVE  ResultInv'
  <1>t. /\ exec \in [Generations -> ExecStages] /\ latest \in Generations
        /\ launch \in [Generations -> {"idle", "paths", "mux", "sleep"}]
        /\ pane \in [Surfaces -> {"none", "open", "closed"}]
        /\ g \in Surfaces
    BY DEF IInv, TypeOK, HistoryTypes, ExecutionTypes, PaneInv, PaneTypeOK, Surfaces
  <1>n. [PaneNext]_allVars
    BY DEF PaneNext
  <1>1. CASE LaunchPane(g)
    <2>1. /\ UNCHANGED <<latest, status, taken, child, pane, sidecar>> /\ exec[g] = "started"
          /\ exec' = [exec EXCEPT ![g] = "launching"] /\ launch' = [launch EXCEPT ![g] = "paths"]
      BY <1>1 DEF LaunchPane, Launch, historyVars, worldVars
    <2>2. /\ \A h \in Generations : exec'[h] = "executing" <=> exec[h] = "executing"
          /\ \A h \in Generations : launch'[h] \in {"mux", "sleep"} => launch[h] \in {"mux", "sleep"}
      BY <2>1, <1>t
    <2>3. QED
      BY <2>1, <2>2, <1>n, <1>t, RestKeepsResults DEF ResultInv, ChildrenAtWork, AtWork
  <1>2. CASE ClearCompletion(g)
    BY <1>2, <1>n, RestKeepsResults
       DEF ClearCompletion, ResultInv, ChildrenAtWork, AtWork, vars, historyVars, execVars
  <1>3. CASE CreateSurface(g)
    <2>1. /\ UNCHANGED <<latest, status, exec, taken, child, sidecar>> /\ launch[g] = "mux"
          /\ launch' = [launch EXCEPT ![g] = "sleep"] /\ pane' = [pane EXCEPT ![g] = "open"]
      BY <1>3 DEF CreateSurface, vars, historyVars, execVars
    <2>2. /\ \A h \in Generations : launch'[h] \in {"mux", "sleep"} => launch[h] \in {"mux", "sleep"}
          /\ \A h \in Generations : pane[h] = "open" => pane'[h] = "open"
      BY <2>1, <1>t DEF Surfaces
    <2>3. QED
      BY <2>1, <2>2, <1>n, <1>t, RestKeepsResults DEF ResultInv, ChildrenAtWork, AtWork
  <1>4. CASE LaunchPaneFails(g)
    BY <1>4, <1>n, <1>t, EndResults DEF LaunchPaneFails, LaunchFails
  <1>5. CASE BindPane(g) \/ BindPaneFails(g)
    BY <1>5, BindPaneResults
  <1>6. CASE TakeCompletion(g)
    BY <1>6, TakeResults
  <1>7. CASE SettlePane(g) \/ PollFails(g)
    <2>1. PICK outcome \in {"completed", "error"} : ExecutorEnds(g, outcome)
      BY <1>7 DEF SettlePane, PollFails
    <2>2. Settle(g, outcome) /\ Return(g) /\ exec[g] = "executing" /\ UNCHANGED latest
      BY <2>1 DEF ExecutorEnds
    <2>3. Close({g}) /\ UNCHANGED <<launch, sidecar, taken>>
      BY <1>7 DEF SettlePane, PollFails, launchVars
    <2>4. launch[g] = "idle"
      BY <2>2 DEF PaneInv, LaunchStages
    <2>5. QED
      BY <2>2, <2>3, <2>4, <1>n, EndResults
  <1>8. CASE ChildFinishes(g) \/ ChildExits(g)
    BY <1>8, ChildResults
  <1>9. QED
    BY <1>1, <1>2, <1>3, <1>4, <1>5, <1>6, <1>7, <1>8 DEF PaneStep

(* Viewers and the hand of the user only ever close panes and retain them. *)
LEMMA OtherStepResults ==
  ASSUME IInv, PaneInv, ResultInv,
         (\E v \in Viewers : ViewerStep(v)) \/ (\E p \in Surfaces : PaneVanishes(p))
         \/ UNCHANGED allVars
  PROVE  ResultInv'
  <1>n. [PaneNext]_allVars
    BY DEF PaneNext
  <1>1. UNCHANGED <<latest, status, exec, launch, sidecar, taken>>
    BY DEF ViewerStep, OpenConversationPane, CheckRetainedPane, CreateViewer, ViewerFails,
           RetainViewer, PaneVanishes, allVars, paneVars, vars, historyVars, execVars, launchVars,
           worldVars
  <1>2. ASSUME \A g \in Generations : /\ AtWork(g)' => AtWork(g) /\ pane'[g] = "open"
                                      /\ child'[g] # "none" => child[g] # "none"
        PROVE  ResultInv'
    <2>1. latest \in Generations
      BY DEF IInv, TypeOK, HistoryTypes
    <2>2. QED
      BY <1>1, <1>2, <1>n, <2>1, RestKeepsResults
  <1>3. ASSUME UNCHANGED child, \A g \in Generations : pane[g] = "open" => pane'[g] = "open"
        PROVE  ResultInv'
    BY <1>2, <1>3 DEF ResultInv, ChildrenAtWork, AtWork
  <1>4. ASSUME NEW P, Close(P) PROVE ResultInv'
    BY <1>2, <1>4, ClosedChildren DEF ResultInv
  <1>5. ASSUME NEW v \in Viewers, ViewerStep(v) PROVE ResultInv'
    <2>1. CASE OpenConversationPane(v)
      BY <2>1, <1>3 DEF OpenConversationPane, worldVars
    <2>2. CASE CheckRetainedPane(v)
      BY <2>2, <1>3, <1>4 DEF CheckRetainedPane
    <2>3. CASE CreateViewer(v)
      <3>1. v \notin Generations /\ pane \in [Surfaces -> {"none", "open", "closed"}]
        BY ViewersAssumption DEF PaneInv, PaneTypeOK
      <3>2. QED
        BY <2>3, <1>3, <3>1 DEF CreateViewer, Surfaces
    <2>4. CASE ViewerFails(v)
      BY <2>4, <1>4 DEF ViewerFails
    <2>5. CASE RetainViewer(v)
      <3>1. Retain(v, child)
        BY <2>5 DEF RetainViewer
      <3>2. QED
        BY <3>1, <1>2, ClosedChildren DEF ResultInv
    <2>6. QED
      BY <1>5, <2>1, <2>2, <2>3, <2>4, <2>5 DEF ViewerStep
  <1>6. ASSUME NEW p \in Surfaces, PaneVanishes(p) PROVE ResultInv'
    BY <1>6, <1>4 DEF PaneVanishes
  <1>7. CASE UNCHANGED allVars
    BY <1>7, <1>3 DEF allVars, paneVars, worldVars
  <1>8. QED
    BY <1>5, <1>6, <1>7

LEMMA ResultInvKept == IInv /\ PaneInv /\ ResultInv /\ [PaneNext]_allVars => ResultInv'
  BY ConversationStepResults, CancelPaneResults, PaneStepResults, OtherStepResults DEF PaneNext

(* Although every generation of a conversation uses one sidecar, a         *)
(* generation settles with what its own child, launch script or interrupt  *)
(* left there, unless an earlier one was cancelled: the executor clears    *)
(* the file before the launch, and whoever could still write to it from    *)
(* before is gone with its pane.                                           *)
THEOREM ResultsAreOwn == PaneSpec => []ResultIsOwn
  <1>1. PaneInit => PaneInv /\ ResultInv
    <2>1. PaneInit => PaneInv
      BY PaneTypeInit DEF PaneInit, Init, PaneInv, OvertakenByCancel, LaunchStages, PanesOwned
    <2>2. PaneInit => ResultInv
      BY MaxGenerationsAssumption
         DEF PaneInit, Init, ResultInv, ChildrenAtWork, Continued, SidecarOwn, TakenOwn, AtWork, Nothing
    <2>3. QED
      BY <2>1, <2>2
  <1>2. ResultInv => ResultIsOwn
    <2> SUFFICES ASSUME ResultInv, NEW g \in Generations, status[g] \in {"completed", "error"},
                        taken[g] # Nothing, taken[g].by # g
                 PROVE  \E h \in 1..(g - 1) : status[h] = "aborted"
      BY DEF ResultIsOwn
    <2>1. PICK h \in Generations : h < g /\ status[h] = "aborted"
      BY DEF ResultInv, TakenOwn, CancelledBefore
    <2>2. h \in 1..(g - 1)
      BY <2>1 DEF Generations
    <2>3. QED
      BY <2>1, <2>2
  <1>3. QED
    BY <1>1, <1>2, ConversationInvariance, PaneInvKept, ResultInvKept, PTL DEF PaneSpec
=============================================================================
