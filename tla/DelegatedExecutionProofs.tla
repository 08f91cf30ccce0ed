---------------------- MODULE DelegatedExecutionProofs ----------------------
(***************************************************************************)
(* Theorems about ExecutionQueue, for every set of tasks and limits: type  *)
(* correctness, the accounting of slots, the absence of lost wakeups,      *)
(* admission within the limit, and that the queue implements SlotPool.     *)
(* Then about DelegatedExecution, for any tree of tasks: it uses the queue *)
(* as ExecutionQueue says it may be used, so that slots are accounted for  *)
(* and handed out in order also under joins, and a session that makes one  *)
(* tool call at a time never keeps a slot from the work it waits for.      *)
(***************************************************************************)
EXTENDS DelegatedExecution, FiniteSetTheorems, FunctionTheorems, SequenceTheorems, TLAPS

(* The queue holds each task at most once, ... *)
Distinct(q) == \A i, j \in 1..Len(q) : q[i] = q[j] => i = j

(* ... and exactly those whose phase says so. *)
Exact(q, ph) ==
  \A t \in Tasks : (\E i \in 1..Len(q) : q[i] = t) <=> ph[t] \in {"pending", "acquiring"}

(* A slot is marked as occupied only between start() and the finally, and  *)
(* never for an abandoned task.                                            *)
Marked(ph, occ) == \A t \in Tasks : occ[t] => ph[t] \in {"started", "running", "settling"}

HoldersOf(ph, occ) == {t \in Tasks : occ[t] \/ ph[t] = "granted"}

IInv ==
  /\ TypeOK
  /\ Distinct(pending)
  /\ Exact(pending, phase)
  /\ Marked(phase, occupyingSlot)
  /\ AbandonedHoldsNothing
  /\ \A t \in Tasks : abandoned[t] => phase[t] \notin {"new", "pending"}
  /\ \A t \in Tasks : phase[t] \in {"cancelled", "settling", "finished"} => settled[t]
  /\ SlotsAccounted
  /\ pending # <<>> => executing >= 1

-----------------------------------------------------------------------------
(* What flush() starts from: a queue that is exact for the phases, and a   *)
(* counter that is exact for the slots.                                    *)
FlushPre(q, exec, ph, occ) ==
  /\ q \in Seq(Tasks)
  /\ ph \in [Tasks -> Phases]
  /\ occ \in [Tasks -> BOOLEAN]
  /\ maxExecuting \in Limits
  /\ Distinct(q)
  /\ Exact(q, ph)
  /\ Marked(ph, occ)
  /\ exec = Cardinality(HoldersOf(ph, occ))

LEMMA AdmissibleType ==
  ASSUME NEW q \in Seq(Tasks), NEW exec \in Nat, maxExecuting \in Limits
  PROVE  /\ Admissible(q, exec) \in 0..Len(q)
         /\ Admissible(q, exec) = 0 \/ exec + Admissible(q, exec) <= maxExecuting
         /\ Admissible(q, exec) = Len(q) \/ exec + Admissible(q, exec) >= maxExecuting
  <1>1. maxExecuting \in Nat
    BY LimitsAssumption
  <1>2. Len(q) \in Nat
    OBVIOUS
  <1>3. QED
    BY <1>1, <1>2 DEF Admissible

(* The first n entries of a queue. *)
Prefix(q, n) == {q[i] : i \in 1..n}

(* A prefix of a queue without repetition has as many tasks as entries. *)
LEMMA PrefixCardinality ==
  ASSUME NEW q \in Seq(Tasks), Distinct(q), NEW n \in 0..Len(q)
  PROVE  /\ IsFiniteSet(Prefix(q, n))
         /\ Cardinality(Prefix(q, n)) = n
  <1> DEFINE f == [i \in 1..n |-> q[i]]
  <1>1. n \in Nat /\ n <= Len(q)
    OBVIOUS
  <1>2. f \in [1..n -> Prefix(q, n)]
    BY DEF Prefix
  <1>3. \A i, j \in 1..n : f[i] = f[j] => i = j
    BY <1>1 DEF Distinct
  <1>4. \A s \in Prefix(q, n) : \E i \in 1..n : f[i] = s
    BY DEF Prefix
  <1>5. f \in Bijection(1..n, Prefix(q, n))
    <2> HIDE DEF f
    <2> QED BY <1>2, <1>3, <1>4, Fun_IsBij
  <1>6. ExistsBijection(1..n, Prefix(q, n))
    BY <1>5 DEF ExistsBijection
  <1>7. IsFiniteSet(1..n) /\ Cardinality(1..n) = n
    BY <1>1, FS_Interval
  <1>8. QED
    BY <1>6, <1>7, FS_Bijection

(* What flush() achieves: it moves a prefix of the queue into the holders, *)
(* as many as the pool admits, starting tasks and granting acquires.       *)
FlushPost(q, exec, ph, occ, n) ==
  /\ n \in 0..Len(q)
  /\ n = 0 \/ exec + n <= maxExecuting
  /\ n = Len(q) \/ exec + n >= maxExecuting
  /\ executing' = exec + n
  /\ pending' = SubSeq(q, n + 1, Len(q))
  /\ phase' \in [Tasks -> Phases]
  /\ occupyingSlot' \in [Tasks -> BOOLEAN]
  /\ \A t \in Tasks \ Prefix(q, n) : phase'[t] = ph[t] /\ occupyingSlot'[t] = occ[t]
  /\ \A t \in Prefix(q, n) :
       /\ t \in Tasks
       /\ \/ ph[t] = "pending" /\ phase'[t] = "started" /\ occupyingSlot'[t]
          \/ ph[t] = "acquiring" /\ phase'[t] = "granted" /\ occupyingSlot'[t] = occ[t]

LEMMA HoldersFinite ==
  ASSUME NEW ph, NEW occ
  PROVE  IsFiniteSet(HoldersOf(ph, occ)) /\ Cardinality(HoldersOf(ph, occ)) \in Nat
  <1>1. HoldersOf(ph, occ) \in SUBSET Tasks
    BY DEF HoldersOf
  <1>2. IsFiniteSet(HoldersOf(ph, occ))
    BY <1>1, TasksAssumption, FS_Subset
  <1>3. QED
    BY <1>2, FS_CardinalityType

LEMMA FlushMoves ==
  ASSUME NEW q, NEW exec, NEW ph, NEW occ,
         FlushPre(q, exec, ph, occ), Flush(q, exec, ph, occ)
  PROVE  \E n \in 0..Len(q) : FlushPost(q, exec, ph, occ, n)
  <1> DEFINE n == Admissible(q, exec)
             shifted == Prefix(q, n)
  <1>1. exec \in Nat
    BY HoldersFinite DEF FlushPre
  <1>2. /\ n \in 0..Len(q)
        /\ n = 0 \/ exec + n <= maxExecuting
        /\ n = Len(q) \/ exec + n >= maxExecuting
    BY <1>1, AdmissibleType DEF FlushPre
  <1>3. n \in Nat /\ n <= Len(q) /\ Len(q) \in Nat
    BY <1>2 DEF FlushPre
  <1>4. /\ executing' = exec + n
        /\ pending' = SubSeq(q, n + 1, Len(q))
        /\ phase' = [t \in Tasks |->
                        IF t \notin shifted THEN ph[t]
                        ELSE IF ph[t] = "pending" THEN "started" ELSE "granted"]
        /\ occupyingSlot' = [t \in Tasks |-> (t \in shifted /\ ph[t] = "pending") \/ occ[t]]
    BY Zenon DEF Flush, Prefix
  <1>5. \A t \in shifted : t \in Tasks /\ ph[t] \in {"pending", "acquiring"}
    BY <1>3 DEF FlushPre, Exact, Prefix
  <1> HIDE DEF n, shifted
  <1>7. phase' \in [Tasks -> Phases]
    BY <1>4 DEF FlushPre, Phases
  <1>8. occupyingSlot' \in [Tasks -> BOOLEAN]
    BY <1>4 DEF FlushPre
  <1>9. \A t \in Tasks \ shifted : phase'[t] = ph[t] /\ occupyingSlot'[t] = occ[t]
    BY <1>4 DEF FlushPre
  <1>10. \A t \in shifted :
           /\ t \in Tasks
           /\ \/ ph[t] = "pending" /\ phase'[t] = "started" /\ occupyingSlot'[t]
              \/ ph[t] = "acquiring" /\ phase'[t] = "granted" /\ occupyingSlot'[t] = occ[t]
    BY <1>4, <1>5 DEF FlushPre
  <1>11. FlushPost(q, exec, ph, occ, n)
    BY <1>2, <1>4, <1>7, <1>8, <1>9, <1>10 DEF FlushPost, shifted
  <1>12. QED
    BY <1>2, <1>11

(* The flushed queue holds what is left of the old one. *)
LEMMA SuffixOfDistinct ==
  ASSUME NEW q \in Seq(Tasks), Distinct(q), NEW n \in 0..Len(q),
         NEW r, r = SubSeq(q, n + 1, Len(q))
  PROVE  /\ r \in Seq(Tasks)
         /\ Distinct(r)
         /\ n < Len(q) <=> r # <<>>
         /\ \A t \in Tasks : (\E i \in 1..Len(r) : r[i] = t)
                             <=> (\E i \in 1..Len(q) : q[i] = t) /\ t \notin Prefix(q, n)
  <1>1. Len(q) \in Nat /\ n \in Nat /\ n <= Len(q)
    OBVIOUS
  <1>2. /\ r \in Seq(Tasks)
        /\ Len(r) = Len(q) - n
        /\ \A i \in 1..Len(r) : r[i] = q[n + i]
    BY <1>1
  <1>3. Distinct(r)
    BY <1>1, <1>2 DEF Distinct
  <1>4. \A t \in Tasks : (\E i \in 1..Len(r) : r[i] = t)
                         <=> (\E i \in 1..Len(q) : q[i] = t) /\ t \notin Prefix(q, n)
    <2> SUFFICES ASSUME NEW t \in Tasks
                 PROVE  (\E i \in 1..Len(r) : r[i] = t)
                        <=> (\E i \in 1..Len(q) : q[i] = t) /\ t \notin Prefix(q, n)
      OBVIOUS
    <2>1. ASSUME NEW i \in 1..Len(r), r[i] = t
          PROVE  (\E j \in 1..Len(q) : q[j] = t) /\ t \notin Prefix(q, n)
      <3>1. n + i \in 1..Len(q) /\ q[n + i] = t
        BY <1>1, <1>2, <2>1
      <3>2. \A j \in 1..n : q[j] # t
        BY <3>1, <1>1 DEF Distinct
      <3>3. QED
        BY <3>1, <3>2 DEF Prefix
    <2>2. ASSUME NEW i \in 1..Len(q), q[i] = t, t \notin Prefix(q, n)
          PROVE  \E j \in 1..Len(r) : r[j] = t
      <3>1. i > n
        BY <2>2, <1>1 DEF Prefix
      <3>2. i - n \in 1..Len(r) /\ n + (i - n) = i
        BY <3>1, <1>1, <1>2
      <3>3. QED
        BY <3>2, <1>2, <2>2
    <2>3. QED
      BY <2>1, <2>2
  <1>5. n < Len(q) <=> r # <<>>
    <2>1. Len(r) # 0 <=> r # <<>>
      BY <1>2, EmptySeq
    <2>2. n < Len(q) <=> Len(r) # 0
      BY <1>1, <1>2
    <2>3. QED
      BY <2>1, <2>2
  <1>6. QED
    BY <1>2, <1>3, <1>4, <1>5

(* flush() keeps queue, phases and counter exact, and leaves somebody      *)
(* waiting only when the pool is full.                                     *)
LEMMA FlushAccounts ==
  ASSUME NEW q, NEW exec, NEW ph, NEW occ, FlushPre(q, exec, ph, occ),
         NEW n \in 0..Len(q), FlushPost(q, exec, ph, occ, n)
  PROVE  /\ executing' \in Nat
         /\ pending' \in Seq(Tasks)
         /\ Distinct(pending')
         /\ Exact(pending', phase')
         /\ Marked(phase', occupyingSlot')
         /\ HoldersOf(phase', occupyingSlot') = HoldersOf(ph, occ) \cup Prefix(q, n)
         /\ executing' = Cardinality(HoldersOf(phase', occupyingSlot'))
         /\ pending' # <<>> => executing' >= maxExecuting
  <1>1. q \in Seq(Tasks) /\ Distinct(q) /\ Len(q) \in Nat /\ n \in Nat /\ n <= Len(q)
    BY DEF FlushPre
  <1>2. pending' = SubSeq(q, n + 1, Len(q)) /\ executing' = exec + n
    BY DEF FlushPost
  <1> DEFINE r == SubSeq(q, n + 1, Len(q))
  <1>r. /\ r \in Seq(Tasks)
        /\ Distinct(r)
        /\ n < Len(q) <=> r # <<>>
        /\ \A t \in Tasks : (\E i \in 1..Len(r) : r[i] = t)
                            <=> (\E i \in 1..Len(q) : q[i] = t) /\ t \notin Prefix(q, n)
    <2> HIDE DEF r
    <2> QED BY <1>1, SuffixOfDistinct DEF r
  <1>3. /\ pending' \in Seq(Tasks)
        /\ Distinct(pending')
        /\ n < Len(q) <=> pending' # <<>>
        /\ \A t \in Tasks : (\E i \in 1..Len(pending') : pending'[i] = t)
                            <=> (\E i \in 1..Len(q) : q[i] = t) /\ t \notin Prefix(q, n)
    BY <1>2, <1>r, Zenon
  <1>4. \A t \in Prefix(q, n) : /\ t \in Tasks
                               /\ ph[t] \in {"pending", "acquiring"}
                               /\ t \notin HoldersOf(ph, occ)
    BY DEF FlushPost, FlushPre, Marked, HoldersOf
  <1>5. Exact(pending', phase')
    BY <1>3, <1>4 DEF FlushPost, FlushPre, Exact
  <1>6. Marked(phase', occupyingSlot')
    BY <1>4 DEF FlushPost, FlushPre, Marked
  <1>7. HoldersOf(phase', occupyingSlot') = HoldersOf(ph, occ) \cup Prefix(q, n)
    BY <1>4 DEF FlushPost, HoldersOf
  <1>8. executing' = Cardinality(HoldersOf(phase', occupyingSlot'))
    <2> DEFINE H == HoldersOf(ph, occ)
               P == Prefix(q, n)
    <2>1. IsFiniteSet(H) /\ Cardinality(H) \in Nat /\ exec = Cardinality(H)
      BY HoldersFinite DEF FlushPre
    <2>2. IsFiniteSet(P) /\ Cardinality(P) = n
      BY <1>1, PrefixCardinality
    <2>3. H \cap P = {}
      BY <1>4
    <2> HIDE DEF H, P
    <2>4. Cardinality(H \cup P) = Cardinality(H) + Cardinality(P) - Cardinality(H \cap P)
      BY <2>1, <2>2, FS_Union
    <2>5. Cardinality(H \cap P) = 0
      BY <2>3, FS_EmptySet
    <2>6. Cardinality(H \cup P) = exec + n
      BY <1>1, <2>1, <2>2, <2>4, <2>5
    <2>7. QED
      BY <1>2, <1>7, <2>6 DEF H, P
  <1>9. executing' \in Nat
    BY <1>8, HoldersFinite
  <1>10. pending' # <<>> => executing' >= maxExecuting
    BY <1>1, <1>2, <1>3 DEF FlushPost
  <1>11. QED
    BY <1>3, <1>5, <1>6, <1>7, <1>8, <1>9, <1>10

-----------------------------------------------------------------------------
(* The three ways in which a handler reaches flush(). *)

LEMMA RequestPre ==
  ASSUME IInv, NEW t \in Tasks, phase[t] \in {"new", "suspended"},
         NEW p \in {"pending", "acquiring"}
  PROVE  FlushPre(Append(pending, t), executing, [phase EXCEPT ![t] = p], occupyingSlot)
  <1> DEFINE q == Append(pending, t)
             ph == [phase EXCEPT ![t] = p]
  <1>1. /\ pending \in Seq(Tasks) /\ phase \in [Tasks -> Phases]
        /\ occupyingSlot \in [Tasks -> BOOLEAN] /\ maxExecuting \in Limits
        /\ Distinct(pending) /\ Exact(pending, phase) /\ Marked(phase, occupyingSlot)
        /\ executing = Cardinality(Holders)
    BY DEF IInv, TypeOK, SlotsAccounted
  <1>2. /\ q \in Seq(Tasks)
        /\ Len(q) = Len(pending) + 1 /\ Len(pending) \in Nat
        /\ \A i \in 1..Len(pending) : q[i] = pending[i]
        /\ q[Len(q)] = t
    BY <1>1
  <1>3. \A i \in 1..Len(pending) : pending[i] # t
    BY <1>1 DEF Exact
  <1>4. ph \in [Tasks -> Phases] /\ \A u \in Tasks : ph[u] = IF u = t THEN p ELSE phase[u]
    BY <1>1 DEF Phases
  <1> HIDE DEF q, ph
  <1>5. Distinct(q)
    BY <1>1, <1>2, <1>3 DEF Distinct
  <1>6. Exact(q, ph)
    <2>1. ASSUME NEW u \in Tasks
          PROVE  (\E i \in 1..Len(q) : q[i] = u)
                 <=> u = t \/ \E i \in 1..Len(pending) : pending[i] = u
      BY <1>2
    <2>2. QED
      BY <1>1, <1>4, <2>1 DEF Exact
  <1>7. Marked(ph, occupyingSlot)
    BY <1>1, <1>4 DEF Marked
  <1>8. HoldersOf(ph, occupyingSlot) = Holders
    BY <1>1, <1>4 DEF HoldersOf, Holders
  <1>9. QED
    BY <1>1, <1>2, <1>4, <1>5, <1>6, <1>7, <1>8 DEF FlushPre, q, ph

LEMMA ReleasePre ==
  ASSUME IInv, NEW t \in Tasks, t \in Holders,
         NEW p \in Phases \ {"pending", "acquiring", "granted"}
  PROVE  /\ FlushPre(pending, executing - 1, [phase EXCEPT ![t] = p],
                     [occupyingSlot EXCEPT ![t] = FALSE])
         /\ HoldersOf([phase EXCEPT ![t] = p], [occupyingSlot EXCEPT ![t] = FALSE])
              = Holders \ {t}
  <1> DEFINE ph == [phase EXCEPT ![t] = p]
             occ == [occupyingSlot EXCEPT ![t] = FALSE]
  <1>1. /\ pending \in Seq(Tasks) /\ phase \in [Tasks -> Phases]
        /\ occupyingSlot \in [Tasks -> BOOLEAN] /\ maxExecuting \in Limits
        /\ Distinct(pending) /\ Exact(pending, phase) /\ Marked(phase, occupyingSlot)
        /\ executing = Cardinality(Holders)
    BY DEF IInv, TypeOK, SlotsAccounted
  <1>2. ph \in [Tasks -> Phases] /\ \A u \in Tasks : ph[u] = IF u = t THEN p ELSE phase[u]
    BY <1>1
  <1>3. /\ occ \in [Tasks -> BOOLEAN]
        /\ \A u \in Tasks : occ[u] = IF u = t THEN FALSE ELSE occupyingSlot[u]
    BY <1>1
  <1> HIDE DEF ph, occ
  <1>4. phase[t] \notin {"pending", "acquiring"}
    BY <1>1 DEF Holders, Marked
  <1>5. Exact(pending, ph)
    BY <1>1, <1>2, <1>4 DEF Exact
  <1>6. Marked(ph, occ)
    BY <1>1, <1>2, <1>3 DEF Marked
  <1>7. HoldersOf(ph, occ) = Holders \ {t}
    BY <1>2, <1>3 DEF HoldersOf, Holders
  <1>8. IsFiniteSet(Holders)
    BY HoldersFinite DEF Holders, HoldersOf
  <1>9. Cardinality(Holders \ {t}) = executing - 1
    BY <1>1, <1>8, FS_RemoveElement
  <1>10. QED
    BY <1>1, <1>2, <1>3, <1>5, <1>6, <1>7, <1>9 DEF FlushPre, ph, occ

LEMMA PassingPre ==
  ASSUME IInv, NEW t \in Tasks, t \notin Holders, phase[t] = "settling"
  PROVE  /\ FlushPre(pending, executing, [phase EXCEPT ![t] = "finished"], occupyingSlot)
         /\ HoldersOf([phase EXCEPT ![t] = "finished"], occupyingSlot) = Holders
  <1> DEFINE ph == [phase EXCEPT ![t] = "finished"]
  <1>1. /\ pending \in Seq(Tasks) /\ phase \in [Tasks -> Phases]
        /\ occupyingSlot \in [Tasks -> BOOLEAN] /\ maxExecuting \in Limits
        /\ Distinct(pending) /\ Exact(pending, phase) /\ Marked(phase, occupyingSlot)
        /\ executing = Cardinality(Holders)
    BY DEF IInv, TypeOK, SlotsAccounted
  <1>2. /\ ph \in [Tasks -> Phases]
        /\ \A u \in Tasks : ph[u] = IF u = t THEN "finished" ELSE phase[u]
    BY <1>1 DEF Phases
  <1> HIDE DEF ph
  <1>3. Exact(pending, ph)
    BY <1>1, <1>2 DEF Exact
  <1>4. Marked(ph, occupyingSlot)
    BY <1>1, <1>2 DEF Marked, Holders
  <1>5. HoldersOf(ph, occupyingSlot) = Holders
    BY <1>2 DEF HoldersOf, Holders
  <1>6. QED
    BY <1>1, <1>2, <1>3, <1>4, <1>5 DEF FlushPre, ph

(* Whichever way it came, a handler that flushes keeps the invariant. *)
LEMMA FlushKeepsIInv ==
  ASSUME NEW q, NEW exec, NEW ph, NEW occ,
         FlushPre(q, exec, ph, occ), Flush(q, exec, ph, occ),
         maxExecuting' = maxExecuting,
         abandoned' \in [Tasks -> BOOLEAN], settled' \in [Tasks -> BOOLEAN],
         \A t \in Tasks : abandoned'[t] => ~occ[t] /\ ph[t] \notin {"new", "pending"},
         \A t \in Tasks : ph[t] \in {"cancelled", "settling", "finished"} => settled'[t]
  PROVE  IInv'
  <1>1. PICK n \in 0..Len(q) : FlushPost(q, exec, ph, occ, n)
    BY FlushMoves
  <1>2. /\ executing' \in Nat
        /\ pending' \in Seq(Tasks)
        /\ Distinct(pending')
        /\ Exact(pending', phase')
        /\ Marked(phase', occupyingSlot')
        /\ executing' = Cardinality(HoldersOf(phase', occupyingSlot'))
        /\ pending' # <<>> => executing' >= maxExecuting
    BY <1>1, FlushAccounts
  <1>3. maxExecuting \in Limits /\ maxExecuting \in Nat \ {0}
    BY LimitsAssumption DEF FlushPre
  <1>4. TypeOK'
    BY <1>1, <1>2, <1>3 DEF TypeOK, FlushPost
  <1>5. AbandonedHoldsNothing'
    BY <1>1 DEF AbandonedHoldsNothing, FlushPost
  <1>6. \A t \in Tasks : abandoned'[t] => phase'[t] \notin {"new", "pending"}
    BY <1>1 DEF FlushPost
  <1>7. \A t \in Tasks : phase'[t] \in {"cancelled", "settling", "finished"} => settled'[t]
    BY <1>1 DEF FlushPost
  <1>8. SlotsAccounted'
    BY <1>2 DEF SlotsAccounted, Holders, HoldersOf
  <1>9. pending' # <<>> => executing' >= 1
    BY <1>2, <1>3
  <1>10. QED
    BY <1>2, <1>4, <1>5, <1>6, <1>7, <1>8, <1>9 DEF IInv, Distinct, Exact, Marked

-----------------------------------------------------------------------------
LEMMA InitIInv == Init => IInv
  <1> SUFFICES ASSUME Init PROVE IInv
    OBVIOUS
  <1>1. pending = <<>> /\ Len(pending) = 0 /\ pending \in Seq(Tasks)
    BY DEF Init
  <1>2. TypeOK
    BY <1>1 DEF Init, TypeOK, Phases
  <1>3. Holders = {}
    BY DEF Init, Holders
  <1>4. SlotsAccounted
    BY <1>3, FS_EmptySet DEF Init, SlotsAccounted
  <1>5. Distinct(pending) /\ Exact(pending, phase) /\ Marked(phase, occupyingSlot)
    BY <1>1 DEF Init, Distinct, Exact, Marked
  <1>6. QED
    BY <1>1, <1>2, <1>4, <1>5 DEF Init, IInv, AbandonedHoldsNothing

LEMMA EnqueueKeeps == ASSUME IInv, NEW t \in Tasks, Enqueue(t) PROVE IInv'
  <1> DEFINE ph == [phase EXCEPT ![t] = "pending"]
  <1>1. FlushPre(Append(pending, t), executing, ph, occupyingSlot)
    BY RequestPre DEF Enqueue
  <1>2. Flush(Append(pending, t), executing, ph, occupyingSlot) /\ UNCHANGED <<maxExecuting, abandoned, settled>>
    BY DEF Enqueue
  <1>3. \A u \in Tasks : ph[u] = IF u = t THEN "pending" ELSE phase[u]
    BY DEF IInv, TypeOK
  <1>4. /\ \A u \in Tasks : abandoned'[u] => ~occupyingSlot[u] /\ ph[u] \notin {"new", "pending"}
        /\ \A u \in Tasks : ph[u] \in {"cancelled", "settling", "finished"} => settled'[u]
    BY <1>2, <1>3 DEF IInv, AbandonedHoldsNothing, Enqueue
  <1>5. abandoned' \in [Tasks -> BOOLEAN] /\ settled' \in [Tasks -> BOOLEAN]
    BY <1>2 DEF IInv, TypeOK
  <1> HIDE DEF ph
  <1>6. QED
    BY <1>1, <1>2, <1>4, <1>5, FlushKeepsIInv

(* A slot is given up on the way to phase p, in every handler that does. *)
LEMMA ReleaseKeeps ==
  ASSUME IInv, NEW t \in Tasks, t \in Holders,
         NEW p \in Phases \ {"new", "pending", "acquiring", "granted"},
         ReleaseSlot(t, p), maxExecuting' = maxExecuting,
         abandoned' \in [Tasks -> BOOLEAN], settled' \in [Tasks -> BOOLEAN],
         \A u \in Tasks \ {t} : abandoned'[u] = abandoned[u] /\ settled'[u] = settled[u],
         p \in {"cancelled", "settling", "finished"} => settled'[t]
  PROVE  IInv'
  <1> DEFINE ph == [phase EXCEPT ![t] = p]
             occ == [occupyingSlot EXCEPT ![t] = FALSE]
  <1>1. FlushPre(pending, executing - 1, ph, occ)
    BY ReleasePre
  <1>2. Flush(pending, executing - 1, ph, occ)
    BY DEF ReleaseSlot
  <1>3. \A u \in Tasks : /\ ph[u] = IF u = t THEN p ELSE phase[u]
                         /\ occ[u] = IF u = t THEN FALSE ELSE occupyingSlot[u]
    BY DEF IInv, TypeOK
  <1>4. /\ \A u \in Tasks : abandoned'[u] => ~occ[u] /\ ph[u] \notin {"new", "pending"}
        /\ \A u \in Tasks : ph[u] \in {"cancelled", "settling", "finished"} => settled'[u]
    BY <1>3 DEF IInv, AbandonedHoldsNothing
  <1> HIDE DEF ph, occ
  <1>5. QED
    BY <1>1, <1>2, <1>4, FlushKeepsIInv

LEMMA RunTaskKeeps == ASSUME IInv, NEW t \in Tasks, RunTask(t) PROVE IInv'
  <1>1. /\ phase' \in [Tasks -> Phases]
        /\ \A u \in Tasks : phase'[u] = IF u = t THEN "running" ELSE phase[u]
    BY DEF RunTask, IInv, TypeOK, Phases
  <1>2. phase[t] = "started" /\ UNCHANGED <<pending, executing, maxExecuting, occupyingSlot, abandoned, settled>>
    BY DEF RunTask
  <1>3. Holders' = Holders
    BY <1>1, <1>2 DEF Holders
  <1>4. QED
    BY <1>1, <1>2, <1>3 DEF IInv, TypeOK, Distinct, Exact, Marked, AbandonedHoldsNothing, SlotsAccounted

LEMMA BeginSuspendKeeps == ASSUME IInv, NEW t \in Tasks, BeginSuspend(t) PROVE IInv'
  <1>1. t \in Holders
    BY DEF BeginSuspend, Holders
  <1>2. QED
    BY <1>1, ReleaseKeeps DEF BeginSuspend, Phases, IInv, TypeOK

LEMMA EndSuspendKeeps == ASSUME IInv, NEW t \in Tasks, EndSuspend(t) PROVE IInv'
  <1>1. phase[t] = "suspended" /\ UNCHANGED <<maxExecuting, abandoned, settled>>
    BY DEF EndSuspend
  <1>2. CASE abandoned[t]
    <2>1. phase' = [phase EXCEPT ![t] = "running"] /\ UNCHANGED <<pending, executing, occupyingSlot>>
      BY <1>2 DEF EndSuspend
    <2>2. /\ phase' \in [Tasks -> Phases]
          /\ \A u \in Tasks : phase'[u] = IF u = t THEN "running" ELSE phase[u]
      BY <2>1 DEF IInv, TypeOK, Phases
    <2>3. Holders' = Holders
      BY <1>1, <2>1, <2>2 DEF Holders
    <2>4. QED
      BY <1>1, <2>1, <2>2, <2>3
      DEF IInv, TypeOK, Distinct, Exact, Marked, AbandonedHoldsNothing, SlotsAccounted
  <1>3. CASE ~abandoned[t]
    <2> DEFINE ph == [phase EXCEPT ![t] = "acquiring"]
    <2>1. FlushPre(Append(pending, t), executing, ph, occupyingSlot)
      BY <1>1, RequestPre
    <2>2. Flush(Append(pending, t), executing, ph, occupyingSlot)
      BY <1>3 DEF EndSuspend
    <2>3. \A u \in Tasks : ph[u] = IF u = t THEN "acquiring" ELSE phase[u]
      BY DEF IInv, TypeOK
    <2>4. /\ \A u \in Tasks : abandoned'[u] => ~occupyingSlot[u] /\ ph[u] \notin {"new", "pending"}
          /\ \A u \in Tasks : ph[u] \in {"cancelled", "settling", "finished"} => settled'[u]
      BY <1>1, <2>3 DEF IInv, AbandonedHoldsNothing
    <2>5. abandoned' \in [Tasks -> BOOLEAN] /\ settled' \in [Tasks -> BOOLEAN]
      BY <1>1 DEF IInv, TypeOK
    <2> HIDE DEF ph
    <2>6. QED
      BY <1>1, <2>1, <2>2, <2>4, <2>5, FlushKeepsIInv
  <1>4. QED
    BY <1>2, <1>3

LEMMA ResumeKeeps == ASSUME IInv, NEW t \in Tasks, Resume(t) PROVE IInv'
  <1>1. phase[t] = "granted" /\ t \in Holders /\ UNCHANGED <<maxExecuting, abandoned, settled>>
    BY DEF Resume, Holders
  <1>2. CASE abandoned[t]
    <2>1. ReleaseSlot(t, "running")
      BY <1>2 DEF Resume
    <2>2. QED
      BY <1>1, <2>1, ReleaseKeeps DEF Phases, IInv, TypeOK
  <1>3. CASE ~abandoned[t]
    <2>1. /\ phase' = [phase EXCEPT ![t] = "running"]
          /\ occupyingSlot' = [occupyingSlot EXCEPT ![t] = TRUE]
          /\ UNCHANGED <<pending, executing>>
      BY <1>3 DEF Resume
    <2>2. /\ phase' \in [Tasks -> Phases]
          /\ \A u \in Tasks : phase'[u] = IF u = t THEN "running" ELSE phase[u]
      BY <2>1 DEF IInv, TypeOK, Phases
    <2>3. /\ occupyingSlot' \in [Tasks -> BOOLEAN]
          /\ \A u \in Tasks : occupyingSlot'[u] = IF u = t THEN TRUE ELSE occupyingSlot[u]
      BY <2>1 DEF IInv, TypeOK
    <2>4. Holders' = Holders
      BY <1>1, <2>2, <2>3 DEF Holders
    <2>5. TypeOK' /\ SlotsAccounted' /\ Distinct(pending)'
      BY <1>1, <2>1, <2>2, <2>3, <2>4 DEF IInv, TypeOK, Distinct, SlotsAccounted
    <2>6. Exact(pending, phase)' /\ Marked(phase, occupyingSlot)'
      BY <1>1, <2>1, <2>2, <2>3 DEF IInv, Exact, Marked
    <2>7. /\ AbandonedHoldsNothing'
          /\ \A u \in Tasks : abandoned'[u] => phase'[u] \notin {"new", "pending"}
          /\ \A u \in Tasks : phase'[u] \in {"cancelled", "settling", "finished"} => settled'[u]
          /\ pending' # <<>> => executing' >= 1
      BY <1>1, <1>3, <2>1, <2>2, <2>3 DEF IInv, AbandonedHoldsNothing
    <2>8. QED
      BY <2>5, <2>6, <2>7 DEF IInv
  <1>4. QED
    BY <1>2, <1>3

LEMMA SettleKeeps == ASSUME IInv, NEW t \in Tasks, Settle(t) PROVE IInv'
  <1>1. /\ phase' \in [Tasks -> Phases]
        /\ \A u \in Tasks : phase'[u] = IF u = t THEN "settling" ELSE phase[u]
    BY DEF Settle, IInv, TypeOK, Phases
  <1>2. /\ settled' \in [Tasks -> BOOLEAN]
        /\ \A u \in Tasks : settled'[u] = IF u = t THEN TRUE ELSE settled[u]
    BY DEF Settle, IInv, TypeOK
  <1>3. phase[t] = "running" /\ UNCHANGED <<pending, executing, maxExecuting, occupyingSlot, abandoned>>
    BY DEF Settle
  <1>4. Holders' = Holders
    BY <1>1, <1>3 DEF Holders
  <1>5. TypeOK' /\ SlotsAccounted' /\ Distinct(pending)'
    BY <1>1, <1>2, <1>3, <1>4 DEF IInv, TypeOK, Distinct, SlotsAccounted
  <1>6. Exact(pending, phase)' /\ Marked(phase, occupyingSlot)'
    BY <1>1, <1>3 DEF IInv, Exact, Marked
  <1>7. /\ AbandonedHoldsNothing'
        /\ \A u \in Tasks : abandoned'[u] => phase'[u] \notin {"new", "pending"}
        /\ \A u \in Tasks : phase'[u] \in {"cancelled", "settling", "finished"} => settled'[u]
        /\ pending' # <<>> => executing' >= 1
    BY <1>1, <1>2, <1>3 DEF IInv, AbandonedHoldsNothing
  <1>8. QED
    BY <1>5, <1>6, <1>7 DEF IInv

LEMMA FinishKeeps == ASSUME IInv, NEW t \in Tasks, Finish(t) PROVE IInv'
  <1>1. phase[t] = "settling" /\ settled[t] /\ UNCHANGED <<maxExecuting, abandoned, settled>>
    BY DEF Finish, IInv
  <1>2. CASE occupyingSlot[t]
    <2>1. ReleaseSlot(t, "finished") /\ t \in Holders
      BY <1>2 DEF Finish, Holders
    <2>2. QED
      BY <1>1, <2>1, ReleaseKeeps DEF Phases, IInv, TypeOK
  <1>3. CASE ~occupyingSlot[t]
    <2> DEFINE ph == [phase EXCEPT ![t] = "finished"]
    <2>1. t \notin Holders
      BY <1>1, <1>3 DEF Holders
    <2>2. FlushPre(pending, executing, ph, occupyingSlot)
      BY <1>1, <2>1, PassingPre
    <2>3. Flush(pending, executing, ph, occupyingSlot)
      BY <1>3 DEF Finish
    <2>4. \A u \in Tasks : ph[u] = IF u = t THEN "finished" ELSE phase[u]
      BY DEF IInv, TypeOK
    <2>5. /\ \A u \in Tasks : abandoned'[u] => ~occupyingSlot[u] /\ ph[u] \notin {"new", "pending"}
          /\ \A u \in Tasks : ph[u] \in {"cancelled", "settling", "finished"} => settled'[u]
      BY <1>1, <2>4 DEF IInv, AbandonedHoldsNothing
    <2>6. abandoned' \in [Tasks -> BOOLEAN] /\ settled' \in [Tasks -> BOOLEAN]
      BY <1>1 DEF IInv, TypeOK
    <2> HIDE DEF ph
    <2>7. QED
      BY <1>1, <2>2, <2>3, <2>5, <2>6, FlushKeepsIInv
  <1>4. QED
    BY <1>2, <1>3

LEMMA AbandonKeeps == ASSUME IInv, NEW t \in Tasks, Abandon(t) PROVE IInv'
  <1>1. /\ abandoned' \in [Tasks -> BOOLEAN] /\ settled' \in [Tasks -> BOOLEAN]
        /\ \A u \in Tasks : abandoned'[u] = IF u = t THEN TRUE ELSE abandoned[u]
        /\ \A u \in Tasks : settled'[u] = IF u = t THEN TRUE ELSE settled[u]
    BY DEF Abandon, IInv, TypeOK
  <1>2. phase[t] \notin {"new", "pending", "cancelled", "finished"} /\ maxExecuting' = maxExecuting
    BY DEF Abandon
  <1>3. CASE occupyingSlot[t]
    <2>1. ReleaseSlot(t, phase[t]) /\ t \in Holders
      BY <1>3 DEF Abandon, Holders
    <2>2. phase[t] \in {"started", "running", "settling"}
      BY <1>3 DEF IInv, Marked
    <2>3. QED
      BY <1>1, <1>2, <2>1, <2>2, ReleaseKeeps DEF Phases
  <1>4. CASE ~occupyingSlot[t]
    <2>1. UNCHANGED <<pending, executing, phase, occupyingSlot>>
      BY <1>4 DEF Abandon
    <2>2. Holders' = Holders
      BY <2>1 DEF Holders
    <2>3. TypeOK' /\ SlotsAccounted' /\ Distinct(pending)'
      BY <1>1, <1>2, <2>1, <2>2 DEF IInv, TypeOK, Distinct, SlotsAccounted
    <2>4. Exact(pending, phase)' /\ Marked(phase, occupyingSlot)'
      BY <2>1 DEF IInv, Exact, Marked
    <2>5. /\ AbandonedHoldsNothing'
          /\ \A u \in Tasks : abandoned'[u] => phase'[u] \notin {"new", "pending"}
          /\ \A u \in Tasks : phase'[u] \in {"cancelled", "settling", "finished"} => settled'[u]
          /\ pending' # <<>> => executing' >= 1
      BY <1>1, <1>2, <1>4, <2>1 DEF IInv, AbandonedHoldsNothing
    <2>6. QED
      BY <2>3, <2>4, <2>5 DEF IInv
  <1>5. QED
    BY <1>3, <1>4 DEF IInv, TypeOK

(* A queue from which one entry was taken out. *)
LEMMA RemovalExact ==
  ASSUME NEW q \in Seq(Tasks), Distinct(q), NEW i \in 1..Len(q)
  PROVE  /\ RemoveAt(q, i) \in Seq(Tasks)
         /\ Distinct(RemoveAt(q, i))
         /\ \A u \in Tasks : (\E j \in 1..Len(RemoveAt(q, i)) : RemoveAt(q, i)[j] = u)
                             <=> (\E j \in 1..Len(q) : q[j] = u) /\ u # q[i]
  <1> DEFINE r == RemoveAt(q, i)
             before == SubSeq(q, 1, i - 1)
             after == SubSeq(q, i + 1, Len(q))
  <1>1. Len(q) \in Nat /\ Len(q) - 1 \in Nat /\ i \in Nat /\ 1 <= i /\ i <= Len(q)
    OBVIOUS
  <1>2. /\ before \in Seq(Tasks) /\ Len(before) = i - 1
        /\ \A j \in 1..(i - 1) : before[j] = q[j]
    BY <1>1
  <1>3. /\ after \in Seq(Tasks) /\ Len(after) = Len(q) - i
        /\ \A j \in 1..(Len(q) - i) : after[j] = q[i + j]
    BY <1>1
  <1>4. r = before \o after
    BY DEF RemoveAt
  <1> HIDE DEF r, before, after
  <1>5. /\ r \in Seq(Tasks) /\ Len(r) = Len(q) - 1
        /\ \A j \in 1..Len(r) : r[j] = IF j < i THEN q[j] ELSE q[j + 1]
    <2>1. r \in Seq(Tasks) /\ Len(r) = Len(q) - 1
      BY <1>1, <1>2, <1>3, <1>4
    <2>2. ASSUME NEW j \in 1..Len(r) PROVE r[j] = IF j < i THEN q[j] ELSE q[j + 1]
      <3>1. CASE j < i
        BY <3>1, <2>1, <1>1, <1>2, <1>3, <1>4
      <3>2. CASE ~(j < i)
        <4>1. j - (i - 1) \in 1..(Len(q) - i) /\ i + (j - (i - 1)) = j + 1
          BY <3>2, <2>1, <1>1
        <4>2. r[j] = after[j - (i - 1)]
          BY <3>2, <4>1, <2>1, <1>1, <1>2, <1>3, <1>4
        <4>3. QED
          BY <3>2, <4>1, <4>2, <1>3
      <3>3. QED
        BY <3>1, <3>2
    <2>3. QED
      BY <2>1, <2>2
  <1>6. Distinct(r)
    <2> SUFFICES ASSUME NEW j \in 1..Len(r), NEW k \in 1..Len(r), r[j] = r[k] PROVE j = k
      BY DEF Distinct
    <2> DEFINE old(m) == IF m < i THEN m ELSE m + 1
    <2>1. old(j) \in 1..Len(q) /\ old(k) \in 1..Len(q)
      BY <1>1, <1>5
    <2>2. r[j] = q[old(j)] /\ r[k] = q[old(k)]
      BY <1>5
    <2>3. old(j) = old(k)
      BY <2>1, <2>2 DEF Distinct
    <2>4. QED
      BY <2>3, <1>1
  <1>7. ASSUME NEW u \in Tasks
        PROVE  (\E j \in 1..Len(r) : r[j] = u) <=> (\E j \in 1..Len(q) : q[j] = u) /\ u # q[i]
    <2>1. ASSUME NEW j \in 1..Len(r), r[j] = u
          PROVE  (\E k \in 1..Len(q) : q[k] = u) /\ u # q[i]
      <3>1. PICK k \in 1..Len(q) : k # i /\ q[k] = u
        <4>1. CASE j < i
          BY <4>1, <2>1, <1>1, <1>5
        <4>2. CASE ~(j < i)
          <5>1. j + 1 \in 1..Len(q) /\ j + 1 # i /\ q[j + 1] = u
            BY <4>2, <2>1, <1>1, <1>5
          <5>2. QED BY <5>1
        <4>3. QED
          BY <4>1, <4>2
      <3>2. QED
        BY <3>1 DEF Distinct
    <2>2. ASSUME NEW k \in 1..Len(q), q[k] = u, u # q[i]
          PROVE  \E j \in 1..Len(r) : r[j] = u
      <3>1. CASE k < i
        BY <3>1, <2>2, <1>1, <1>5
      <3>2. CASE k > i
        <4>1. k - 1 \in 1..Len(r) /\ ~(k - 1 < i) /\ (k - 1) + 1 = k
          BY <3>2, <1>1, <1>5
        <4>2. QED BY <4>1, <2>2, <1>5
      <3>3. QED
        BY <3>1, <3>2, <2>2, <1>1
    <2>3. QED
      BY <2>1, <2>2
  <1>8. QED
    BY <1>5, <1>6, <1>7 DEF r

LEMMA CancelKeeps == ASSUME IInv, NEW t \in Tasks, Cancel(t) PROVE IInv'
  <1>1. /\ phase' \in [Tasks -> Phases]
        /\ \A u \in Tasks : phase'[u] = IF u = t THEN "cancelled" ELSE phase[u]
    BY DEF Cancel, IInv, TypeOK, Phases
  <1>2. /\ settled' \in [Tasks -> BOOLEAN]
        /\ \A u \in Tasks : settled'[u] = IF u = t THEN TRUE ELSE settled[u]
    BY DEF Cancel, IInv, TypeOK
  <1>3. phase[t] = "pending" /\ UNCHANGED <<executing, maxExecuting, occupyingSlot, abandoned>>
    BY DEF Cancel
  <1>4. PICK i \in 1..Len(pending) : pending[i] = t /\ pending' = RemoveAt(pending, i)
    BY Zenon DEF Cancel
  <1>5. pending \in Seq(Tasks) /\ Distinct(pending) /\ pending # <<>>
    BY <1>4, EmptySeq DEF IInv, TypeOK
  <1> DEFINE r == RemoveAt(pending, i)
  <1>6. /\ r \in Seq(Tasks)
        /\ Distinct(r)
        /\ \A u \in Tasks : (\E j \in 1..Len(r) : r[j] = u)
                            <=> (\E j \in 1..Len(pending) : pending[j] = u) /\ u # pending[i]
    BY <1>5, RemovalExact
  <1>7. pending' = r
    BY <1>4
  <1> HIDE DEF r
  <1>8. Holders' = Holders
    BY <1>1, <1>3 DEF Holders
  <1>9. TypeOK' /\ SlotsAccounted' /\ Distinct(pending')
    BY <1>1, <1>2, <1>3, <1>6, <1>7, <1>8 DEF IInv, TypeOK, SlotsAccounted
  <1>10. Exact(pending', phase')
    BY <1>1, <1>4, <1>6, <1>7 DEF IInv, Exact
  <1>11. Marked(phase', occupyingSlot') /\ AbandonedHoldsNothing'
    BY <1>1, <1>3 DEF IInv, Marked, AbandonedHoldsNothing
  <1>12. /\ \A u \in Tasks : abandoned'[u] => phase'[u] \notin {"new", "pending"}
         /\ \A u \in Tasks : phase'[u] \in {"cancelled", "settling", "finished"} => settled'[u]
         /\ pending' # <<>> => executing' >= 1
    BY <1>1, <1>2, <1>3, <1>5 DEF IInv
  <1>13. QED
    BY <1>9, <1>10, <1>11, <1>12 DEF IInv, Distinct, Exact, Marked

LEMMA ConfigureKeeps == ASSUME IInv, NEW n \in Limits, Configure(n) PROVE IInv'
  <1>1. maxExecuting' = n /\ UNCHANGED <<phase, pending, executing, occupyingSlot, abandoned, settled>>
    BY DEF Configure
  <1>2. TypeOK' /\ Holders' = Holders
    BY <1>1 DEF IInv, TypeOK, Holders
  <1>3. QED
    BY <1>1, <1>2 DEF IInv, Distinct, Exact, Marked, AbandonedHoldsNothing, SlotsAccounted

-----------------------------------------------------------------------------
LEMMA StepIInv == IInv /\ [Next]_vars => IInv'
  <1> SUFFICES ASSUME IInv, [Next]_vars PROVE IInv'
    OBVIOUS
  <1>1. ASSUME NEW t \in Tasks,
               \/ RunTask(t) \/ EndSuspend(t) \/ Resume(t) \/ Settle(t) \/ Finish(t)
               \/ Enqueue(t) \/ BeginSuspend(t) \/ Cancel(t) \/ Abandon(t)
        PROVE  IInv'
    BY <1>1, RunTaskKeeps, EndSuspendKeeps, ResumeKeeps, SettleKeeps, FinishKeeps,
       EnqueueKeeps, BeginSuspendKeeps, CancelKeeps, AbandonKeeps
  <1>2. ASSUME NEW n \in Limits, Configure(n) PROVE IInv'
    BY <1>2, ConfigureKeeps
  <1>3. CASE UNCHANGED vars
    <2>1. UNCHANGED <<phase, pending, executing, maxExecuting, occupyingSlot, abandoned, settled>>
      BY <1>3 DEF vars
    <2>2. TypeOK' /\ Holders' = Holders
      BY <2>1 DEF IInv, TypeOK, Holders
    <2>3. QED
      BY <2>1, <2>2 DEF IInv, Distinct, Exact, Marked, AbandonedHoldsNothing, SlotsAccounted
  <1>4. QED
    BY <1>1, <1>2, <1>3 DEF Next, TaskStep

THEOREM Invariance == Spec => []IInv
  BY InitIInv, StepIInv, PTL DEF Spec

(* The state of the queue has its type in every reachable state. *)
THEOREM TypeCorrect == Spec => []TypeOK
  <1>1. IInv => TypeOK
    BY DEF IInv
  <1>2. QED
    BY <1>1, Invariance, PTL

(* The counter this.executing is the number of slots held, through every   *)
(* interleaving of start, suspension, cancellation, abandonment and end.   *)
THEOREM SlotAccounting == Spec => []SlotsAccounted
  <1>1. IInv => SlotsAccounted
    BY DEF IInv
  <1>2. QED
    BY <1>1, Invariance, PTL

(* While a callback waits, somebody holds a slot and will flush. *)
THEOREM NoWakeupLost == Spec => []NoLostWakeup
  <1>1. IInv => NoLostWakeup
    <2> SUFFICES ASSUME IInv, pending # <<>>, Holders = {} PROVE FALSE
      BY DEF NoLostWakeup
    <2>1. executing = 0
      BY FS_EmptySet DEF IInv, SlotsAccounted
    <2>2. QED
      BY <2>1 DEF IInv
  <1>2. QED
    BY <1>1, Invariance, PTL

(* An abandoned task occupies no slot. *)
THEOREM AbandonedReleases == Spec => []AbandonedHoldsNothing
  <1>1. IInv => AbandonedHoldsNothing
    BY DEF IInv
  <1>2. QED
    BY <1>1, Invariance, PTL

(* A cancelled or finished task neither holds nor awaits a slot. *)
THEOREM FinishedReleases == Spec => []FinishedHoldsNothing
  <1>1. IInv => FinishedHoldsNothing
    BY DEF IInv, TypeOK, FinishedHoldsNothing, Marked, Exact, Holders, Range
  <1>2. QED
    BY <1>1, Invariance, PTL

-----------------------------------------------------------------------------
(* The instance counts its holders with the same operator.               *)
LEMMA PoolCardinality == \A S : Pool!Cardinality(S) = Cardinality(S)
  BY DEF Cardinality, Pool!Cardinality

(* flush() is the Grant of the abstract pool, and stays within the limit   *)
(* whenever it lets somebody in.                                           *)
LEMMA FlushGrants ==
  ASSUME NEW q, NEW exec, NEW ph, NEW occ,
         FlushPre(q, exec, ph, occ), Flush(q, exec, ph, occ), maxExecuting' = maxExecuting
  PROVE  /\ Pool!Grant(HoldersOf(ph, occ), q)
         /\ \/ Holders' \subseteq HoldersOf(ph, occ)
            \/ Cardinality(Holders') <= maxExecuting'
  <1>1. PICK n \in 0..Len(q) : FlushPost(q, exec, ph, occ, n)
    BY FlushMoves
  <1>2. Holders' = HoldersOf(phase', occupyingSlot')
    BY DEF Holders, HoldersOf
  <1>3. /\ Holders' = HoldersOf(ph, occ) \cup Prefix(q, n)
        /\ executing' = Cardinality(Holders')
    BY <1>1, <1>2, FlushAccounts
  <1>4. exec = Cardinality(HoldersOf(ph, occ))
    BY DEF FlushPre
  <1>5. Pool!Grant(HoldersOf(ph, occ), q)
    <2>1. n = 0 \/ Cardinality(HoldersOf(ph, occ)) + n <= maxExecuting
      BY <1>1, <1>4 DEF FlushPost
    <2>2. n = Len(q) \/ Cardinality(HoldersOf(ph, occ)) + n >= maxExecuting
      BY <1>1, <1>4 DEF FlushPost
    <2>3. /\ Holders' = HoldersOf(ph, occ) \cup {q[i] : i \in 1..n}
          /\ pending' = SubSeq(q, n + 1, Len(q))
      BY <1>1, <1>3 DEF FlushPost, Prefix
    <2>4. QED
      BY <2>1, <2>2, <2>3, PoolCardinality DEF Pool!Grant
  <1>6. n = 0 => Prefix(q, n) = {}
    BY DEF Prefix
  <1>7. QED
    BY <1>1, <1>3, <1>5, <1>6 DEF FlushPost

(* What a step does to the pool. *)
PoolStep ==
  /\ Pool!Next \/ UNCHANGED <<Holders, pending, maxExecuting>>
  /\ Holders' \subseteq Holders \/ Cardinality(Holders') <= maxExecuting'

LEMMA StutterInPool ==
  ASSUME UNCHANGED <<Holders, pending, maxExecuting>> PROVE PoolStep
  BY DEF PoolStep

LEMMA RequestInPool ==
  ASSUME IInv, NEW t \in Tasks, phase[t] \in {"new", "suspended"},
         NEW p \in {"pending", "acquiring"}, maxExecuting' = maxExecuting,
         Flush(Append(pending, t), executing, [phase EXCEPT ![t] = p], occupyingSlot)
  PROVE  PoolStep
  <1> DEFINE ph == [phase EXCEPT ![t] = p]
  <1>1. FlushPre(Append(pending, t), executing, ph, occupyingSlot)
    BY RequestPre
  <1>2. \A u \in Tasks : ph[u] = IF u = t THEN p ELSE phase[u]
    BY DEF IInv, TypeOK
  <1> HIDE DEF ph
  <1>3. HoldersOf(ph, occupyingSlot) = Holders
    BY <1>2 DEF HoldersOf, Holders
  <1>4. /\ Pool!Grant(Holders, Append(pending, t))
        /\ Holders' \subseteq Holders \/ Cardinality(Holders') <= maxExecuting'
    BY <1>1, <1>3, FlushGrants DEF ph
  <1>5. t \notin Holders /\ t \notin Range(pending)
    BY DEF IInv, TypeOK, Exact, Marked, Holders, Range
  <1>6. Pool!Request(t)
    BY <1>4, <1>5, Zenon DEF Pool!Request, Range, Pool!Range
  <1>7. QED
    BY <1>4, <1>6 DEF PoolStep, Pool!Next

LEMMA ReleaseInPool ==
  ASSUME IInv, NEW t \in Tasks, t \in Holders, maxExecuting' = maxExecuting,
         NEW p \in Phases \ {"pending", "acquiring", "granted"}, ReleaseSlot(t, p)
  PROVE  PoolStep
  <1> DEFINE ph == [phase EXCEPT ![t] = p]
             occ == [occupyingSlot EXCEPT ![t] = FALSE]
  <1>1. FlushPre(pending, executing - 1, ph, occ) /\ HoldersOf(ph, occ) = Holders \ {t}
    BY ReleasePre
  <1>2. Flush(pending, executing - 1, ph, occ)
    BY DEF ReleaseSlot
  <1> HIDE DEF ph, occ
  <1>3. /\ Pool!Grant(Holders \ {t}, pending)
        /\ Holders' \subseteq Holders \ {t} \/ Cardinality(Holders') <= maxExecuting'
    BY <1>1, <1>2, FlushGrants
  <1>4. Pool!Release(t)
    BY <1>3 DEF Pool!Release
  <1>5. QED
    BY <1>3, <1>4 DEF PoolStep, Pool!Next

LEMMA TaskInPool == ASSUME IInv, NEW t \in Tasks, TaskStep(t) PROVE PoolStep
  <1> USE DEF Phases
  <1>0. phase \in [Tasks -> Phases] /\ occupyingSlot \in [Tasks -> BOOLEAN]
    BY DEF IInv, TypeOK
  <1>1. CASE RunTask(t)
    <2>1. UNCHANGED <<Holders, pending, maxExecuting>>
      BY <1>0, <1>1 DEF RunTask, Holders
    <2>2. QED BY <2>1, StutterInPool
  <1>2. CASE EndSuspend(t)
    <2>1. CASE abandoned[t]
      <3>1. UNCHANGED <<Holders, pending, maxExecuting>>
        BY <1>0, <1>2, <2>1 DEF EndSuspend, Holders
      <3>2. QED BY <3>1, StutterInPool
    <2>2. CASE ~abandoned[t]
      BY <1>2, <2>2, RequestInPool DEF EndSuspend
    <2>3. QED BY <2>1, <2>2
  <1>3. CASE Resume(t)
    <2>1. CASE abandoned[t]
      BY <1>3, <2>1, ReleaseInPool DEF Resume, Holders
    <2>2. CASE ~abandoned[t]
      <3>1. UNCHANGED <<Holders, pending, maxExecuting>>
        BY <1>0, <1>3, <2>2 DEF Resume, Holders
      <3>2. QED BY <3>1, StutterInPool
    <2>3. QED BY <2>1, <2>2
  <1>4. CASE Settle(t)
    <2>1. UNCHANGED <<Holders, pending, maxExecuting>>
      BY <1>0, <1>4 DEF Settle, Holders
    <2>2. QED BY <2>1, StutterInPool
  <1>5. CASE Finish(t)
    <2>1. CASE occupyingSlot[t]
      BY <1>5, <2>1, ReleaseInPool DEF Finish, Holders
    <2>2. CASE ~occupyingSlot[t]
      <3> DEFINE ph == [phase EXCEPT ![t] = "finished"]
      <3>1. phase[t] = "settling" /\ t \notin Holders
        BY <1>5, <2>2 DEF Finish, Holders
      <3>2. FlushPre(pending, executing, ph, occupyingSlot) /\ HoldersOf(ph, occupyingSlot) = Holders
        BY <3>1, PassingPre
      <3>3. Flush(pending, executing, ph, occupyingSlot) /\ maxExecuting' = maxExecuting
        BY <1>5, <2>2 DEF Finish
      <3> HIDE DEF ph
      <3>4. /\ Pool!Grant(Holders, pending)
            /\ Holders' \subseteq Holders \/ Cardinality(Holders') <= maxExecuting'
        BY <3>2, <3>3, FlushGrants
      <3>5. QED
        BY <3>4 DEF PoolStep, Pool!Next, Pool!Refill
    <2>3. QED BY <2>1, <2>2
  <1>6. QED
    BY <1>1, <1>2, <1>3, <1>4, <1>5 DEF TaskStep

LEMMA CallerInPool ==
  ASSUME IInv, NEW t \in Tasks, Enqueue(t) \/ BeginSuspend(t) \/ Cancel(t) \/ Abandon(t)
  PROVE  PoolStep
  <1> USE DEF Phases
  <1>0. phase \in [Tasks -> Phases] /\ occupyingSlot \in [Tasks -> BOOLEAN]
    BY DEF IInv, TypeOK
  <1>1. CASE Enqueue(t)
    BY <1>1, RequestInPool DEF Enqueue
  <1>2. CASE BeginSuspend(t)
    BY <1>2, ReleaseInPool DEF BeginSuspend, Holders
  <1>3. CASE Cancel(t)
    <2>1. UNCHANGED <<Holders, maxExecuting>>
      BY <1>0, <1>3 DEF Cancel, Holders
    <2>2. Pool!Withdraw(t)
      BY <1>3, <2>1, Zenon DEF Cancel, Pool!Withdraw, RemoveAt, Pool!RemoveAt
    <2>3. QED
      BY <2>1, <2>2 DEF PoolStep, Pool!Next
  <1>4. CASE Abandon(t)
    <2>1. CASE occupyingSlot[t]
      <3>1. phase[t] \in {"started", "running", "settling"} /\ t \in Holders
        BY <2>1 DEF IInv, Marked, Holders
      <3>2. ReleaseSlot(t, phase[t]) /\ maxExecuting' = maxExecuting
        BY <1>4, <2>1 DEF Abandon
      <3>3. QED
        BY <3>1, <3>2, ReleaseInPool
    <2>2. CASE ~occupyingSlot[t]
      <3>1. UNCHANGED <<Holders, pending, maxExecuting>>
        BY <1>4, <2>2 DEF Abandon, Holders
      <3>2. QED BY <3>1, StutterInPool
    <2>3. QED BY <2>1, <2>2
  <1>5. QED
    BY <1>1, <1>2, <1>3, <1>4

LEMMA NextInPool == IInv /\ [Next]_vars => PoolStep
  <1> SUFFICES ASSUME IInv, [Next]_vars PROVE PoolStep
    OBVIOUS
  <1>1. ASSUME NEW t \in Tasks,
               TaskStep(t) \/ Enqueue(t) \/ BeginSuspend(t) \/ Cancel(t) \/ Abandon(t)
        PROVE  PoolStep
    BY <1>1, TaskInPool, CallerInPool
  <1>2. ASSUME NEW n \in Limits, Configure(n) PROVE PoolStep
    <2>1. UNCHANGED <<Holders, pending>> /\ maxExecuting' = n
      BY <1>2 DEF Configure, Holders
    <2>2. Pool!Resize(n)
      BY <2>1 DEF Pool!Resize
    <2>3. QED
      BY <2>1, <2>2 DEF PoolStep, Pool!Next
  <1>3. CASE UNCHANGED vars
    <2>1. UNCHANGED <<Holders, pending, maxExecuting>>
      BY <1>3 DEF vars, Holders
    <2>2. QED BY <2>1, StutterInPool
  <1>4. QED
    BY <1>1, <1>2, <1>3 DEF Next

(* Nobody moves into a slot beyond the limit of that moment. *)
THEOREM AdmissionWithinLimit == Spec => AdmitsWithinLimit
  <1>1. IInv /\ [Next]_vars
          => [Holders' \subseteq Holders \/ Cardinality(Holders') <= maxExecuting']_vars
    BY NextInPool DEF PoolStep
  <1>2. QED
    BY <1>1, Invariance, PTL DEF Spec, AdmitsWithinLimit

(* The queue implements the pool of slots handed out in FIFO order. *)
THEOREM QueueImplementsSlotPool == Spec => ImplementsSlotPool
  <1>1. Init => Pool!Init
    BY DEF Init, Pool!Init, Holders
  <1>2. IInv /\ [Next]_vars => [Pool!Next]_(Pool!poolVars)
    BY NextInPool DEF PoolStep, Pool!poolVars
  <1>3. QED
    BY <1>1, <1>2, Invariance, PTL DEF Spec, ImplementsSlotPool, Pool!Spec

-----------------------------------------------------------------------------

(* A step of the tree is one of the queue, or changes nothing there. *)
LEMMA DelegationStepIsQueueStep == [DelegationNext]_delegationVars => [Next]_vars
  <1> SUFFICES ASSUME [DelegationNext]_delegationVars PROVE [Next]_vars
    OBVIOUS
  <1>1. ASSUME NEW t \in Tasks, GenerationStep(t) PROVE [Next]_vars
    BY <1>1 DEF GenerationStep, QueueStep, YieldingJoinEnds, HoldingJoinEnds, Complete,
                Next, TaskStep
  <1>2. ASSUME NEW t \in Tasks, Spawn(t) \/ CancelGeneration(t) \/ AbandonGeneration(t)
        PROVE  [Next]_vars
    BY <1>2 DEF Spawn, CancelGeneration, AbandonGeneration, Next
  <1>3. ASSUME NEW p \in Tasks, NEW T, Join(p, T) \/ JoinAlongside(p, T) PROVE [Next]_vars
    BY <1>3 DEF Join, JoinAlongside, Next
  <1>4. ASSUME NEW n \in Limits, Configure(n) PROVE [Next]_vars
    BY <1>4 DEF Next
  <1>5. CASE UNCHANGED delegationVars
    BY <1>5 DEF delegationVars
  <1> QED BY <1>1, <1>2, <1>3, <1>4, <1>5 DEF DelegationNext

LEMMA QueueInvariance == DelegationSpec => []IInv
  <1>1. DelegationInit => Init
    BY DEF DelegationInit
  <1> QED BY <1>1, InitIInv, StepIInv, DelegationStepIsQueueStep, PTL DEF DelegationSpec

(* No path through joins, cancels and abandonments loses or frees a slot   *)
(* twice.                                                                  *)
THEOREM DelegationSlots == DelegationSpec => []SlotsAccounted
  <1>1. IInv => SlotsAccounted
    BY DEF IInv
  <1> QED BY <1>1, QueueInvariance, PTL

(* Under joins, too, slots are handed out in the order of the requests. *)
THEOREM DelegationImplementsSlotPool == DelegationSpec => ImplementsSlotPool
  <1>1. DelegationInit => Pool!Init
    BY DEF DelegationInit, Init, Pool!Init, Holders
  <1>2. IInv /\ [Next]_vars => [Pool!Next]_(Pool!poolVars)
    BY NextInPool DEF PoolStep, Pool!poolVars
  <1> QED
    BY <1>1, <1>2, QueueInvariance, DelegationStepIsQueueStep, PTL
    DEF DelegationSpec, ImplementsSlotPool, Pool!Spec

-----------------------------------------------------------------------------
(* Types.                                                                  *)

JoinTypes ==
  /\ done \in [Tasks -> BOOLEAN]
  /\ yielding \in [Tasks -> SUBSET Tasks]
  /\ holding \in [Tasks -> SUBSET Tasks]

LEMMA JoinTypesKept ==
  ASSUME JoinTypes, [DelegationNext]_delegationVars
  PROVE  JoinTypes'
  <1> USE DEF JoinTypes
  <1>1. ASSUME NEW t \in Tasks, GenerationStep(t) PROVE JoinTypes'
    BY <1>1 DEF GenerationStep, QueueStep, YieldingJoinEnds, HoldingJoinEnds, Complete, joinVars
  <1>2. ASSUME NEW t \in Tasks, Spawn(t) \/ CancelGeneration(t) \/ AbandonGeneration(t)
        PROVE  JoinTypes'
    BY <1>2 DEF Spawn, CancelGeneration, AbandonGeneration, joinVars
  <1>3. ASSUME NEW p \in Tasks, NEW T \in SUBSET Tasks, Join(p, T) \/ JoinAlongside(p, T)
        PROVE  JoinTypes'
    BY <1>3 DEF Join, JoinAlongside
  <1>4. CASE UNCHANGED joinVars
    BY <1>4 DEF joinVars
  <1>5. \A p \in Tasks : \A T \in SUBSET (Children(p) \cap Enqueued) \ {{}} : T \in SUBSET Tasks
    BY DEF Children
  <1> QED BY <1>1, <1>2, <1>3, <1>4, <1>5 DEF DelegationNext, delegationVars

(* What each task's joins wait for, and which generations are done, keep   *)
(* their types.                                                            *)
THEOREM DelegationTypeCorrect == DelegationSpec => []DelegationTypeOK
  <1>1. DelegationInit => JoinTypes
    BY DEF DelegationInit, JoinTypes
  <1>2. IInv /\ JoinTypes => DelegationTypeOK
    BY DEF IInv, JoinTypes, DelegationTypeOK
  <1> QED BY <1>1, <1>2, JoinTypesKept, QueueInvariance, PTL DEF DelegationSpec

-----------------------------------------------------------------------------
(* Who waits has no slot.                                                  *)

(* Only the end of its own join wakes a suspended task. *)
LEMMA FlushKeepsSuspended ==
  ASSUME NEW q, NEW exec, NEW ph, NEW occ, FlushPre(q, exec, ph, occ), Flush(q, exec, ph, occ),
         NEW u \in Tasks, ph[u] = "suspended"
  PROVE  phase'[u] = "suspended"
  <1>1. PICK n \in 0..Len(q) : FlushPost(q, exec, ph, occ, n)
    BY FlushMoves
  <1> QED BY <1>1 DEF FlushPost

LEMMA ReleaseKeepsSuspended ==
  ASSUME IInv, NEW t \in Tasks, t \in Holders,
         NEW p \in Phases \ {"pending", "acquiring", "granted"}, ReleaseSlot(t, p),
         NEW u \in Tasks, [phase EXCEPT ![t] = p][u] = "suspended"
  PROVE  phase'[u] = "suspended"
BY ReleasePre, FlushKeepsSuspended DEF ReleaseSlot

LEMMA StaysSuspended ==
  ASSUME IInv, NEW t \in Tasks, NEW u \in Tasks, phase[u] = "suspended",
         \/ RunTask(t) \/ Resume(t) \/ Settle(t) \/ Finish(t)
         \/ Enqueue(t) \/ BeginSuspend(t) \/ Cancel(t) \/ Abandon(t)
         \/ EndSuspend(t) /\ u # t
  PROVE  phase'[u] = "suspended"
  <1>t. phase \in [Tasks -> Phases]
    BY DEF IInv, TypeOK
  <1>1. CASE RunTask(t) \/ Settle(t) \/ Cancel(t)
    BY <1>1, <1>t DEF RunTask, Settle, Cancel
  <1>2. CASE Resume(t)
    <2>1. t \in Holders /\ u # t
      BY <1>2 DEF Resume, Holders
    <2> QED BY <1>2, <1>t, <2>1, ReleaseKeepsSuspended DEF Resume, Phases
  <1>3. CASE Finish(t)
    <2>1. u # t /\ [phase EXCEPT ![t] = "finished"][u] = "suspended"
      BY <1>3, <1>t DEF Finish
    <2>2. CASE occupyingSlot[t]
      BY <1>3, <2>1, <2>2, ReleaseKeepsSuspended DEF Finish, Phases, Holders
    <2>3. CASE ~occupyingSlot[t]
      <3>1. t \notin Holders /\ phase[t] = "settling"
        BY <1>3, <2>3 DEF Finish, Holders
      <3> QED BY <1>3, <2>1, <2>3, <3>1, PassingPre, FlushKeepsSuspended DEF Finish
    <2> QED BY <2>2, <2>3
  <1>4. CASE Enqueue(t)
    <2>1. u # t /\ [phase EXCEPT ![t] = "pending"][u] = "suspended"
      BY <1>4, <1>t DEF Enqueue
    <2> QED BY <1>4, <2>1, RequestPre, FlushKeepsSuspended DEF Enqueue
  <1>5. CASE BeginSuspend(t)
    <2>1. t \in Holders /\ [phase EXCEPT ![t] = "suspended"][u] = "suspended"
      BY <1>5, <1>t DEF BeginSuspend, Holders
    <2> QED BY <1>5, <2>1, ReleaseKeepsSuspended DEF BeginSuspend, Phases
  <1>6. CASE Abandon(t)
    <2>1. [phase EXCEPT ![t] = phase[t]][u] = "suspended"
      BY <1>t
    <2>2. CASE occupyingSlot[t]
      <3>1. t \in Holders /\ phase[t] \in Phases \ {"pending", "acquiring", "granted"}
        BY <2>2, <1>t DEF Holders, IInv, Marked
      <3> QED BY <1>6, <2>1, <2>2, <3>1, ReleaseKeepsSuspended DEF Abandon
    <2> QED BY <1>6, <2>2 DEF Abandon
  <1>7. CASE EndSuspend(t) /\ u # t
    <2>1. \A p \in Phases : [phase EXCEPT ![t] = p][u] = "suspended"
      BY <1>7, <1>t
    <2>2. CASE abandoned[t]
      BY <1>7, <1>t, <2>2 DEF EndSuspend
    <2>3. CASE ~abandoned[t]
      <3> DEFINE ph == [phase EXCEPT ![t] = "acquiring"]
      <3>1. ph[u] = "suspended"
        BY <2>1 DEF Phases
      <3>2. Flush(Append(pending, t), executing, ph, occupyingSlot) /\ phase[t] = "suspended"
        BY <1>7, <2>3 DEF EndSuspend
      <3>3. FlushPre(Append(pending, t), executing, ph, occupyingSlot)
        BY <3>2, RequestPre
      <3> HIDE DEF ph
      <3> QED BY <3>1, <3>2, <3>3, FlushKeepsSuspended
    <2> QED BY <2>2, <2>3
  <1> QED BY <1>1, <1>2, <1>3, <1>4, <1>5, <1>6, <1>7

LEMMA BeginSuspendSuspends ==
  ASSUME IInv, NEW t \in Tasks, BeginSuspend(t)
  PROVE  phase'[t] = "suspended"
  <1>1. t \in Holders /\ [phase EXCEPT ![t] = "suspended"][t] = "suspended"
    BY DEF BeginSuspend, Holders, IInv, TypeOK
  <1> QED BY <1>1, ReleaseKeepsSuspended DEF BeginSuspend, Phases

(* A join that suspended the lease lasts as long as the suspension, only a *)
(* generation that is done is abandoned, and with one call at a time only  *)
(* an abandoned task joins without giving its slot up.                     *)
JoinsSuspend == \A t \in Tasks : yielding[t] # {} => phase[t] = "suspended"
AbandonedIsDone == \A t \in Tasks : abandoned[t] => done[t]
HoldersAreDone == \A t \in Tasks : holding[t] # {} => done[t]

DelegationInv == JoinTypes /\ JoinsSuspend /\ AbandonedIsDone /\ (~ParallelCalls => HoldersAreDone)

(* Only abandon() marks a task as abandoned. *)
LEMMA AbandonedFrame ==
  ASSUME NEW t \in Tasks, TaskStep(t) \/ Enqueue(t) \/ BeginSuspend(t) \/ Cancel(t)
  PROVE  UNCHANGED abandoned
BY DEF TaskStep, RunTask, EndSuspend, Resume, Settle, Finish, Enqueue, BeginSuspend, Cancel

(* A step of a task that leaves the joins alone keeps what is said of them.*)
LEMMA QueueStepKeeps ==
  ASSUME IInv, DelegationInv, NEW t \in Tasks,
         \/ RunTask(t) \/ Resume(t) \/ Settle(t) \/ Finish(t) \/ Enqueue(t) \/ Cancel(t),
         UNCHANGED <<yielding, holding>>, \A u \in Tasks : done[u] => done'[u]
  PROVE  JoinsSuspend' /\ AbandonedIsDone' /\ (~ParallelCalls => HoldersAreDone')
  <1>1. JoinsSuspend'
    BY StaysSuspended DEF DelegationInv, JoinsSuspend
  <1>2. UNCHANGED abandoned
    BY AbandonedFrame DEF TaskStep
  <1> QED BY <1>1, <1>2 DEF DelegationInv, AbandonedIsDone, HoldersAreDone

LEMMA GenerationStepKeeps ==
  ASSUME IInv, DelegationInv, NEW t \in Tasks, GenerationStep(t)
  PROVE  JoinsSuspend' /\ AbandonedIsDone' /\ (~ParallelCalls => HoldersAreDone')
  <1>t. JoinTypes
    BY DEF DelegationInv
  <1>1. CASE QueueStep(t) /\ ~EndSuspend(t)
    BY <1>1, QueueStepKeeps DEF QueueStep, joinVars
  <1>2. CASE QueueStep(t) /\ EndSuspend(t)
    BY <1>2 DEF QueueStep, RunTask, Resume, Finish, EndSuspend
  <1>3. CASE YieldingJoinEnds(t)
    <2>1. /\ EndSuspend(t) /\ UNCHANGED <<done, holding, abandoned>>
          /\ yielding' = [yielding EXCEPT ![t] = {}]
      BY <1>3, AbandonedFrame DEF YieldingJoinEnds, TaskStep
    <2>2. ASSUME NEW u \in Tasks, yielding'[u] # {} PROVE phase'[u] = "suspended"
      <3>1. u # t /\ yielding[u] # {}
        BY <1>t, <2>1, <2>2 DEF JoinTypes
      <3> QED BY <2>1, <3>1, StaysSuspended DEF DelegationInv, JoinsSuspend
    <2> QED BY <2>1, <2>2 DEF DelegationInv, JoinsSuspend, AbandonedIsDone, HoldersAreDone
  <1>4. CASE HoldingJoinEnds(t)
    <2>1. /\ UNCHANGED <<phase, abandoned, done, yielding>>
          /\ \A u \in Tasks : holding'[u] # {} => holding[u] # {}
      BY <1>4, <1>t DEF HoldingJoinEnds, JoinTypes, vars
    <2> QED BY <2>1 DEF DelegationInv, JoinsSuspend, AbandonedIsDone, HoldersAreDone
  <1>5. CASE Complete(t)
    <2>1. Settle(t) /\ UNCHANGED <<yielding, holding>> /\ \A u \in Tasks : done[u] => done'[u]
      BY <1>5, <1>t DEF Complete, JoinTypes
    <2> QED BY <2>1, QueueStepKeeps
  <1> QED BY <1>1, <1>2, <1>3, <1>4, <1>5 DEF GenerationStep

LEMMA CancelKeepsJoins ==
  ASSUME IInv, DelegationInv, NEW t \in Tasks, CancelGeneration(t)
  PROVE  JoinsSuspend' /\ AbandonedIsDone' /\ (~ParallelCalls => HoldersAreDone')
  <1>1. UNCHANGED <<yielding, holding>> /\ \A u \in Tasks : done[u] => done'[u]
    BY DEF CancelGeneration, DelegationInv, JoinTypes
  <1>2. CASE phase[t] = "pending"
    BY <1>1, <1>2, QueueStepKeeps DEF CancelGeneration
  <1>3. CASE phase[t] # "pending"
    <2>1. UNCHANGED <<phase, abandoned>>
      BY <1>3 DEF CancelGeneration, vars
    <2> QED BY <1>1, <2>1 DEF DelegationInv, JoinsSuspend, AbandonedIsDone, HoldersAreDone
  <1> QED BY <1>2, <1>3

LEMMA AbandonKeepsJoins ==
  ASSUME IInv, DelegationInv, NEW t \in Tasks, AbandonGeneration(t)
  PROVE  JoinsSuspend' /\ AbandonedIsDone' /\ (~ParallelCalls => HoldersAreDone')
  <1>1. /\ done[t] /\ Abandon(t) /\ UNCHANGED <<done, yielding, holding>>
        /\ \A u \in Tasks : abandoned'[u] => u = t \/ abandoned[u]
    BY DEF AbandonGeneration, Abandon, joinVars, IInv, TypeOK
  <1>2. JoinsSuspend'
    BY <1>1, StaysSuspended DEF DelegationInv, JoinsSuspend
  <1> QED BY <1>1, <1>2 DEF DelegationInv, AbandonedIsDone, HoldersAreDone

LEMMA JoinKeeps ==
  ASSUME IInv, DelegationInv, NEW p \in Tasks, NEW T \in SUBSET Tasks,
         Join(p, T) \/ JoinAlongside(p, T)
  PROVE  JoinsSuspend' /\ AbandonedIsDone' /\ (~ParallelCalls => HoldersAreDone')
  <1>t. JoinTypes
    BY DEF DelegationInv
  <1>1. CASE Join(p, T) /\ ~abandoned[p]
    <2>1. /\ BeginSuspend(p) /\ UNCHANGED <<done, holding, abandoned>>
          /\ \A u \in Tasks : yielding'[u] # {} => u = p \/ yielding[u] # {}
      BY <1>1, <1>t, AbandonedFrame DEF Join, JoinTypes
    <2>2. JoinsSuspend'
      BY <2>1, StaysSuspended, BeginSuspendSuspends DEF DelegationInv, JoinsSuspend
    <2> QED BY <2>1, <2>2 DEF DelegationInv, AbandonedIsDone, HoldersAreDone
  <1>2. CASE Join(p, T) /\ abandoned[p]
    <2>1. /\ UNCHANGED <<phase, abandoned, done, yielding>>
          /\ \A u \in Tasks : holding'[u] # {} => u = p \/ holding[u] # {}
      BY <1>2, <1>t DEF Join, JoinTypes, vars
    <2>2. done[p]
      BY <1>2 DEF DelegationInv, AbandonedIsDone
    <2> QED BY <2>1, <2>2 DEF DelegationInv, JoinsSuspend, AbandonedIsDone, HoldersAreDone
  <1>3. CASE JoinAlongside(p, T)
    <2>1. ParallelCalls /\ UNCHANGED <<phase, abandoned, done, yielding>>
      BY <1>3 DEF JoinAlongside, vars
    <2> QED BY <2>1 DEF DelegationInv, JoinsSuspend, AbandonedIsDone
  <1> QED BY <1>1, <1>2, <1>3

LEMMA DelegationInvKept ==
  ASSUME IInv, DelegationInv, [DelegationNext]_delegationVars
  PROVE  DelegationInv'
  <1>1. JoinTypes'
    BY JoinTypesKept DEF DelegationInv
  <1>2. ASSUME NEW t \in Tasks, Spawn(t)
        PROVE  JoinsSuspend' /\ AbandonedIsDone' /\ (~ParallelCalls => HoldersAreDone')
    BY <1>2, QueueStepKeeps DEF Spawn, joinVars
  <1>3. CASE UNCHANGED <<phase, abandoned, done, yielding, holding>>
    BY <1>1, <1>3 DEF DelegationInv, JoinsSuspend, AbandonedIsDone, HoldersAreDone
  <1>4. ASSUME NEW n \in Limits, Configure(n), UNCHANGED joinVars
        PROVE  UNCHANGED <<phase, abandoned, done, yielding, holding>>
    BY <1>4 DEF Configure, joinVars
  <1>5. UNCHANGED delegationVars => UNCHANGED <<phase, abandoned, done, yielding, holding>>
    BY DEF delegationVars, vars, joinVars
  <1>6. \A p \in Tasks : \A T \in SUBSET (Children(p) \cap Enqueued) \ {{}} : T \in SUBSET Tasks
    BY DEF Children
  <1>7. CASE \E t \in Tasks :
               GenerationStep(t) \/ Spawn(t) \/ CancelGeneration(t) \/ AbandonGeneration(t)
    BY <1>1, <1>2, <1>7, GenerationStepKeeps, CancelKeepsJoins, AbandonKeepsJoins
    DEF DelegationInv
  <1>8. CASE \E p \in Tasks : \E T \in SUBSET (Children(p) \cap Enqueued) \ {{}} :
               Join(p, T) \/ JoinAlongside(p, T)
    BY <1>1, <1>6, <1>8, JoinKeeps DEF DelegationInv
  <1> QED BY <1>3, <1>4, <1>5, <1>7, <1>8 DEF DelegationNext

LEMMA DelegationInvariance == DelegationSpec => []DelegationInv
  <1>1. DelegationInit => DelegationInv
    BY DEF DelegationInit, DelegationInv, JoinTypes, JoinsSuspend, AbandonedIsDone,
           HoldersAreDone, Init
  <1> QED BY <1>1, DelegationInvKept, QueueInvariance, PTL DEF DelegationSpec

(* Whoever holds a slot awaits nobody. *)
LEMMA HolderAwaitsNobody ==
  ASSUME IInv, DelegationInv, ~ParallelCalls, NEW p \in Holders
  PROVE  Awaited(p) = {}
  <1>1. p \in Tasks /\ phase[p] # "suspended"
    BY DEF Holders, IInv, Marked
  <1>2. yielding[p] = {}
    BY <1>1 DEF DelegationInv, JoinsSuspend
  <1>3. holding[p] # {} => done[p]
    BY <1>1 DEF DelegationInv, HoldersAreDone
  <1> QED BY <1>2, <1>3 DEF Awaited

(* With one tool call at a time nobody keeps a slot that the work it waits *)
(* for is queued for, directly or through others, however deep the tree    *)
(* and whatever is cancelled or abandoned in it.                           *)
THEOREM WaitingYields == ASSUME ~ParallelCalls PROVE DelegationSpec => []YieldsToAwaited
  <1>1. ASSUME IInv, DelegationInv PROVE YieldsToAwaited
    <2> SUFFICES ASSUME NEW p \in Holders, NEW c \in Range(pending), WaitsFor(p, c)
                 PROVE  FALSE
      BY DEF YieldsToAwaited
    <2>1. Awaited(p) = {}
      BY <1>1, HolderAwaitsNobody
    <2>2. {} \in SUBSET Tasks /\ \A t \in {} \cup {p} : Awaited(t) \subseteq {}
      BY <2>1
    <2> QED BY <2>2 DEF WaitsFor
  <1> QED BY <1>1, QueueInvariance, DelegationInvariance, PTL
=============================================================================
