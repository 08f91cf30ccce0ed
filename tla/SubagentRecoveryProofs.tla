------------------------ MODULE SubagentRecoveryProofs ------------------------
(***************************************************************************)
(* What holds of recovery for every set of conversations, every tree they  *)
(* form, every limit and any number of restarts.  The inductive invariant  *)
(* says how the branch and the catalog agree (Agreement), what recovery    *)
(* relies on after an await (CandidatesLeased, BatchRooted), that the      *)
(* branch lists all completions (ListInv) and that terminal conversations  *)
(* leave room for the candidates (RoomReserved).  What is selected is a    *)
(* fold over the completions: Selects says how it adds up.                 *)
(***************************************************************************)
EXTENDS SubagentRecovery, FiniteSetTheorems, WellFoundedInduction, TLAPS

CatalogTypes ==
  /\ index \in [Files -> Entry \cup {NoEntry}]
  /\ leases \in [Files -> Lease \cup {NoLease}]
  /\ starts \in 0..MaxStarts
  /\ spawned \subseteq Ids /\ catalog \subseteq spawned
  /\ latest \in [Ids -> Generations]
  /\ status \in [Ids -> {"queued", "running", "done"}]
  /\ file \in [Ids -> 0..MaxGenerations]
  /\ recovery \in Recoveries

(* A generation that was resumed continues the file of the first one. *)
FirstFile ==
  /\ \A c \in Ids : file[c] \in {0, 1}
  /\ \A e \in Files : index[e].file \in {-1, 0, 1} /\ leases[e].file \in {0, 1}

(* Nothing is on the branch of a conversation that was not spawned, no     *)
(* later entry without the first, and no lease beside an entry.            *)
Branch ==
  /\ \A e \in Files : e[1] \notin spawned => index[e] = NoEntry /\ leases[e] = NoLease
  /\ \A e \in Files : index[e] # NoEntry => index[<<e[1], 1>>] # NoEntry
  /\ \A e \in Files : leases[e] # NoLease => index[e] = NoEntry

(* The latest generation of a conversation has an entry when it is done,   *)
(* and no generation after it has one.                                     *)
Agreement ==
  /\ \A c \in Ids \ catalog : latest[c] = 1 /\ status[c] = "queued"
  /\ \A c \in catalog :
       /\ \A g \in Generations : g > latest[c] => index[<<c, g>>] = NoEntry
       /\ (status[c] = "done") <=> (index[<<c, latest[c]>>] # NoEntry)
       /\ latest[c] > 1 => index[<<c, 1>>] # NoEntry

(* What is still to be tried is out of the catalog and has its lease. *)
CandidatesLeased ==
  /\ phase \in {"down", "up"} => recovery = NoRecovery
  /\ phase = "down" => catalog = {}
  /\ recovery.batch \subseteq recovery.pending
  /\ recovery.pending \cap catalog = {}
  /\ \A c \in recovery.pending :
       c \in spawned /\ leases[<<c, 1>>] # NoLease /\ leases[<<c, 1>>].file = 1

BatchRooted ==
  /\ \A c \in recovery.batch : HasParent(c, catalog)
  /\ phase = "rebinding" => recovery.at \in recovery.batch

IInv ==
  /\ CatalogTypes /\ FirstFile /\ Branch /\ Agreement
  /\ CandidatesLeased /\ BatchRooted /\ RecoveredForest

-----------------------------------------------------------------------------
(* Numbers and sequences.                                                  *)

(* A set of numbers has a least one. *)
LEMMA LeastNumber ==
  ASSUME NEW S \in SUBSET Nat, S # {}
  PROVE  \E x \in S : \A y \in S : x <= y
<1>1. PICK x \in S : \A y \in S : <<y, x>> \notin OpToRel(<, Nat)
  BY NatLessThanWellFounded, WFMin
<1>2. ASSUME NEW y \in S PROVE x <= y
  <2>1. ~(y < x)
    BY <1>1 DEF OpToRel
  <2>2. QED BY <2>1
<1>3. QED BY <1>2

(* What holds of the last number and of each before one of which it holds, *)
(* holds of all.                                                           *)
LEMMA Downward ==
  ASSUME NEW n \in Nat, NEW S, n + 1 \in S, \A k \in 1..n : k + 1 \in S => k \in S
  PROVE  1..(n + 1) \subseteq S
<1>1. SUFFICES ASSUME NEW k \in 1..(n + 1), k \notin S PROVE FALSE
  OBVIOUS
<1> DEFINE D == {d \in Nat : d <= n /\ (n + 1) - d \notin S}
<1>2. D \in SUBSET Nat /\ D # {}
  <2>1. (n + 1) - k \in Nat /\ (n + 1) - k <= n + 1 /\ (n + 1) - ((n + 1) - k) = k
    OBVIOUS
  <2>2. (n + 1) - k # n + 1 /\ (n + 1) - k <= n
    BY <2>1
  <2>3. (n + 1) - k \in D
    BY <1>1, <2>1, <2>2
  <2>4. QED BY <2>3
<1>3. PICK d \in D : \A e \in D : d <= e
  <2> HIDE DEF D
  <2>1. QED BY <1>2, LeastNumber
<1>4. d \in Nat /\ d <= n /\ (n + 1) - d \notin S
  OBVIOUS
<1>5. d # 0
  BY <1>4
<1>6. d - 1 \in Nat /\ d - 1 <= n /\ d - 1 < d /\ (n + 1) - (d - 1) = ((n + 1) - d) + 1
      /\ (n + 1) - d \in 1..n
  BY <1>4, <1>5
<1>7. d - 1 \notin D
  BY <1>3, <1>6
<1>8. ((n + 1) - d) + 1 \in S
  BY <1>6, <1>7
<1>9. QED BY <1>4, <1>6, <1>8

(* What is left of a sequence without its i-th element.                    *)
LEMMA RemoveAtElements ==
  ASSUME NEW S, NEW q \in Seq(S), NEW i \in 1..Len(q)
  PROVE  /\ RemoveAt(q, i) \in Seq(S) /\ Len(RemoveAt(q, i)) = Len(q) - 1
         /\ \A j \in 1..(Len(q) - 1) : RemoveAt(q, i)[j] = IF j < i THEN q[j] ELSE q[j + 1]
<1> DEFINE before == SubSeq(q, 1, i - 1)
           after == SubSeq(q, i + 1, Len(q))
<1>1. Len(q) \in Nat /\ i \in Nat /\ 1 <= i /\ i <= Len(q)
  OBVIOUS
<1>2. /\ before \in Seq(S) /\ Len(before) = i - 1
      /\ \A j \in 1..(i - 1) : before[j] = q[j]
  BY <1>1
<1>3. /\ after \in Seq(S) /\ Len(after) = Len(q) - i
      /\ \A j \in 1..(Len(q) - i) : after[j] = q[i + j]
  BY <1>1
<1>4. RemoveAt(q, i) = before \o after
  BY DEF RemoveAt
<1> HIDE DEF before, after
<1>5. RemoveAt(q, i) \in Seq(S) /\ Len(RemoveAt(q, i)) = Len(q) - 1
  BY <1>1, <1>2, <1>3, <1>4
<1>6. ASSUME NEW j \in 1..(Len(q) - 1)
      PROVE  RemoveAt(q, i)[j] = IF j < i THEN q[j] ELSE q[j + 1]
  <2>1. CASE j < i
    BY <2>1, <1>1, <1>2, <1>3, <1>4
  <2>2. CASE ~(j < i)
    <3>1. j - (i - 1) \in 1..(Len(q) - i) /\ i + (j - (i - 1)) = j + 1
      BY <2>2, <1>1
    <3>2. RemoveAt(q, i)[j] = after[j - (i - 1)]
      BY <2>2, <3>1, <1>1, <1>2, <1>3, <1>4
    <3>3. QED
      BY <2>2, <3>1, <3>2, <1>3
  <2>3. QED
    BY <2>1, <2>2
<1>7. QED
  BY <1>5, <1>6

LEMMA RemoveFirstElements ==
  ASSUME NEW S, NEW q \in Seq(S), NEW e
  PROVE  /\ RemoveFirst(q, e) \in Seq(S)
         /\ \A i \in 1..Len(q) :
              q[i] # e => \E j \in 1..Len(RemoveFirst(q, e)) : RemoveFirst(q, e)[j] = q[i]
<1> DEFINE I == {i \in 1..Len(q) : q[i] = e}
<1>1. CASE ~\E i \in 1..Len(q) : q[i] = e
  <2>1. RemoveFirst(q, e) = q
    BY <1>1 DEF RemoveFirst
  <2>2. QED BY <2>1
<1>2. CASE \E i \in 1..Len(q) : q[i] = e
  <2>1. I # {} /\ I \in SUBSET Nat /\ SelectInSeq(q, LAMBDA v : v = e) = Min(I)
    BY <1>2 DEF SelectInSeq
  <2> HIDE DEF I
  <2>2. Min(I) \in I
    BY <2>1, LeastNumber DEF Min
  <2> DEFINE k == Min(I)  r == RemoveAt(q, k)
  <2>3. k \in 1..Len(q) /\ q[k] = e /\ RemoveFirst(q, e) = r
    BY <1>2, <2>1, <2>2 DEF RemoveFirst, I
  <2> HIDE DEF k
  <2>4. /\ r \in Seq(S) /\ Len(r) = Len(q) - 1
        /\ \A j \in 1..(Len(q) - 1) : r[j] = IF j < k THEN q[j] ELSE q[j + 1]
    BY <2>3, RemoveAtElements
  <2> HIDE DEF r
  <2>5. ASSUME NEW i \in 1..Len(q), q[i] # e PROVE \E j \in 1..Len(r) : r[j] = q[i]
    <3>1. CASE i < k
      <4>1. i \in 1..(Len(q) - 1)
        BY <2>3, <3>1
      <4>2. QED BY <2>4, <3>1, <4>1
    <3>2. CASE ~(i < k)
      <4>1. i # k /\ i - 1 \in 1..(Len(q) - 1) /\ ~(i - 1 < k) /\ (i - 1) + 1 = i
        BY <2>3, <2>5, <3>2
      <4>2. r[i - 1] = q[i]
        BY <2>4, <4>1
      <4>3. QED BY <2>4, <4>1, <4>2
    <3>3. QED BY <3>1, <3>2
  <2>6. QED BY <2>3, <2>4, <2>5
<1>3. QED BY <1>1, <1>2

-----------------------------------------------------------------------------
(* The tree.                                                               *)

LEMMA LineageReflexive ==
  ASSUME NEW c \in Ids
  PROVE  c \in Lineage(c)
BY DEF Lineage

(* The parent of a conversation is of its lineage, and so is whatever is   *)
(* of the parent's.                                                        *)
LEMMA LineageOfParent ==
  ASSUME RecoveryAssumption, NEW c \in Ids, Parent[c] # Root
  PROVE  Parent[c] \in Ids /\ Parent[c] \in Lineage(c) /\ Lineage(Parent[c]) \subseteq Lineage(c)
<1>1. Parent[c] \in Ids
  BY RecoveryAssumption DEF RecoveryAssumption
<1>2. Parent[c] \in Lineage(c)
  BY <1>1 DEF Lineage
<1>3. ASSUME NEW d \in Lineage(Parent[c]) PROVE d \in Lineage(c)
  <2>1. d \in Ids
    BY <1>3 DEF Lineage
  <2>2. ASSUME NEW S \in SUBSET Ids, c \in S, \A e \in S : Parent[e] # Root => Parent[e] \in S
        PROVE  d \in S
    <3>1. Parent[c] \in S
      BY <2>2
    <3>2. QED BY <1>3, <2>2, <3>1 DEF Lineage
  <2>3. QED BY <2>1, <2>2 DEF Lineage
<1>4. QED BY <1>1, <1>2, <1>3

(* What is restored can be restored, and brings the parents it needs.      *)
LEMMA RestorableClosed ==
  ASSUME RecoveryAssumption, NEW R \in SUBSET Recoverable, NEW budget
  PROVE  /\ Restorable(R, budget) \subseteq R
         /\ \A c \in Restorable(R, budget) : HasParent(c, catalog \cup Restorable(R, budget))
<1>1. Restorable(R, budget) \subseteq R
  BY DEF Restorable
<1>2. ASSUME NEW c \in Restorable(R, budget), Parent[c] # Root, Parent[c] \notin catalog
      PROVE  Parent[c] \in Restorable(R, budget)
  <2>1. c \in Ids /\ Chain(c) \subseteq R \cap Selected(R, budget)
    BY <1>1, <1>2 DEF Restorable, Recoverable
  <2>2. /\ Parent[c] \in Chain(c)
        /\ Chain(Parent[c]) \subseteq Chain(c)
    BY <1>2, <2>1, LineageOfParent DEF Chain
  <2>3. Parent[c] \in R
    BY <2>1, <2>2
  <2>4. QED BY <2>1, <2>2, <2>3 DEF Restorable
<1>3. QED BY <1>1, <1>2 DEF HasParent

-----------------------------------------------------------------------------
(* The selection of what to restore.  It is a fold over the completions    *)
(* from the last one on: chosen[k] is what the completions from k on add.  *)
Take(R, budget, c, chosen) ==
  IF c \in R /\ Chain(c) \subseteq R /\ Cardinality(chosen \cup Chain(c)) <= budget
  THEN chosen \cup Chain(c) ELSE chosen

FoldsUp(R, budget, h, S) ==
  h = [s \in SUBSET S |->
         IF s = {} THEN {} ELSE Take(R, budget, ended[Min(s)], h[s \ {Min(s)}])]

LEMMA SelectedIsFold ==
  ASSUME NEW R, NEW budget
  PROVE  Selected(R, budget) = (CHOOSE h : FoldsUp(R, budget, h, DOMAIN ended))[DOMAIN ended]
BY DEF Selected, FoldRight, MapThenFoldSet, Take, FoldsUp

LEMMA MinOfInterval ==
  ASSUME NEW m \in Nat, NEW n \in Nat, NEW s \in SUBSET (m..n), m \in s
  PROVE  Min(s) = m
<1>1. \A y \in s : m <= y
  OBVIOUS
<1>2. \A x \in s : (\A y \in s : x <= y) => x = m
  <2>1. SUFFICES ASSUME NEW x \in s, x <= m PROVE x = m
    OBVIOUS
  <2>2. m <= x /\ x \in Nat
    OBVIOUS
  <2>3. QED BY <2>1, <2>2
<1>3. QED BY <1>1, <1>2 DEF Min

LEMMA FoldExists ==
  ASSUME NEW R, NEW budget, NEW n \in Nat
  PROVE  \E h : FoldsUp(R, budget, h, 1..n)
<1> DEFINE S == {k \in 1..(n + 1) : \E h : FoldsUp(R, budget, h, k..n)}
<1>1. n + 1 \in S
  <2> DEFINE h == [s \in {{}} |-> {}]
  <2>1. (n + 1)..n = {} /\ SUBSET ((n + 1)..n) = {{}} /\ n + 1 \in 1..(n + 1)
    OBVIOUS
  <2>2. FoldsUp(R, budget, h, (n + 1)..n)
    BY <2>1 DEF FoldsUp
  <2> HIDE DEF h
  <2>3. QED BY <2>1, <2>2
<1>2. ASSUME NEW k \in 1..n, k + 1 \in S PROVE k \in S
  <2>1. PICK g : FoldsUp(R, budget, g, (k + 1)..n)
    BY <1>2
  <2> DEFINE h == [s \in SUBSET (k..n) |->
                     IF k \in s THEN Take(R, budget, ended[k], g[s \ {k}]) ELSE g[s]]
  <2>2. ASSUME NEW s \in SUBSET (k..n), k \notin s
        PROVE  s \in SUBSET ((k + 1)..n)
    <3>1. ASSUME NEW x \in s PROVE x \in (k + 1)..n
      <4>1. x \in k..n /\ x # k
        BY <2>2, <3>1
      <4>2. QED BY <4>1
    <3>2. QED BY <3>1
  <2>3. ASSUME NEW s \in SUBSET (k..n)
        PROVE  h[s] = IF s = {} THEN {}
                      ELSE Take(R, budget, ended[Min(s)], h[s \ {Min(s)}])
    <3>1. CASE k \in s
      <4>1. Min(s) = k
        <5>1. k \in Nat
          OBVIOUS
        <5>2. QED BY <3>1, <5>1, MinOfInterval
      <4>2. s \ {k} \in SUBSET (k..n) /\ k \notin s \ {k} /\ s # {}
        BY <3>1
      <4>3. h[s \ {k}] = g[s \ {k}]
        BY <4>2
      <4>4. h[s] = Take(R, budget, ended[k], g[s \ {k}])
        BY <3>1
      <4>5. QED BY <4>1, <4>2, <4>3, <4>4
    <3>2. CASE k \notin s
      <4>1. s \in SUBSET ((k + 1)..n) /\ h[s] = g[s]
        BY <3>2, <2>2
      <4>2. s \ {Min(s)} \in SUBSET (k..n) /\ k \notin s \ {Min(s)}
        BY <3>2
      <4>3. h[s \ {Min(s)}] = g[s \ {Min(s)}]
        BY <4>2
      <4>4. g[s] = IF s = {} THEN {} ELSE Take(R, budget, ended[Min(s)], g[s \ {Min(s)}])
        BY <4>1, <2>1 DEF FoldsUp
      <4>5. QED BY <4>1, <4>3, <4>4
    <3>3. QED BY <3>1, <3>2
  <2>4. h = [s \in SUBSET (k..n) |-> h[s]]
    OBVIOUS
  <2> HIDE DEF h
  <2>5. FoldsUp(R, budget, h, k..n)
    BY <2>3, <2>4 DEF FoldsUp
  <2>6. QED BY <2>5
<1>3. 1 \in S
  <2> HIDE DEF S
  <2>1. 1 \in 1..(n + 1)
    OBVIOUS
  <2>2. QED BY <1>1, <1>2, <2>1, Downward
<1>4. QED BY <1>3

Selects(R, budget, chosen) ==
  /\ chosen[Len(ended) + 1] = {} /\ chosen[1] = Selected(R, budget)
  /\ \A k \in 1..Len(ended) : chosen[k] = Take(R, budget, ended[k], chosen[k + 1])

LEMMA SelectedSteps ==
  ASSUME NEW R, NEW budget, ended \in Seq(Ids)
  PROVE  \E chosen : Selects(R, budget, chosen)
<1> DEFINE n == Len(ended)
           h == CHOOSE h : FoldsUp(R, budget, h, 1..n)
           chosen == [k \in 1..(n + 1) |-> h[k..n]]
<1>1. n \in Nat /\ DOMAIN ended = 1..n
  OBVIOUS
<1> HIDE DEF n
<1>2. FoldsUp(R, budget, h, 1..n)
  BY <1>1, FoldExists
<1>3. Selected(R, budget) = h[1..n]
  BY <1>1, SelectedIsFold
<1> HIDE DEF h
<1>4. ASSUME NEW k \in 1..n
      PROVE  chosen[k] = Take(R, budget, ended[k], chosen[k + 1])
  <2>1. k..n \in SUBSET (1..n) /\ k \in k..n /\ k \in Nat
        /\ k \in 1..(n + 1) /\ k + 1 \in 1..(n + 1) /\ k..n # {}
    <3>1. k \in Nat /\ 1 <= k /\ k <= n
      BY <1>1
    <3>2. k \in k..n /\ k \in 1..(n + 1) /\ k + 1 \in 1..(n + 1)
      BY <1>1, <3>1
    <3>3. \A x \in k..n : x \in 1..n
      BY <1>1, <3>1
    <3>4. QED BY <3>1, <3>2, <3>3
  <2>a. (k..n) \ {k} = (k + 1)..n
    <3>1. \A x : x \in (k..n) \ {k} <=> x \in (k + 1)..n
      BY <1>1
    <3>2. QED BY <3>1
  <2>2. Min(k..n) = k
    BY <1>1, <2>1, MinOfInterval
  <2>3. h[k..n] = Take(R, budget, ended[k], h[(k + 1)..n])
    BY <1>2, <2>1, <2>a, <2>2 DEF FoldsUp
  <2>4. QED BY <2>1, <2>3
<1>5. chosen[n + 1] = {}
  <2>1. (n + 1)..n = {} /\ n + 1 \in 1..(n + 1) /\ {} \in SUBSET (1..n)
    BY <1>1
  <2>2. h[{}] = {}
    BY <1>2, <2>1 DEF FoldsUp
  <2>3. QED BY <2>1, <2>2
<1>6. chosen[1] = Selected(R, budget)
  BY <1>1, <1>3
<1> HIDE DEF chosen
<1>7. Selects(R, budget, chosen)
  BY <1>4, <1>5, <1>6 DEF n, Selects
<1>8. QED BY <1>7

LEMMA LineageTransitive ==
  ASSUME NEW c \in Ids, NEW d \in Lineage(c)
  PROVE  Lineage(d) \subseteq Lineage(c)
<1>1. ASSUME NEW x \in Lineage(d), NEW S \in SUBSET Ids, c \in S,
             \A e \in S : Parent[e] # Root => Parent[e] \in S
      PROVE  x \in S
  <2>1. d \in S
    BY <1>1 DEF Lineage
  <2>2. QED BY <1>1, <2>1 DEF Lineage
<1>2. QED BY <1>1 DEF Lineage

LEMMA ChainFacts ==
  ASSUME NEW c \in Ids \ catalog
  PROVE  /\ c \in Chain(c) /\ Chain(c) \subseteq Ids \ catalog
         /\ \A d \in Chain(c) : Chain(d) \subseteq Chain(c)
<1>1. c \in Lineage(c) /\ Lineage(c) \subseteq Ids
  BY DEF Lineage
<1>2. QED BY <1>1, LineageTransitive DEF Chain

(* What is selected is within the set and the budget, comes with the       *)
(* ancestors it needs, and whatever is left out does not fit.              *)
LEMMA SelectedFacts ==
  ASSUME RecoveryAssumption, ended \in Seq(Ids), NEW R \in SUBSET (Ids \ catalog),
         NEW budget \in Int
  PROVE  /\ Selected(R, budget) \subseteq R
         /\ Selected(R, budget) = {} \/ Cardinality(Selected(R, budget)) <= budget
         /\ \A d \in Selected(R, budget) : Chain(d) \subseteq Selected(R, budget)
         /\ \A i \in 1..Len(ended) :
              ended[i] \in R \ Selected(R, budget) =>
                \/ ~(Chain(ended[i]) \subseteq R)
                \/ Cardinality(Selected(R, budget) \cup Chain(ended[i])) > budget
<1>0. PICK chosen : Selects(R, budget, chosen)
  BY SelectedSteps
<1>1. /\ chosen[Len(ended) + 1] = {} /\ chosen[1] = Selected(R, budget)
      /\ \A k \in 1..Len(ended) : chosen[k] = Take(R, budget, ended[k], chosen[k + 1])
  BY <1>0 DEF Selects
<1> DEFINE n == Len(ended)
           S == {k \in 1..(n + 1) :
                   /\ chosen[k] \subseteq R
                   /\ chosen[k] = {} \/ Cardinality(chosen[k]) <= budget
                   /\ \A d \in chosen[k] : Chain(d) \subseteq chosen[k]
                   /\ \A j \in k..(n + 1) : chosen[j] \subseteq chosen[k]}
<1>2. n \in Nat /\ \A k \in 1..n : ended[k] \in Ids
  OBVIOUS
<1>3. n + 1 \in S
  <2>1. \A j \in (n + 1)..(n + 1) : j = n + 1
    BY <1>2
  <2>2. n + 1 \in 1..(n + 1)
    BY <1>2
  <2>3. QED BY <1>1, <2>1, <2>2
<1>4. ASSUME NEW k \in 1..n, k + 1 \in S PROVE k \in S
  <2> DEFINE c == ended[k]  old == chosen[k + 1]  new == chosen[k]
  <2>1. new = old \/ (new = old \cup Chain(c) /\ c \in R /\ new \subseteq R
                      /\ Cardinality(new) <= budget)
    <3>1. old \subseteq R /\ new = Take(R, budget, c, old)
      BY <1>1, <1>4
    <3>2. QED BY <3>1 DEF Take
  <2>2. old \subseteq new /\ new \subseteq R /\ (new = {} \/ Cardinality(new) <= budget)
    BY <1>4, <2>1
  <2>3. ASSUME NEW d \in new PROVE Chain(d) \subseteq new
    <3>1. CASE d \in old
      BY <1>4, <2>2, <3>1
    <3>2. CASE d \notin old
      BY <2>1, <3>2, ChainFacts
    <3>3. QED BY <3>1, <3>2
  <2>4. ASSUME NEW j \in k..(n + 1) PROVE chosen[j] \subseteq new
    <3>1. j = k \/ j \in (k + 1)..(n + 1)
      BY <1>2
    <3>2. \A i \in (k + 1)..(n + 1) : chosen[i] \subseteq old
      BY <1>4
    <3>3. QED BY <2>2, <3>1, <3>2
  <2>5. k \in 1..(n + 1)
    BY <1>2
  <2> HIDE DEF c, old
  <2>6. QED BY <2>2, <2>3, <2>4, <2>5
<1>5. 1 \in S
  <2> HIDE DEF S
  <2>1. 1 \in 1..(n + 1)
    BY <1>2
  <2>2. QED BY <1>2, <1>3, <1>4, <2>1, Downward
<1> DEFINE T == Selected(R, budget)
<1>6. /\ T \subseteq R /\ (T = {} \/ Cardinality(T) <= budget)
      /\ \A d \in T : Chain(d) \subseteq T
      /\ \A j \in 1..(n + 1) : chosen[j] \subseteq T
  BY <1>1, <1>5
<1>7. ASSUME NEW i \in 1..n, ended[i] \in R \ T, Chain(ended[i]) \subseteq R
      PROVE  Cardinality(T \cup Chain(ended[i])) > budget
  <2> DEFINE c == ended[i]  tried == chosen[i + 1] \cup Chain(c)
  <2>1. i \in 1..(n + 1) /\ i + 1 \in 1..(n + 1)
    BY <1>2
  <2>2. chosen[i] \subseteq T /\ chosen[i + 1] \subseteq T
    BY <1>6, <2>1
  <2>3. c \in Chain(c) /\ c \notin chosen[i]
    BY <1>7, <2>2, ChainFacts
  <2>4. ~(Cardinality(tried) <= budget)
    <3>1. chosen[i] = Take(R, budget, c, chosen[i + 1])
      BY <1>1
    <3>2. QED BY <1>7, <2>3, <3>1 DEF Take
  <2>5. tried \subseteq T \cup Chain(c) /\ T \cup Chain(c) \subseteq Ids
    BY <1>6, <1>7, <2>2
  <2> HIDE DEF tried, T, c
  <2>6. IsFiniteSet(T \cup Chain(c))
    BY <2>5, RecoveryAssumption, FS_Subset DEF RecoveryAssumption
  <2>7. Cardinality(tried) <= Cardinality(T \cup Chain(c)) /\ IsFiniteSet(tried)
    BY <2>5, <2>6, FS_Subset
  <2>8. Cardinality(tried) \in Nat /\ Cardinality(T \cup Chain(c)) \in Nat
    BY <2>6, <2>7, FS_CardinalityType
  <2>9. Cardinality(T \cup Chain(c)) > budget
    BY <2>4, <2>7, <2>8
  <2>10. QED BY <2>9 DEF c
<1>8. QED BY <1>6, <1>7

(* All of the selection is restored. *)
LEMMA RestorableIsSelected ==
  ASSUME RecoveryAssumption, ended \in Seq(Ids), NEW R \in SUBSET (Ids \ catalog),
         NEW budget \in Int
  PROVE  Restorable(R, budget) = Selected(R, budget)
BY SelectedFacts DEF Restorable

-----------------------------------------------------------------------------
(* Small facts.                                                            *)

LEMMA Basics ==
  ASSUME RecoveryAssumption
  PROVE  /\ 1 \in Generations /\ Generations \subseteq Nat \ {0}
         /\ \A c \in Ids, g \in Generations : <<c, g>> \in Files
         /\ NoEntry \notin Entry /\ NoLease \notin Lease
         /\ NoRecovery \in Recoveries
BY DEF RecoveryAssumption, Generations, Files, Entry, NoEntry, Lease, NoLease, Panes, NoPane,
       Recoveries, NoRecovery

LEMMA FilesArePairs ==
  \A e \in Files : e = <<e[1], e[2]>> /\ e[1] \in Ids /\ e[2] \in Generations
BY DEF Files

LEMMA MinOfTwo ==
  ASSUME NEW m \in Nat, NEW n \in Nat
  PROVE  Min({m, n}) \in Nat
<1>1. \E x \in {m, n} : \A y \in {m, n} : x <= y
  OBVIOUS
<1>2. QED BY <1>1 DEF Min

(* Only a first generation has a lease that is taken up, and only before   *)
(* anything was recorded of its conversation.                              *)
LEMMA LeasedIsFirst ==
  ASSUME RecoveryAssumption, IInv, NEW c \in Ids,
         leases[<<c, 1>>] # NoLease, leases[<<c, 1>>].file = 1
  PROVE  /\ LeasedGeneration(c) = 1
         /\ \A g \in Generations : index[<<c, g>>] = NoEntry
<1>1. {g \in Generations : <<c, g>> \in ActiveLeases} = {1}
  <2>1. <<c, 1>> \in ActiveLeases
    BY Basics DEF ActiveLeases
  <2>2. ASSUME NEW g \in Generations, <<c, g>> \in ActiveLeases PROVE g = 1
    BY <2>2, Basics DEF ActiveLeases, IInv, FirstFile
  <2>3. QED BY <2>1, <2>2, Basics
<1>2. Min({1}) = 1
  BY DEF Min
<1>3. index[<<c, 1>>] = NoEntry
  BY Basics DEF IInv, Branch
<1>4. LeasedGeneration(c) = 1
  BY <1>1, <1>2 DEF LeasedGeneration
<1>5. ASSUME NEW g \in Generations PROVE index[<<c, g>>] = NoEntry
  <2>1. <<c, g>> \in Files
    BY DEF Files
  <2>2. QED BY <2>1, <1>3 DEF IInv, Branch
<1>6. QED BY <1>4, <1>5

LEMMA Initially ==
  ASSUME RecoveryAssumption, Init
  PROVE  IInv
<1>1. CatalogTypes
  BY Basics DEF Init, CatalogTypes, Files, RecoveryAssumption
<1>2. FirstFile
  BY DEF Init, FirstFile, NoEntry, NoLease
<1>3. Branch
  BY Basics DEF Init, Branch, Files
<1>4. Agreement
  BY DEF Init, Agreement
<1>5. CandidatesLeased /\ BatchRooted /\ RecoveredForest
  BY DEF Init, CandidatesLeased, BatchRooted, RecoveredForest, NoRecovery
<1>6. QED BY <1>1, <1>2, <1>3, <1>4, <1>5 DEF IInv

-----------------------------------------------------------------------------
(* Recovery.                                                               *)

LEMMA StartKeeps ==
  ASSUME RecoveryAssumption, IInv, Start
  PROVE  IInv'
<1> USE DEF Start, branchVars, worldVars, historyVars, catalogVars
<1>1. PICK n \in Limits, m \in Limits :
        recovery' = [NoRecovery EXCEPT !.candidates = {e[1] : e \in ActiveLeases},
                                       !.pending = {e[1] : e \in ActiveLeases},
                                       !.cap = Min({m, n})]
  OBVIOUS
<1>2. Min({m, n}) \in Nat
  BY MinOfTwo, RecoveryAssumption DEF RecoveryAssumption
<1>3. {e[1] : e \in ActiveLeases} \subseteq Ids
  BY DEF ActiveLeases, Files
<1>4. ASSUME NEW e \in ActiveLeases
      PROVE  e = <<e[1], 1>> /\ leases[e] # NoLease /\ leases[e].file = 1 /\ e[1] \in spawned
  BY Basics DEF ActiveLeases, IInv, FirstFile, Branch, Files
<1>5. /\ recovery' \in Recoveries
      /\ recovery'.pending = {e[1] : e \in ActiveLeases}
      /\ recovery'.batch = {}
  BY <1>1, <1>2, <1>3 DEF NoRecovery, Recoveries
<1>6. CatalogTypes'
  <2>1. starts' \in 0..MaxStarts
    BY RecoveryAssumption DEF IInv, CatalogTypes, RecoveryAssumption
  <2>2. QED BY <1>5, <2>1 DEF IInv, CatalogTypes
<1>7. (FirstFile /\ Branch /\ Agreement /\ RecoveredForest)'
  BY DEF IInv, FirstFile, Branch, Agreement, RecoveredForest, HasParent
<1>8. (CandidatesLeased /\ BatchRooted)'
  BY <1>4, <1>5 DEF IInv, CandidatesLeased, BatchRooted
<1>9. QED BY <1>6, <1>7, <1>8 DEF IInv

(* Restore(T) for what can be restored: the catalog and the branch agree   *)
(* on T, and T leaves the candidates alone.                                *)
LEMMA RestoreKeeps ==
  ASSUME RecoveryAssumption, IInv, NEW T \in SUBSET Recoverable, Restore(T),
         UNCHANGED <<branchVars, starts, historyVars>>, recovery' \in Recoveries
  PROVE  /\ (CatalogTypes /\ FirstFile /\ Branch /\ Agreement)'
         /\ recovery.pending \cap T = {}
<1> USE DEF Restore, branchVars, historyVars
<1>1. ASSUME NEW c \in T
      PROVE  /\ c \in Ids \ catalog /\ c \in spawned
             /\ LastIndexed(c) \in Generations
             /\ \A g \in Generations : index[<<c, g>>] # NoEntry <=> g <= LastIndexed(c)
  <2>1. LastIndexed(c) \in Generations /\ Indexed(c) = 1..LastIndexed(c)
    BY <1>1 DEF LastIndexed, Recoverable
  <2>2. \A g \in Generations : index[<<c, g>>] # NoEntry <=> g <= LastIndexed(c)
    BY <2>1, Basics DEF Indexed
  <2>3. index[<<c, LastIndexed(c)>>] # NoEntry
    BY <2>1, <2>2, Basics
  <2>4. QED BY <1>1, <2>1, <2>2, <2>3, Basics DEF Recoverable, IInv, Branch
<1>2. ASSUME NEW c \in T
      PROVE  RecoveredFile(c) \in {0, 1} /\ RecoveredFile(c) \in 0..MaxGenerations
  BY <1>1, <1>2, Basics, RecoveryAssumption
     DEF RecoveredFile, IInv, FirstFile, RecoveryAssumption, Generations
<1>3. CatalogTypes'
  BY <1>1, <1>2 DEF IInv, CatalogTypes
<1>4. FirstFile'
  BY <1>1, <1>2 DEF IInv, FirstFile, CatalogTypes
<1>5. Branch'
  BY DEF IInv, Branch
<1>6. Agreement'
  <2>1. ASSUME NEW c \in Ids \ catalog' PROVE latest'[c] = 1 /\ status'[c] = "queued"
    BY <2>1 DEF IInv, Agreement
  <2>2. ASSUME NEW c \in catalog'
        PROVE  /\ \A g \in Generations : g > latest'[c] => index[<<c, g>>] = NoEntry
               /\ (status'[c] = "done") <=> (index[<<c, latest'[c]>>] # NoEntry)
               /\ latest'[c] > 1 => index[<<c, 1>>] # NoEntry
    <3>1. CASE c \in T
      BY <3>1, <1>1, Basics
    <3>2. CASE c \notin T
      BY <3>2, <2>2 DEF IInv, Agreement, CatalogTypes
    <3>3. QED BY <3>1, <3>2
  <2>3. QED BY <2>1, <2>2 DEF Agreement
<1>7. ASSUME NEW c \in T, c \in recovery.pending PROVE FALSE
  <2>1. index[<<c, 1>>] # NoEntry
    BY <1>1, <1>7, Basics
  <2>2. leases[<<c, 1>>] # NoLease
    BY <1>7 DEF IInv, CandidatesLeased
  <2>3. QED BY <1>1, <1>7, <2>1, <2>2, Basics DEF IInv, Branch
<1>8. QED BY <1>3, <1>4, <1>5, <1>6, <1>7

LEMMA BeginRoundKeeps ==
  ASSUME RecoveryAssumption, IInv, BeginRound
  PROVE  IInv'
<1> DEFINE T == Restorable(Recoverable \cap TerminalAncestors(recovery.candidates),
                           PriorityBudget(recovery))
           ready == Ready(recovery.pending, catalog \cup T)
<1>1. /\ T \subseteq Recoverable
      /\ \A c \in T : HasParent(c, catalog \cup T)
  <2>1. Recoverable \cap TerminalAncestors(recovery.candidates) \in SUBSET Recoverable
    OBVIOUS
  <2>2. QED BY <2>1, RestorableClosed
<1>2. /\ Restore(T) /\ catalog' = catalog \cup T
      /\ UNCHANGED <<branchVars, starts, historyVars, phase>>
      /\ recovery' = [recovery EXCEPT !.terminals = @ + Cardinality(T), !.batch = ready,
           !.progressed = T # {}, !.stuck = ready = {} /\ T = {},
           !.ended = {c \in ready : <<c, LeasedGeneration(c)>> \in sidecars}]
      /\ phase = "recovering"
  BY DEF BeginRound, Restore
<1>3. Cardinality(T) \in Nat
  <2>1. T \subseteq Ids
    BY <1>1 DEF Recoverable
  <2>2. QED BY <2>1, RecoveryAssumption, FS_Subset, FS_CardinalityType DEF RecoveryAssumption
<1>4. recovery \in Recoveries /\ ready \subseteq recovery.pending
  BY DEF IInv, CatalogTypes, Ready
<1>5. /\ recovery' \in Recoveries
      /\ recovery'.pending = recovery.pending /\ recovery'.batch = ready
  <2> DEFINE finished == {c \in ready : <<c, LeasedGeneration(c)>> \in sidecars}
         progressed == T # {}
         stuck == ready = {} /\ T = {}
         n == recovery.terminals + Cardinality(T)
  <2>1. /\ finished \subseteq ready
        /\ progressed \in BOOLEAN /\ stuck \in BOOLEAN
    OBVIOUS
  <2>2. n \in Nat
    BY <1>3, <1>4 DEF Recoveries
  <2>3. recovery' = [recovery EXCEPT !.terminals = n, !.batch = ready, !.progressed = progressed,
                                     !.stuck = stuck, !.ended = finished]
    BY <1>2
  <2> HIDE DEF T, ready, finished, progressed, stuck, n
  <2>4. QED BY <2>1, <2>2, <2>3, <1>4 DEF Recoveries
<1>6. (CatalogTypes /\ FirstFile /\ Branch /\ Agreement)' /\ recovery.pending \cap T = {}
  BY <1>1, <1>2, <1>5, RestoreKeeps
<1>7. CandidatesLeased'
  BY <1>2, <1>4, <1>5, <1>6 DEF IInv, CandidatesLeased, branchVars, historyVars
<1>8. BatchRooted'
  BY <1>2, <1>5 DEF BatchRooted, Ready, HasParent
<1>9. RecoveredForest'
  BY <1>1, <1>2 DEF IInv, RecoveredForest, HasParent
<1>10. QED BY <1>6, <1>7, <1>8, <1>9 DEF IInv

LEMMA EndRecoveryKeeps ==
  ASSUME RecoveryAssumption, IInv, EndRecovery
  PROVE  IInv'
<1>1. PICK T \in SUBSET Recoverable :
        /\ Restore(T) /\ \A c \in T : HasParent(c, catalog \cup T)
  BY RestorableClosed DEF EndRecovery
<1>2. /\ recovery' = NoRecovery /\ phase' = "up"
      /\ UNCHANGED <<branchVars, starts, historyVars>>
      /\ catalog' = catalog \cup T
  BY <1>1 DEF EndRecovery, Restore
<1>3. (CatalogTypes /\ FirstFile /\ Branch /\ Agreement)'
  BY <1>1, <1>2, RestoreKeeps, Basics
<1>4. (CandidatesLeased /\ BatchRooted)'
  BY <1>2 DEF CandidatesLeased, BatchRooted, NoRecovery
<1>5. RecoveredForest'
  BY <1>1, <1>2 DEF IInv, RecoveredForest, HasParent
<1>6. QED BY <1>3, <1>4, <1>5 DEF IInv

(* A candidate that is over leaves the pending ones and the batch. *)
LEMMA OverFacts ==
  ASSUME IInv, NEW c \in recovery.batch, NEW ok \in BOOLEAN, NEW refusal \in SUBSET Ids,
         CandidateOver(c, ok, refusal)
  PROVE  /\ c \in Ids /\ c \in recovery.pending
         /\ recovery' \in Recoveries
         /\ recovery'.pending = recovery.pending \ {c}
         /\ recovery'.batch = recovery.batch \ {c}
BY DEF IInv, CatalogTypes, CandidatesLeased, CandidateOver, Recoveries

(* Nothing but the candidate in question changes. *)
LEMMA DroppedKeeps ==
  ASSUME IInv, NEW c \in recovery.batch, NEW refusal \in SUBSET Ids,
         CandidateOver(c, FALSE, refusal), phase \in {"recovering", "rebinding"},
         phase' = "recovering", UNCHANGED <<branchVars, starts, historyVars, catalogVars>>
  PROVE  IInv'
<1> USE OverFacts DEF branchVars, historyVars, catalogVars
<1>1. (CatalogTypes /\ FirstFile /\ Branch /\ Agreement /\ RecoveredForest)'
  BY DEF IInv, CatalogTypes, FirstFile, Branch, Agreement, RecoveredForest, HasParent
<1>2. (CandidatesLeased /\ BatchRooted)'
  BY DEF IInv, CandidatesLeased, BatchRooted, HasParent
<1>3. QED BY <1>1, <1>2 DEF IInv

LEMMA RefuseKeeps ==
  ASSUME IInv, NEW c \in Ids, Refuse(c)
  PROVE  IInv'
<1>1. /\ c \in recovery.batch /\ {c} \in SUBSET Ids /\ CandidateOver(c, FALSE, {c})
      /\ phase = "recovering" /\ phase' = "recovering"
      /\ UNCHANGED <<branchVars, starts, historyVars, catalogVars>>
  BY DEF Refuse
<1>2. QED BY <1>1, DroppedKeeps

LEMMA RebindFailsKeeps ==
  ASSUME IInv, RebindFails
  PROVE  IInv'
<1>1. /\ recovery.at \in recovery.batch /\ {} \in SUBSET Ids
      /\ CandidateOver(recovery.at, FALSE, {})
      /\ phase = "rebinding" /\ phase' = "recovering"
      /\ UNCHANGED <<branchVars, starts, historyVars, catalogVars>>
  BY DEF RebindFails, IInv, BatchRooted
<1>2. QED BY <1>1, DroppedKeeps

LEMMA AwaitRebindingKeeps ==
  ASSUME IInv, NEW c \in Ids, AwaitRebinding(c)
  PROVE  IInv'
<1> USE DEF AwaitRebinding, branchVars, historyVars, catalogVars
<1>1. /\ recovery' \in Recoveries /\ recovery'.at = c
      /\ recovery'.batch = recovery.batch /\ recovery'.pending = recovery.pending
  BY DEF IInv, CatalogTypes, Recoveries
<1>2. (CatalogTypes /\ FirstFile /\ Branch /\ Agreement /\ RecoveredForest)'
  BY <1>1 DEF IInv, CatalogTypes, FirstFile, Branch, Agreement, RecoveredForest, HasParent
<1>3. (CandidatesLeased /\ BatchRooted)'
  BY <1>1 DEF IInv, CandidatesLeased, BatchRooted, HasParent
<1>4. QED BY <1>2, <1>3 DEF IInv

LEMMA RestoreFinishedKeeps ==
  ASSUME RecoveryAssumption, IInv, NEW c \in Ids, NEW f, RestoreFinished(c, f)
  PROVE  IInv'
<1> USE DEF branchVars, historyVars
<1>1. /\ c \in recovery.batch /\ c \in recovery.pending /\ c \in spawned
      /\ leases[<<c, 1>>] # NoLease /\ leases[<<c, 1>>].file = 1
      /\ HasParent(c, catalog)
  BY DEF RestoreFinished, IInv, CandidatesLeased, BatchRooted
<1>2. LeasedGeneration(c) = 1 /\ \A g \in Generations : index[<<c, g>>] = NoEntry
  BY <1>1, LeasedIsFirst
<1>3. /\ f \in {0, 1}
      /\ catalog' = catalog \cup {c}
      /\ latest' = [latest EXCEPT ![c] = 1]
      /\ status' = [status EXCEPT ![c] = "done"]
      /\ file' = [file EXCEPT ![c] = f]
      /\ index' = [index EXCEPT ![<<c, 1>>] = [joined |-> FALSE, file |-> f]]
      /\ leases' = [leases EXCEPT ![<<c, 1>>] = NoLease]
      /\ UNCHANGED <<starts, phase, historyVars>> /\ phase = "recovering"
      /\ CandidateOver(c, TRUE, {})
  BY <1>1, <1>2 DEF RestoreFinished, Insert, AppendIndex
<1>4. /\ recovery' \in Recoveries
      /\ recovery'.pending = recovery.pending \ {c}
      /\ recovery'.batch = recovery.batch \ {c}
  BY <1>1, <1>3, OverFacts
<1>5. <<c, 1>> \in Files /\ [joined |-> FALSE, file |-> f] \in Entry
  BY <1>3, Basics, RecoveryAssumption DEF Entry, RecoveryAssumption
<1>6. CatalogTypes'
  BY <1>1, <1>3, <1>4, <1>5, Basics, RecoveryAssumption
     DEF IInv, CatalogTypes, RecoveryAssumption
<1>7. FirstFile'
  BY <1>3, <1>5 DEF IInv, FirstFile, CatalogTypes, NoLease
<1>8. Branch'
  BY <1>1, <1>2, <1>3, <1>5, Basics DEF IInv, Branch, CatalogTypes, Files
<1>9. Agreement'
  <2>1. ASSUME NEW d \in Ids \ catalog' PROVE latest'[d] = 1 /\ status'[d] = "queued"
    BY <1>3, <2>1 DEF IInv, Agreement, CatalogTypes
  <2>2. \A d \in Ids, g \in Generations : d # c => index'[<<d, g>>] = index[<<d, g>>]
    BY <1>3, Basics DEF IInv, CatalogTypes
  <2>3. \A g \in Generations : (index'[<<c, g>>] # NoEntry) <=> (g = 1)
    BY <1>2, <1>3, <1>5, Basics DEF IInv, CatalogTypes
  <2>4. latest'[c] = 1 /\ status'[c] = "done"
    BY <1>3 DEF IInv, CatalogTypes
  <2>5. \A d \in Ids : d # c => latest'[d] = latest[d] /\ status'[d] = status[d]
    BY <1>3 DEF IInv, CatalogTypes
  <2>6. catalog' \subseteq Ids /\ \A d \in Ids : latest[d] \in Generations
    BY <1>3 DEF IInv, CatalogTypes
  <2>7. QED BY <1>3, <2>1, <2>2, <2>3, <2>4, <2>5, <2>6, Basics DEF IInv, Agreement
<1>10. CandidatesLeased'
  BY <1>1, <1>3, <1>4, Basics DEF IInv, CandidatesLeased, CatalogTypes, Files, Recoveries
<1>11. (BatchRooted /\ RecoveredForest)'
  BY <1>1, <1>3, <1>4 DEF IInv, BatchRooted, RecoveredForest, HasParent
<1>12. QED BY <1>6, <1>7, <1>8, <1>9, <1>10, <1>11 DEF IInv

LEMMA ReboundKeeps ==
  ASSUME RecoveryAssumption, IInv, Rebound
  PROVE  IInv'
<1> USE DEF branchVars, historyVars
<1> DEFINE c == recovery.at
<1>1. /\ c \in recovery.batch /\ c \in recovery.pending /\ c \in spawned /\ c \in Ids
      /\ leases[<<c, 1>>] # NoLease /\ leases[<<c, 1>>].file = 1
      /\ HasParent(c, catalog)
  BY DEF Rebound, IInv, CandidatesLeased, BatchRooted, CatalogTypes
<1>2. LeasedGeneration(c) = 1 /\ \A g \in Generations : index[<<c, g>>] = NoEntry
  BY <1>1, LeasedIsFirst
<1>3. /\ catalog' = catalog \cup {c}
      /\ latest' = [latest EXCEPT ![c] = 1]
      /\ status' = [status EXCEPT ![c] = "running"]
      /\ file' = [file EXCEPT ![c] = 1]
      /\ UNCHANGED <<branchVars, starts, historyVars>>
      /\ phase = "rebinding" /\ phase' = "recovering"
      /\ CandidateOver(c, TRUE, {})
  BY <1>1, <1>2 DEF Rebound, Insert
<1> HIDE DEF c
<1>4. /\ recovery' \in Recoveries
      /\ recovery'.pending = recovery.pending \ {c}
      /\ recovery'.batch = recovery.batch \ {c}
  BY <1>1, <1>3, OverFacts
<1>5. CatalogTypes'
  BY <1>1, <1>3, <1>4, Basics, RecoveryAssumption DEF IInv, CatalogTypes, RecoveryAssumption
<1>6. (FirstFile /\ Branch)'
  BY <1>1, <1>3 DEF IInv, FirstFile, Branch, CatalogTypes
<1>7. Agreement'
  BY <1>1, <1>2, <1>3, Basics DEF IInv, Agreement, CatalogTypes
<1>8. CandidatesLeased'
  BY <1>1, <1>3, <1>4 DEF IInv, CandidatesLeased
<1>9. (BatchRooted /\ RecoveredForest)'
  BY <1>1, <1>3, <1>4 DEF IInv, BatchRooted, RecoveredForest, HasParent
<1>10. QED BY <1>5, <1>6, <1>7, <1>8, <1>9 DEF IInv

-----------------------------------------------------------------------------
(* The catalog at work and the world around it.                            *)

LEMMA SpawnKeeps ==
  ASSUME RecoveryAssumption, IInv, NEW c \in Ids, Spawn(c)
  PROVE  IInv'
<1> USE DEF Spawn, branchVars, worldVars, processVars
<1>1. index[<<c, 1>>] = NoEntry /\ \A g \in Generations : index[<<c, g>>] = NoEntry
  BY Basics DEF IInv, Branch
<1>2. latest[c] = 1 /\ status[c] = "queued"
  BY DEF IInv, Agreement, CatalogTypes
<1>3. (CatalogTypes /\ FirstFile /\ Branch)'
  BY DEF IInv, CatalogTypes, FirstFile, Branch
<1>4. Agreement'
  BY <1>1, <1>2 DEF IInv, Agreement
<1>5. (CandidatesLeased /\ BatchRooted /\ RecoveredForest)'
  BY DEF IInv, CandidatesLeased, BatchRooted, RecoveredForest, HasParent, NoRecovery
<1>6. QED BY <1>3, <1>4, <1>5 DEF IInv

LEMMA LaunchKeeps ==
  ASSUME RecoveryAssumption, IInv, NEW c \in Ids, Launch(c)
  PROVE  IInv'
<1> USE DEF processVars, historyVars
<1> DEFINE f == IF latest[c] = 1 THEN 1 ELSE file[c]
           p == [conversation |-> c, generation |-> latest[c], start |-> starts]
           lease == [pane |-> p, file |-> f]
<1>1. /\ phase = "up" /\ c \in catalog /\ status[c] = "queued"
      /\ status' = [status EXCEPT ![c] = "running"]
      /\ file' = [file EXCEPT ![c] = f]
      /\ leases' = [leases EXCEPT ![<<c, latest[c]>>] = lease]
      /\ UNCHANGED <<index, processVars, historyVars, catalog, latest>>
  <2>1. index[<<c, latest[c]>>] = NoEntry
    BY DEF Launch, IInv, Agreement
  <2>2. QED BY <2>1 DEF Launch, AppendLease
<1>2. f \in {0, 1} /\ f \in 0..MaxGenerations
  BY RecoveryAssumption DEF IInv, FirstFile, RecoveryAssumption
<1>3. lease \in Lease /\ <<c, latest[c]>> \in Files /\ latest[c] \in Generations
  BY <1>2, Basics DEF Lease, Panes, IInv, CatalogTypes
<1>4. lease.file = f
  OBVIOUS
<1> HIDE DEF f, p, lease
<1>5. CatalogTypes'
  BY <1>1, <1>2, <1>3 DEF IInv, CatalogTypes
<1>6. FirstFile'
  BY <1>1, <1>2, <1>3, <1>4 DEF IInv, FirstFile, CatalogTypes
<1>7. Branch'
  <2>1. index[<<c, latest[c]>>] = NoEntry /\ c \in spawned
    BY <1>1 DEF IInv, Agreement, CatalogTypes
  <2>2. \A e \in Files : e # <<c, latest[c]>> => leases'[e] = leases[e]
    BY <1>1, <1>3 DEF IInv, CatalogTypes
  <2>3. QED BY <1>1, <1>3, <2>1, <2>2 DEF IInv, Branch
<1>8. Agreement'
  BY <1>1 DEF IInv, Agreement, CatalogTypes
<1>9. (CandidatesLeased /\ BatchRooted /\ RecoveredForest)'
  BY <1>1 DEF IInv, CandidatesLeased, BatchRooted, RecoveredForest, HasParent, NoRecovery
<1>10. QED BY <1>5, <1>6, <1>7, <1>8, <1>9 DEF IInv

(* An entry for the latest generation of c, which ends done. *)
LEMMA AppendKeeps ==
  ASSUME RecoveryAssumption, IInv, NEW c \in catalog, NEW mark \in BOOLEAN, NEW f \in {0, 1},
         AppendIndex(c, latest[c], [joined |-> mark, file |-> f]),
         status' = [status EXCEPT ![c] = "done"], file' = [file EXCEPT ![c] = f],
         phase \in {"up", "rebinding"},
         UNCHANGED <<processVars, historyVars, catalog, latest>>
  PROVE  IInv'
<1> USE DEF processVars, historyVars
<1> DEFINE g == latest[c]  entry == [joined |-> mark, file |-> f]
<1>1. /\ index' = [index EXCEPT ![<<c, g>>] = entry]
      /\ leases' = [leases EXCEPT ![<<c, g>>] = NoLease]
  BY DEF AppendIndex
<1>2. /\ c \in Ids /\ c \in spawned /\ g \in Generations /\ <<c, g>> \in Files
      /\ entry \in Entry /\ entry.file = f /\ f \in 0..MaxGenerations
  BY Basics, RecoveryAssumption DEF IInv, CatalogTypes, Entry, RecoveryAssumption
<1>3. g = 1 \/ index[<<c, 1>>] # NoEntry
  BY <1>2, Basics DEF IInv, Agreement
<1>4. /\ \A d \in Ids, h \in Generations : d # c \/ h # g =>
           index'[<<d, h>>] = index[<<d, h>>] /\ leases'[<<d, h>>] = leases[<<d, h>>]
      /\ index'[<<c, g>>] = entry /\ leases'[<<c, g>>] = NoLease
  BY <1>1, <1>2, Basics DEF IInv, CatalogTypes
<1>5. entry # NoEntry
  BY <1>2, Basics
<1> HIDE DEF g, entry
<1>6. CatalogTypes'
  BY <1>1, <1>2 DEF IInv, CatalogTypes
<1>7. FirstFile'
  BY <1>1, <1>2 DEF IInv, FirstFile, CatalogTypes, NoLease
<1>8. Branch'
  <2>1. ASSUME NEW d \in Ids, NEW h \in Generations
        PROVE  /\ d \notin spawned' => index'[<<d, h>>] = NoEntry /\ leases'[<<d, h>>] = NoLease
               /\ index'[<<d, h>>] # NoEntry => index'[<<d, 1>>] # NoEntry
               /\ leases'[<<d, h>>] # NoLease => index'[<<d, h>>] = NoEntry
    BY <2>1, <1>2, <1>3, <1>4, <1>5, Basics DEF IInv, Branch
  <2>2. \A e \in Files :
          /\ e[1] \notin spawned' => index'[e] = NoEntry /\ leases'[e] = NoLease
          /\ index'[e] # NoEntry => index'[<<e[1], 1>>] # NoEntry
          /\ leases'[e] # NoLease => index'[e] = NoEntry
    BY <2>1, FilesArePairs
  <2>3. QED BY <2>2 DEF Branch
<1>9. Agreement'
  <2>1. ASSUME NEW d \in Ids \ catalog' PROVE latest'[d] = 1 /\ status'[d] = "queued"
    BY <2>1 DEF IInv, Agreement, CatalogTypes
  <2>2. ASSUME NEW d \in catalog', d # c
        PROVE  /\ \A h \in Generations : h > latest'[d] => index'[<<d, h>>] = NoEntry
               /\ (status'[d] = "done") <=> (index'[<<d, latest'[d]>>] # NoEntry)
               /\ latest'[d] > 1 => index'[<<d, 1>>] # NoEntry
    BY <2>2, <1>4, Basics DEF IInv, Agreement, CatalogTypes
  <2>3. /\ \A h \in Generations : h > g => index'[<<c, h>>] = NoEntry
        /\ status'[c] = "done" /\ index'[<<c, g>>] # NoEntry
        /\ g > 1 => index'[<<c, 1>>] # NoEntry
    BY <1>2, <1>3, <1>4, <1>5, Basics DEF IInv, Agreement, CatalogTypes, g
  <2>4. QED BY <2>1, <2>2, <2>3 DEF Agreement, g
<1>10. CandidatesLeased'
  <2>1. \A d \in recovery.pending : d # c
    BY DEF IInv, CandidatesLeased
  <2>2. recovery.pending \subseteq Ids
    BY DEF IInv, CatalogTypes, Recoveries
  <2>3. QED BY <2>1, <2>2, <1>4, Basics DEF IInv, CandidatesLeased
<1>11. (BatchRooted /\ RecoveredForest)'
  BY DEF IInv, BatchRooted, RecoveredForest, HasParent
<1>12. QED BY <1>6, <1>7, <1>8, <1>9, <1>10, <1>11 DEF IInv

LEMMA SettleKeeps ==
  ASSUME RecoveryAssumption, IInv, NEW c \in catalog, NEW f \in {0, 1}, Settle(c, f),
         phase \in {"up", "rebinding"}
  PROVE  IInv'
<1>1. /\ AppendIndex(c, latest[c], [joined |-> FALSE, file |-> f])
      /\ status' = [status EXCEPT ![c] = "done"] /\ file' = [file EXCEPT ![c] = f]
      /\ UNCHANGED <<processVars, historyVars, catalog, latest>>
  BY DEF Settle
<1>2. QED BY <1>1, AppendKeeps

LEMMA LaunchFailsKeeps ==
  ASSUME RecoveryAssumption, IInv, NEW c \in Ids, LaunchFails(c)
  PROVE  IInv'
BY SettleKeeps DEF LaunchFails

LEMMA NoticeExitKeeps ==
  ASSUME RecoveryAssumption, IInv, NEW c \in Ids, NEW f, NoticeExit(c, f)
  PROVE  IInv'
<1>1. c \in catalog /\ phase \in {"up", "rebinding"} /\ Settle(c, f)
  BY DEF NoticeExit
<1>2. f \in {0, 1}
  BY DEF NoticeExit, IInv, FirstFile
<1>3. QED BY <1>1, <1>2, SettleKeeps

LEMMA JoinKeeps ==
  ASSUME RecoveryAssumption, IInv, NEW c \in Ids, Join(c)
  PROVE  IInv'
<1>1. /\ c \in catalog /\ phase = "up" /\ status[c] = "done"
      /\ AppendIndex(c, latest[c], [joined |-> TRUE, file |-> file[c]])
      /\ UNCHANGED <<processVars, historyVars, catalog, latest, status, file>>
  BY DEF Join, IsDone
<1>2. file[c] \in {0, 1}
  BY DEF IInv, FirstFile
<1>3. status' = [status EXCEPT ![c] = "done"] /\ file' = [file EXCEPT ![c] = file[c]]
  BY <1>1 DEF IInv, CatalogTypes
<1>4. QED BY <1>1, <1>2, <1>3, AppendKeeps

(* The next generation is beyond all those that were recorded. *)
LEMMA ResumeKeeps ==
  ASSUME RecoveryAssumption, IInv, NEW c \in Ids, Resume(c)
  PROVE  IInv'
<1> USE DEF branchVars, processVars, historyVars
<1>1. /\ c \in catalog /\ phase = "up" /\ status[c] = "done" /\ latest[c] < MaxGenerations
      /\ latest' = [latest EXCEPT ![c] = latest[c] + 1]
      /\ status' = [status EXCEPT ![c] = "queued"]
      /\ UNCHANGED <<branchVars, processVars, historyVars, catalog, file>>
  BY DEF Resume, IsDone
<1>2. latest[c] \in Generations /\ latest[c] + 1 \in Generations
  BY <1>1, RecoveryAssumption DEF IInv, CatalogTypes, RecoveryAssumption, Generations
<1>3. /\ \A g \in Generations : g > latest[c] => index[<<c, g>>] = NoEntry
      /\ index[<<c, latest[c] + 1>>] = NoEntry
  <2>1. \A g \in Generations : g > latest[c] => index[<<c, g>>] = NoEntry
    BY <1>1 DEF IInv, Agreement
  <2>2. latest[c] + 1 > latest[c]
    BY <1>2, Basics
  <2>3. QED BY <1>2, <2>1, <2>2
<1>4. index[<<c, 1>>] # NoEntry
  <2>1. index[<<c, latest[c]>>] # NoEntry /\ (latest[c] > 1 => index[<<c, 1>>] # NoEntry)
    BY <1>1 DEF IInv, Agreement
  <2>2. latest[c] = 1 \/ latest[c] > 1
    BY <1>2, Basics
  <2>3. QED BY <2>1, <2>2
<1>5. CatalogTypes'
  BY <1>1, <1>2 DEF IInv, CatalogTypes
<1>6. (FirstFile /\ Branch)'
  BY <1>1 DEF IInv, FirstFile, Branch
<1>7. Agreement'
  <2>1. ASSUME NEW d \in Ids, d # c PROVE latest'[d] = latest[d] /\ status'[d] = status[d]
    BY <1>1, <2>1 DEF IInv, CatalogTypes
  <2>2. latest'[c] = latest[c] + 1 /\ status'[c] = "queued"
    BY <1>1 DEF IInv, CatalogTypes
  <2>3. \A h \in Generations : h > latest'[c] => index'[<<c, h>>] = NoEntry
    <3>1. \A h \in Generations : h > latest[c] + 1 => h > latest[c]
      BY <1>2, Basics
    <3>2. index' = index
      BY <1>1
    <3>3. QED BY <1>3, <2>2, <3>1, <3>2
  <2>4. catalog' \subseteq Ids
    BY <1>1 DEF IInv, CatalogTypes
  <2>5. QED BY <1>1, <1>3, <1>4, <2>1, <2>2, <2>3, <2>4 DEF IInv, Agreement
<1>8. (CandidatesLeased /\ BatchRooted /\ RecoveredForest)'
  BY <1>1 DEF IInv, CandidatesLeased, BatchRooted, RecoveredForest, HasParent, NoRecovery
<1>9. QED BY <1>5, <1>6, <1>7, <1>8 DEF IInv

(* Whoever stays has a parent that stays: else it would be of the subtree. *)
LEMMA RemoveSubtreeKeeps ==
  ASSUME RecoveryAssumption, IInv, NEW c \in Ids, RemoveSubtree(c)
  PROVE  IInv'
<1> USE DEF branchVars, processVars
<1> DEFINE gone == Subtree(c)
<1>1. /\ catalog' = catalog \ gone /\ gone \subseteq catalog /\ phase = "up"
      /\ latest' = [d \in Ids |-> IF d \in gone THEN 1 ELSE latest[d]]
      /\ status' = [d \in Ids |-> IF d \in gone THEN "queued" ELSE status[d]]
      /\ file' = [d \in Ids |-> IF d \in gone THEN 0 ELSE file[d]]
      /\ UNCHANGED <<branchVars, processVars, spawned>>
  BY DEF RemoveSubtree, Subtree
<1>2. ASSUME NEW d \in catalog', Parent[d] # Root
      PROVE  Parent[d] \in catalog'
  <2>1. d \in Ids /\ d \in catalog
    BY <1>1, <1>2 DEF IInv, CatalogTypes
  <2>2. Parent[d] \in catalog
    BY <1>2, <2>1 DEF IInv, RecoveredForest, HasParent
  <2>3. Parent[d] \notin gone
    BY <1>1, <1>2, <2>1, LineageOfParent DEF Subtree
  <2>4. QED BY <1>1, <2>2, <2>3
<1> HIDE DEF gone
<1>3. CatalogTypes'
  BY <1>1, Basics, RecoveryAssumption DEF IInv, CatalogTypes, RecoveryAssumption
<1>4. (FirstFile /\ Branch)'
  BY <1>1 DEF IInv, FirstFile, Branch, CatalogTypes
<1>5. Agreement'
  BY <1>1 DEF IInv, Agreement, CatalogTypes
<1>6. (CandidatesLeased /\ BatchRooted)'
  BY <1>1 DEF IInv, CandidatesLeased, BatchRooted, NoRecovery
<1>7. RecoveredForest'
  BY <1>2 DEF RecoveredForest, HasParent
<1>8. QED BY <1>3, <1>4, <1>5, <1>6, <1>7 DEF IInv

LEMMA CrashKeeps ==
  ASSUME RecoveryAssumption, IInv, Crash
  PROVE  IInv'
<1> USE DEF Crash, branchVars, worldVars, historyVars
<1>1. CatalogTypes'
  BY Basics, RecoveryAssumption DEF IInv, CatalogTypes, RecoveryAssumption
<1>2. (FirstFile /\ Branch /\ Agreement)'
  BY DEF IInv, FirstFile, Branch, Agreement
<1>3. (CandidatesLeased /\ BatchRooted /\ RecoveredForest)'
  BY DEF CandidatesLeased, BatchRooted, RecoveredForest, NoRecovery
<1>4. QED BY <1>1, <1>2, <1>3 DEF IInv

(* Neither the world nor a stuttering step touches what IInv is about. *)
LEMMA WorldKeeps ==
  ASSUME IInv, UNCHANGED <<branchVars, processVars, historyVars, catalogVars>>
  PROVE  IInv'
<1> USE DEF branchVars, processVars, historyVars, catalogVars
<1>1. (CatalogTypes /\ FirstFile /\ Branch /\ Agreement)'
  BY DEF IInv, CatalogTypes, FirstFile, Branch, Agreement
<1>2. (CandidatesLeased /\ BatchRooted /\ RecoveredForest)'
  BY DEF IInv, CandidatesLeased, BatchRooted, RecoveredForest, HasParent
<1>3. QED BY <1>1, <1>2 DEF IInv

-----------------------------------------------------------------------------
LEMMA StepKeeps ==
  ASSUME RecoveryAssumption, IInv, [Next]_vars
  PROVE  IInv'
<1>1. CASE RecoveryStep
  BY <1>1, StartKeeps, BeginRoundKeeps, ReboundKeeps, RebindFailsKeeps, EndRecoveryKeeps,
     RefuseKeeps, AwaitRebindingKeeps, RestoreFinishedKeeps DEF RecoveryStep
<1>2. CASE Crash
  BY <1>2, CrashKeeps
<1>3. ASSUME NEW c \in Ids, ConversationStep(c) PROVE IInv'
  BY <1>3, SpawnKeeps, LaunchKeeps, LaunchFailsKeeps, NoticeExitKeeps, JoinKeeps, ResumeKeeps,
     RemoveSubtreeKeeps DEF ConversationStep
<1>4. ASSUME NEW p \in panes, ChildFinishes(p) \/ PaneVanishes(p) PROVE IInv'
  BY <1>4, WorldKeeps DEF ChildFinishes, PaneVanishes
<1>5. CASE UNCHANGED vars
  BY <1>5, WorldKeeps DEF vars
<1>6. QED BY <1>1, <1>2, <1>3, <1>4, <1>5 DEF Next

(* The branch and the catalog agree in every reachable state, also while a *)
(* recovery awaits a rebinding.                                            *)
THEOREM Invariance == Spec => []IInv
<1>1. Init => IInv
  BY RecoveryAssumption, Initially
<1>2. IInv /\ [Next]_vars => IInv'
  BY RecoveryAssumption, StepKeeps
<1>3. QED BY <1>1, <1>2, PTL DEF Spec

(* Also half-way through a recovery and after any number of crashes, no    *)
(* conversation is in the catalog without its parent.                      *)
THEOREM RecoveredTrees == Spec => []RecoveredForest
<1>1. IInv => RecoveredForest
  BY DEF IInv
<1>2. QED BY <1>1, Invariance, PTL

-----------------------------------------------------------------------------
(* Joined results.                                                         *)

KeepsJoined == \A e \in Files : index[e].joined => index'[e].joined

(* An entry is written where there was none, or says that it is joined.    *)
LEMMA AppendKeepsJoined ==
  ASSUME RecoveryAssumption, IInv, NEW c \in Ids, NEW g \in Generations, NEW mark \in BOOLEAN,
         NEW f, AppendIndex(c, g, [joined |-> mark, file |-> f]),
         mark \/ index[<<c, g>>] = NoEntry
  PROVE  \A e \in Files : index[e].joined => index'[e].joined
<1> DEFINE entry == [joined |-> mark, file |-> f]
<1>1. index' = [index EXCEPT ![<<c, g>>] = entry] /\ entry.joined = mark
  BY DEF AppendIndex
<1> HIDE DEF entry
<1>2. \A e \in Files : index'[e] = IF e = <<c, g>> THEN entry ELSE index[e]
  BY <1>1, Basics DEF IInv, CatalogTypes
<1>3. index[<<c, g>>].joined => mark
  BY DEF NoEntry
<1>4. QED BY <1>1, <1>2, <1>3

LEMMA StepKeepsJoined ==
  ASSUME RecoveryAssumption, IInv, [Next]_vars
  PROVE  KeepsJoined
<1>1. index' = index => KeepsJoined
  BY DEF KeepsJoined
<1>2. ASSUME NEW c \in Ids, NEW f, RestoreFinished(c, f) PROVE KeepsJoined
  <2>1. LeasedGeneration(c) = 1 /\ index[<<c, 1>>] = NoEntry
    BY <1>2, LeasedIsFirst, Basics DEF RestoreFinished, IInv, CandidatesLeased
  <2>2. AppendIndex(c, 1, [joined |-> FALSE, file |-> f])
    BY <1>2, <2>1 DEF RestoreFinished
  <2>3. QED BY <2>1, <2>2, AppendKeepsJoined, Basics DEF KeepsJoined
<1>3. ASSUME NEW c \in catalog, NEW f, Settle(c, f), status[c] # "done" PROVE KeepsJoined
  <2>1. c \in Ids /\ latest[c] \in Generations /\ index[<<c, latest[c]>>] = NoEntry
    BY <1>3 DEF IInv, Agreement, CatalogTypes
  <2>2. AppendIndex(c, latest[c], [joined |-> FALSE, file |-> f])
    BY <1>3 DEF Settle
  <2>3. QED BY <2>1, <2>2, AppendKeepsJoined DEF KeepsJoined
<1>4. ASSUME NEW c \in Ids, Join(c) PROVE KeepsJoined
  <2>1. latest[c] \in Generations
    BY DEF IInv, CatalogTypes
  <2>2. AppendIndex(c, latest[c], [joined |-> TRUE, file |-> file[c]])
    BY <1>4 DEF Join
  <2>3. QED BY <2>1, <2>2, AppendKeepsJoined DEF KeepsJoined
<1>5. CASE RecoveryStep
  BY <1>1, <1>2, <1>5
     DEF RecoveryStep, Start, BeginRound, Rebound, RebindFails, EndRecovery, Refuse,
         AwaitRebinding, branchVars
<1>6. ASSUME NEW c \in Ids, ConversationStep(c) PROVE KeepsJoined
  <2>1. CASE LaunchFails(c) \/ \E f \in 0..MaxGenerations : NoticeExit(c, f)
    BY <1>3, <2>1 DEF LaunchFails, NoticeExit
  <2>2. CASE Spawn(c) \/ Launch(c) \/ Resume(c) \/ RemoveSubtree(c)
    BY <1>1, <2>2 DEF Spawn, Launch, Resume, RemoveSubtree, branchVars
  <2>3. QED BY <1>4, <1>6, <2>1, <2>2 DEF ConversationStep
<1>7. ASSUME NEW p \in panes, ChildFinishes(p) \/ PaneVanishes(p) PROVE KeepsJoined
  BY <1>1, <1>7 DEF ChildFinishes, PaneVanishes, branchVars
<1>8. CASE Crash \/ UNCHANGED vars
  BY <1>1, <1>8 DEF Crash, vars, branchVars
<1>9. QED BY <1>5, <1>6, <1>7, <1>8 DEF Next

(* A result that was collected stays collected.                            *)
THEOREM ResultsStayJoined == Spec => JoinedStays
<1>1. IInv /\ [Next]_vars =>
        [\A e \in Files : index[e].joined => index'[e].joined]_vars
  BY RecoveryAssumption, StepKeepsJoined DEF KeepsJoined
<1>2. QED BY <1>1, Invariance, PTL DEF Spec, JoinedStays
-----------------------------------------------------------------------------
(* The types of what IInv does not speak of.  The branch lists every       *)
(* conversation that has an entry by its completion.                       *)
RestTyped ==
  /\ ended \in Seq(Ids)
  /\ panes \subseteq Panes /\ working \subseteq panes /\ sidecars \subseteq Files
  /\ phase \in {"down", "recovering", "rebinding", "up"} /\ limit \in Limits \cup {0}
  /\ removed \subseteq Ids /\ joined \subseteq catalog
  /\ pane \in [Ids -> Panes \cup {NoPane}]

CompletionsListed ==
  \A e \in Files : index[e] # NoEntry => \E i \in 1..Len(ended) : ended[i] = e[1]

ListInv == RestTyped /\ CompletionsListed

(* A first entry is listed, and whatever was listed before still is.       *)
LEMMA AppendLists ==
  ASSUME IInv, ListInv, NEW c \in Ids, NEW g, NEW entry, AppendIndex(c, g, entry)
  PROVE  ended' \in Seq(Ids) /\ CompletionsListed'
<1> DEFINE rest == RemoveFirst(ended, c)
<1>1. /\ index' = [index EXCEPT ![<<c, g>>] = entry]
      /\ ended' = IF index[<<c, g>>] = NoEntry THEN Append(rest, c) ELSE ended
  BY DEF AppendIndex
<1>2. /\ ended \in Seq(Ids) /\ rest \in Seq(Ids)
      /\ \A i \in 1..Len(ended) :
           ended[i] # c => \E j \in 1..Len(rest) : rest[j] = ended[i]
  BY RemoveFirstElements DEF ListInv, RestTyped
<1> HIDE DEF rest
<1>3. /\ Append(rest, c) \in Seq(Ids) /\ Len(Append(rest, c)) = Len(rest) + 1
      /\ Append(rest, c)[Len(rest) + 1] = c /\ Len(rest) \in Nat
      /\ \A j \in 1..Len(rest) : Append(rest, c)[j] = rest[j]
  BY <1>2
<1>4. ended' \in Seq(Ids)
  BY <1>1, <1>2, <1>3
<1>5. ASSUME NEW e \in Files, index'[e] # NoEntry PROVE \E i \in 1..Len(ended') : ended'[i] = e[1]
  <2>1. index[e] # NoEntry \/ e = <<c, g>>
    BY <1>1, <1>5 DEF IInv, CatalogTypes
  <2>2. CASE index[<<c, g>>] # NoEntry
    <3>1. index[e] # NoEntry /\ ended' = ended
      BY <1>1, <2>1, <2>2
    <3>2. QED BY <3>1 DEF ListInv, CompletionsListed
  <2>3. CASE index[<<c, g>>] = NoEntry
    <3>1. ended' = Append(rest, c)
      BY <1>1, <2>3
    <3>2. CASE e[1] = c
      <4>1. Len(rest) + 1 \in 1..Len(ended')
        BY <1>3, <3>1
      <4>2. QED BY <1>3, <3>1, <3>2, <4>1
    <3>3. CASE e[1] # c
      <4>1. index[e] # NoEntry
        BY <2>1, <3>3
      <4>2. PICK i \in 1..Len(ended) : ended[i] = e[1]
        BY <4>1 DEF ListInv, CompletionsListed
      <4>3. PICK j \in 1..Len(rest) : rest[j] = e[1]
        BY <1>2, <3>3, <4>2
      <4>4. j \in 1..Len(ended') /\ ended'[j] = e[1]
        BY <1>3, <3>1, <4>3
      <4>5. QED BY <4>4
    <3>4. QED BY <3>2, <3>3
  <2>4. QED BY <2>2, <2>3
<1>6. QED BY <1>4, <1>5 DEF CompletionsListed

LEMMA SettleLists ==
  ASSUME RecoveryAssumption, IInv, ListInv, NEW c \in catalog, NEW f, Settle(c, f)
  PROVE  ListInv'
<1>1. c \in Ids /\ AppendIndex(c, latest[c], [joined |-> FALSE, file |-> f])
  BY DEF Settle, IInv, CatalogTypes
<1>2. ended' \in Seq(Ids) /\ CompletionsListed'
  BY <1>1, AppendLists
<1>3. RestTyped'
  BY <1>2 DEF Settle, ListInv, RestTyped, processVars, historyVars
<1>4. QED BY <1>2, <1>3 DEF ListInv

LEMMA RecoveryLists ==
  ASSUME RecoveryAssumption, IInv, ListInv, RecoveryStep
  PROVE  ListInv'
<1> USE DEF ListInv
<1>1. CASE Start
  BY <1>1 DEF Start, RestTyped, CompletionsListed, branchVars, worldVars, historyVars, catalogVars
<1>2. ASSUME NEW T \in SUBSET Ids, Restore(T), phase' \in {"recovering", "up"},
             UNCHANGED <<branchVars, worldVars, limit, historyVars>>
      PROVE  ListInv'
  <2>1. /\ joined' \subseteq catalog' /\ pane' \in [Ids -> Panes \cup {NoPane}]
    BY <1>2 DEF Restore, RestTyped
  <2>2. QED
    BY <1>2, <2>1 DEF RestTyped, CompletionsListed, branchVars, worldVars, historyVars
<1>3. CASE BeginRound \/ EndRecovery
  <2>1. \A R \in SUBSET Recoverable : \A b : Restorable(R, b) \subseteq Ids
    BY DEF Restorable, Recoverable
  <2>2. CASE BeginRound
    <3>1. PICK T \in SUBSET Ids : Restore(T)
      BY <2>1, <2>2 DEF BeginRound
    <3>2. QED BY <1>2, <2>2, <3>1 DEF BeginRound
  <2>3. CASE EndRecovery
    <3>1. PICK T \in SUBSET Ids : Restore(T)
      BY <2>1, <2>3 DEF EndRecovery
    <3>2. QED BY <1>2, <2>3, <3>1 DEF EndRecovery
  <2>4. QED BY <1>3, <2>2, <2>3
<1>4. CASE Rebound
  <2>1. leases[<<recovery.at, LeasedGeneration(recovery.at)>>].pane \in Panes
    BY <1>4 DEF Rebound, RestTyped
  <2>2. pane' \in [Ids -> Panes \cup {NoPane}]
    BY <1>4, <2>1 DEF Rebound, RestTyped
  <2>3. QED
    BY <1>4, <2>2 DEF Rebound, Insert, RestTyped, CompletionsListed, branchVars, worldVars,
                      historyVars
<1>5. CASE RebindFails
  BY <1>5 DEF RebindFails, RestTyped, CompletionsListed, branchVars, worldVars, historyVars,
              catalogVars
<1>6. ASSUME NEW c \in Ids, Refuse(c) \/ AwaitRebinding(c) PROVE ListInv'
  BY <1>6 DEF Refuse, AwaitRebinding, RestTyped, CompletionsListed, branchVars, worldVars,
              historyVars, catalogVars
<1>7. ASSUME NEW c \in Ids, NEW f, RestoreFinished(c, f) PROVE ListInv'
  <2>1. ended' \in Seq(Ids) /\ CompletionsListed'
    BY <1>7, AppendLists DEF RestoreFinished
  <2>2. pane' \in [Ids -> Panes \cup {NoPane}] /\ joined' \subseteq catalog'
    BY <1>7 DEF RestoreFinished, Insert, RestTyped
  <2>3. QED
    BY <1>7, <2>1, <2>2 DEF RestoreFinished, RestTyped, worldVars, historyVars
<1>8. QED BY <1>1, <1>3, <1>4, <1>5, <1>6, <1>7 DEF RecoveryStep

LEMMA ConversationLists ==
  ASSUME RecoveryAssumption, IInv, ListInv, NEW c \in Ids, ConversationStep(c)
  PROVE  ListInv'
<1> USE DEF ListInv
<1>1. CASE Spawn(c) \/ Resume(c)
  BY <1>1 DEF Spawn, Resume, RestTyped, CompletionsListed, branchVars, worldVars, processVars,
              historyVars
<1>2. CASE Launch(c)
  <2> DEFINE p == [conversation |-> c, generation |-> latest[c], start |-> starts]
             f == IF latest[c] = 1 THEN 1 ELSE file[c]
  <2>1. p \in Panes
    BY DEF IInv, CatalogTypes, Panes
  <2>2. /\ pane' = [pane EXCEPT ![c] = p] /\ panes' = panes \cup {p}
        /\ working' = working \cup {p} /\ sidecars' = sidecars \ {<<c, f>>}
        /\ UNCHANGED <<index, ended, processVars, historyVars, catalog, joined>>
    BY <1>2 DEF Launch
  <2> HIDE DEF p, f
  <2>3. QED BY <2>1, <2>2 DEF RestTyped, CompletionsListed, processVars, historyVars
<1>3. CASE LaunchFails(c) \/ \E f \in 0..MaxGenerations : NoticeExit(c, f)
  BY <1>3, SettleLists DEF LaunchFails, NoticeExit
<1>4. CASE Join(c)
  <2>1. ended' \in Seq(Ids) /\ CompletionsListed'
    BY <1>4, AppendLists DEF Join
  <2>2. QED BY <1>4, <2>1 DEF Join, RestTyped, worldVars, processVars, historyVars
<1>5. CASE RemoveSubtree(c)
  <2>1. Subtree(c) \subseteq Ids
    BY DEF Subtree, IInv, CatalogTypes
  <2>2. QED
    BY <1>5, <2>1 DEF RemoveSubtree, RestTyped, CompletionsListed, branchVars, worldVars,
                      processVars
<1>6. QED BY <1>1, <1>2, <1>3, <1>4, <1>5 DEF ConversationStep

LEMMA StepLists ==
  ASSUME RecoveryAssumption, IInv, ListInv, [Next]_vars
  PROVE  ListInv'
<1>1. CASE RecoveryStep
  BY <1>1, RecoveryLists
<1>2. ASSUME NEW c \in Ids, ConversationStep(c) PROVE ListInv'
  BY <1>2, ConversationLists
<1>3. CASE Crash
  BY <1>3 DEF Crash, ListInv, RestTyped, CompletionsListed, branchVars, worldVars, historyVars
<1>4. ASSUME NEW p \in panes, ChildFinishes(p) \/ PaneVanishes(p) PROVE ListInv'
  <2>1. <<p.conversation, 1>> \in Files
    BY Basics DEF ListInv, RestTyped, Panes
  <2>2. panes' \subseteq Panes /\ working' \subseteq panes' /\ sidecars' \subseteq Files
    BY <1>4, <2>1 DEF ChildFinishes, PaneVanishes, ListInv, RestTyped
  <2>3. QED
    BY <1>4, <2>2 DEF ChildFinishes, PaneVanishes, ListInv, RestTyped, CompletionsListed,
                      branchVars, processVars, historyVars, catalogVars
<1>5. CASE UNCHANGED vars
  BY <1>5 DEF ListInv, RestTyped, CompletionsListed, vars, branchVars, worldVars, processVars,
              historyVars, catalogVars
<1>6. QED BY <1>1, <1>2, <1>3, <1>4, <1>5 DEF Next

LEMMA ListInvariance == Spec => []ListInv
<1>1. Init => ListInv
  BY DEF Init, ListInv, RestTyped, CompletionsListed
<1>2. IInv /\ ListInv /\ [Next]_vars => ListInv'
  BY RecoveryAssumption, StepLists
<1>3. QED BY <1>1, <1>2, Invariance, PTL DEF Spec

(* Every variable has its type, a joined conversation is in the catalog    *)
(* and a working child in a pane that is open.                             *)
THEOREM TypeCorrect == Spec => []TypeOK
<1>1. IInv /\ ListInv => TypeOK
  BY DEF IInv, CatalogTypes, ListInv, RestTyped, TypeOK
<1>2. QED BY <1>1, Invariance, ListInvariance, PTL
-----------------------------------------------------------------------------
(* Room for the leases.  As soon as a terminal conversation was restored,  *)
(* what is in the catalog and all that are still to be tried fit together. *)
RoomReserved ==
  /\ recovery.pending \subseteq recovery.candidates
  /\ LeasesReserveCapacity
  /\ phase \in {"recovering", "rebinding"} /\ ~(catalog \subseteq recovery.candidates) =>
       Cardinality(catalog \cup recovery.pending) <= limit

LEMMA MinOfInts ==
  ASSUME NEW m \in Int, NEW n \in Int
  PROVE  Min({m, n}) \in {m, n} /\ Min({m, n}) <= m /\ Min({m, n}) <= n
<1>1. \E x \in {m, n} : \A y \in {m, n} : x <= y
  OBVIOUS
<1>2. Min({m, n}) \in {m, n} /\ \A y \in {m, n} : Min({m, n}) <= y
  BY <1>1 DEF Min
<1>3. QED BY <1>2

LEMMA IdsCounted ==
  ASSUME RecoveryAssumption, NEW S \in SUBSET Ids
  PROVE  /\ IsFiniteSet(S) /\ Cardinality(S) \in Nat
         /\ \A P \in SUBSET S : Cardinality(P) <= Cardinality(S)
<1>1. IsFiniteSet(S)
  BY RecoveryAssumption, FS_Subset DEF RecoveryAssumption
<1>2. QED BY <1>1, FS_Subset, FS_CardinalityType

LEMMA UnionCounted ==
  ASSUME RecoveryAssumption, NEW S \in SUBSET Ids, NEW P \in SUBSET Ids
  PROVE  /\ Cardinality(S \cup P) <= Cardinality(S) + Cardinality(P)
         /\ S \cap P = {} => Cardinality(S \cup P) = Cardinality(S) + Cardinality(P)
<1>1. /\ IsFiniteSet(S) /\ Cardinality(S) \in Nat /\ IsFiniteSet(P) /\ Cardinality(P) \in Nat
      /\ S \cap P \in SUBSET Ids
  BY IdsCounted
<1>2. Cardinality(S \cap P) \in Nat
  BY <1>1, IdsCounted
<1>3. Cardinality(S \cup P) = Cardinality(S) + Cardinality(P) - Cardinality(S \cap P)
  BY <1>1, FS_Union
<1>4. S \cap P = {} => Cardinality(S \cap P) = 0
  BY FS_EmptySet
<1>5. QED BY <1>1, <1>2, <1>3, <1>4

LEMMA RecoveryTypes ==
  ASSUME RecoveryAssumption, IInv, ListInv
  PROVE  /\ catalog \subseteq Ids /\ recovery.pending \subseteq Ids
         /\ recovery.candidates \subseteq Ids /\ recovery.batch \subseteq recovery.pending
         /\ recovery.pending \cap catalog = {}
         /\ recovery.cap \in Nat /\ recovery.terminals \in Nat /\ limit \in Nat
         /\ ended \in Seq(Ids)
         /\ Cardinality(catalog) \in Nat /\ Cardinality(recovery.pending) \in Nat
<1>1. /\ catalog \subseteq Ids /\ recovery \in Recoveries
      /\ recovery.batch \subseteq recovery.pending /\ recovery.pending \cap catalog = {}
  BY DEF IInv, CatalogTypes, CandidatesLeased
<1>2. /\ recovery.pending \subseteq Ids /\ recovery.candidates \subseteq Ids
      /\ recovery.cap \in Nat /\ recovery.terminals \in Nat
  BY <1>1 DEF Recoveries
<1>3. ended \in Seq(Ids) /\ limit \in Nat
  BY RecoveryAssumption DEF RecoveryAssumption, ListInv, RestTyped
<1>4. QED BY <1>1, <1>2, <1>3, IdsCounted

(* Of two that can be chosen as long as there is room, the terminal        *)
(* ancestors take what the candidates leave.                               *)
LEMMA BeginRoundReserves ==
  ASSUME RecoveryAssumption, IInv, ListInv, RoomReserved, BeginRound
  PROVE  RoomReserved'
<1> DEFINE R == Recoverable \cap TerminalAncestors(recovery.candidates)
           budget == PriorityBudget(recovery)
           T == Restorable(R, budget)
<1>1. /\ catalog' = catalog \cup T /\ limit' = limit
      /\ recovery'.pending = recovery.pending /\ recovery'.candidates = recovery.candidates
      /\ recovery'.refused = recovery.refused /\ phase = "recovering"
  BY DEF BeginRound, Restore, IInv, CatalogTypes, Recoveries
<1>2. budget \in Int /\ budget <= limit - Cardinality(catalog) - Cardinality(recovery.pending)
  <2> DEFINE m == recovery.cap - recovery.terminals
             n == limit - Cardinality(catalog) - Cardinality(recovery.pending)
  <2>1. m \in Int /\ n \in Int
    BY RecoveryTypes
  <2>2. budget = Min({m, n})
    BY DEF PriorityBudget
  <2> HIDE DEF m, n, budget
  <2>3. budget \in Int /\ budget <= n
    BY <2>1, <2>2, MinOfInts
  <2>4. QED BY <2>3 DEF n
<1>3. R \in SUBSET (Ids \ catalog)
  BY DEF Recoverable
<1> HIDE DEF R, budget
<1>4. T \subseteq R /\ (T = {} \/ Cardinality(T) <= budget)
  <2>1. T = Selected(R, budget)
    BY <1>2, <1>3, RecoveryTypes, RestorableIsSelected
  <2> HIDE DEF T
  <2>2. QED BY <2>1, <1>2, <1>3, RecoveryTypes, SelectedFacts
<1> HIDE DEF T
<1>5. CASE T = {}
  BY <1>1, <1>5 DEF RoomReserved, LeasesReserveCapacity
<1>6. CASE T # {}
  <2>1. /\ T \in SUBSET Ids /\ catalog \in SUBSET Ids /\ recovery.pending \in SUBSET Ids
        /\ catalog \cup T \in SUBSET Ids
    BY <1>3, <1>4, RecoveryTypes
  <2>2. /\ Cardinality((catalog \cup T) \cup recovery.pending)
             <= Cardinality(catalog \cup T) + Cardinality(recovery.pending)
        /\ Cardinality(catalog \cup T) <= Cardinality(catalog) + Cardinality(T)
    BY <2>1, UnionCounted
  <2>3. /\ Cardinality(T) \in Nat /\ Cardinality(catalog \cup T) \in Nat
        /\ (catalog \cup T) \cup recovery.pending \in SUBSET Ids
    BY <2>1, IdsCounted
  <2>4. Cardinality((catalog \cup T) \cup recovery.pending) \in Nat
    BY <2>3, IdsCounted
  <2>5. Cardinality((catalog \cup T) \cup recovery.pending) <= limit
    BY <1>2, <1>4, <1>6, <2>2, <2>3, <2>4, RecoveryTypes
  <2>6. QED BY <1>1, <2>5 DEF RoomReserved, LeasesReserveCapacity
<1>7. QED BY <1>5, <1>6

(* A candidate that was not restored gives up its room. *)
LEMMA DroppedReserves ==
  ASSUME RecoveryAssumption, IInv, ListInv, RoomReserved, NEW c \in recovery.batch,
         NEW refusal \in SUBSET Ids, CandidateOver(c, FALSE, refusal),
         phase \in {"recovering", "rebinding"}, UNCHANGED <<catalog, limit>>,
         refusal # {} => Cardinality(catalog) >= limit
  PROVE  RoomReserved'
<1>1. /\ recovery'.pending = recovery.pending \ {c}
      /\ recovery'.candidates = recovery.candidates
      /\ recovery'.refused = recovery.refused \cup refusal
  BY DEF CandidateOver, IInv, CatalogTypes, Recoveries
<1>2. c \in recovery.pending /\ c \notin catalog /\ c \in recovery.candidates /\ c \in Ids
  BY RecoveryTypes DEF RoomReserved
<1>3. ASSUME refusal # {} PROVE Cardinality(recovery.candidates) > limit
  <2>1. Cardinality(catalog \cup {c}) > limit
    <3>1. IsFiniteSet(catalog)
      BY RecoveryTypes, IdsCounted
    <3>2. Cardinality(catalog \cup {c}) = Cardinality(catalog) + 1
      BY <1>2, <3>1, FS_AddElement
    <3>3. QED BY <1>3, <3>2, RecoveryTypes
  <2>2. ASSUME NEW S \in SUBSET Ids, catalog \cup {c} \in SUBSET S
        PROVE  Cardinality(S) > limit
    <3>1. Cardinality(S) \in Nat /\ Cardinality(catalog \cup {c}) <= Cardinality(S)
      BY <2>2, IdsCounted
    <3>2. Cardinality(catalog \cup {c}) \in Nat
      BY <1>2, RecoveryTypes, IdsCounted
    <3>3. QED BY <2>1, <3>1, <3>2, RecoveryTypes
  <2>3. catalog \subseteq recovery.candidates
    <3>1. Cardinality(catalog \cup recovery.pending) > limit
      BY <1>2, <2>2, RecoveryTypes
    <3>2. Cardinality(catalog \cup recovery.pending) \in Nat
      BY RecoveryTypes, IdsCounted
    <3>3. QED BY <3>1, <3>2, RecoveryTypes DEF RoomReserved
  <2>4. QED BY <1>2, <2>2, <2>3, RecoveryTypes
<1>4. Cardinality(catalog \cup (recovery.pending \ {c})) <= Cardinality(catalog \cup recovery.pending)
  BY RecoveryTypes, IdsCounted
<1>5. /\ Cardinality(catalog \cup (recovery.pending \ {c})) \in Nat
      /\ Cardinality(catalog \cup recovery.pending) \in Nat
  BY RecoveryTypes, IdsCounted
<1>6. QED
  BY <1>1, <1>3, <1>4, <1>5, RecoveryTypes DEF RoomReserved, LeasesReserveCapacity

(* A candidate that was restored takes the room it had. *)
LEMMA RestoredReserves ==
  ASSUME RoomReserved, IInv, NEW c \in recovery.batch, CandidateOver(c, TRUE, {}),
         phase \in {"recovering", "rebinding"}, catalog' = catalog \cup {c}, limit' = limit
  PROVE  RoomReserved'
<1>1. /\ recovery'.pending = recovery.pending \ {c}
      /\ recovery'.candidates = recovery.candidates /\ recovery'.refused = recovery.refused
      /\ c \in recovery.pending
  BY DEF CandidateOver, IInv, CatalogTypes, CandidatesLeased, Recoveries
<1>2. catalog' \cup recovery'.pending = catalog \cup recovery.pending
  BY <1>1
<1>3. QED BY <1>1, <1>2 DEF RoomReserved, LeasesReserveCapacity

LEMMA RecoveryReserves ==
  ASSUME RecoveryAssumption, IInv, ListInv, RoomReserved, RecoveryStep
  PROVE  RoomReserved'
<1>1. CASE Start
  <2>1. PICK k : recovery' = [NoRecovery EXCEPT !.candidates = {e[1] : e \in ActiveLeases},
                                                !.pending = {e[1] : e \in ActiveLeases},
                                                !.cap = k]
    BY <1>1 DEF Start
  <2>2. recovery'.pending = recovery'.candidates /\ recovery'.refused = {}
    BY <2>1 DEF NoRecovery
  <2>3. catalog' = {}
    BY <1>1 DEF Start, catalogVars, IInv, CandidatesLeased
  <2>4. QED BY <2>2, <2>3 DEF RoomReserved, LeasesReserveCapacity
<1>2. CASE BeginRound
  BY <1>2, BeginRoundReserves
<1>3. CASE EndRecovery
  BY <1>3 DEF EndRecovery, NoRecovery, RoomReserved, LeasesReserveCapacity
<1>4. CASE Rebound
  <2>1. /\ recovery.at \in recovery.batch /\ CandidateOver(recovery.at, TRUE, {})
        /\ phase = "rebinding" /\ catalog' = catalog \cup {recovery.at} /\ limit' = limit
    BY <1>4 DEF Rebound, Insert, IInv, BatchRooted
  <2>2. QED BY <2>1, RestoredReserves
<1>5. CASE RebindFails
  <2>1. /\ recovery.at \in recovery.batch /\ CandidateOver(recovery.at, FALSE, {})
        /\ phase = "rebinding" /\ UNCHANGED <<catalog, limit>> /\ {} \in SUBSET Ids
    BY <1>5 DEF RebindFails, catalogVars, IInv, BatchRooted
  <2>2. QED BY <2>1, DroppedReserves
<1>6. ASSUME NEW c \in Ids, Refuse(c) PROVE RoomReserved'
  <2>1. /\ c \in recovery.batch /\ CandidateOver(c, FALSE, {c}) /\ {c} \in SUBSET Ids
        /\ phase = "recovering" /\ UNCHANGED <<catalog, limit>> /\ Cardinality(catalog) >= limit
    BY <1>6 DEF Refuse, catalogVars
  <2>2. QED BY <2>1, DroppedReserves
<1>7. ASSUME NEW c \in Ids, AwaitRebinding(c) PROVE RoomReserved'
  <2>1. /\ recovery'.pending = recovery.pending /\ recovery'.candidates = recovery.candidates
        /\ recovery'.refused = recovery.refused /\ phase = "recovering"
        /\ UNCHANGED <<catalog, limit>>
    BY <1>7 DEF AwaitRebinding, catalogVars, IInv, CatalogTypes, Recoveries
  <2>2. QED BY <2>1 DEF RoomReserved, LeasesReserveCapacity
<1>8. ASSUME NEW c \in Ids, NEW f, RestoreFinished(c, f) PROVE RoomReserved'
  <2>1. /\ c \in recovery.batch /\ CandidateOver(c, TRUE, {}) /\ phase = "recovering"
        /\ catalog' = catalog \cup {c} /\ limit' = limit
    BY <1>8 DEF RestoreFinished, Insert
  <2>2. QED BY <2>1, RestoredReserves
<1>9. QED BY <1>1, <1>2, <1>3, <1>4, <1>5, <1>6, <1>7, <1>8 DEF RecoveryStep

LEMMA StepReserves ==
  ASSUME RecoveryAssumption, IInv, ListInv, RoomReserved, [Next]_vars
  PROVE  RoomReserved'
<1>1. ASSUME UNCHANGED <<recovery, limit, phase>>, phase = "up" \/ UNCHANGED catalog
      PROVE  RoomReserved'
  BY <1>1 DEF RoomReserved, LeasesReserveCapacity
<1>2. CASE RecoveryStep
  BY <1>2, RecoveryReserves
<1>3. CASE Crash
  BY <1>3 DEF Crash, NoRecovery, RoomReserved, LeasesReserveCapacity
<1>4. ASSUME NEW c \in Ids, ConversationStep(c) PROVE RoomReserved'
  <2>1. UNCHANGED processVars
    BY <1>4 DEF ConversationStep, Spawn, Launch, LaunchFails, NoticeExit, Settle, Join, Resume,
                RemoveSubtree
  <2>2. phase = "up" \/ UNCHANGED catalog
    BY <1>4 DEF ConversationStep, Spawn, Launch, LaunchFails, NoticeExit, Settle, Join, Resume,
                RemoveSubtree
  <2>3. QED BY <1>1, <2>1, <2>2 DEF processVars
<1>5. ASSUME NEW p \in panes, ChildFinishes(p) \/ PaneVanishes(p) PROVE RoomReserved'
  BY <1>1, <1>5 DEF ChildFinishes, PaneVanishes, processVars, catalogVars
<1>6. CASE UNCHANGED vars
  BY <1>1, <1>6 DEF vars, processVars, catalogVars
<1>7. QED BY <1>2, <1>3, <1>4, <1>5, <1>6 DEF Next

LEMMA RoomInvariance == Spec => []RoomReserved
<1>1. Init => RoomReserved
  BY DEF Init, NoRecovery, RoomReserved, LeasesReserveCapacity
<1>2. IInv /\ ListInv /\ RoomReserved /\ [Next]_vars => RoomReserved'
  BY RecoveryAssumption, StepReserves
<1>3. QED BY <1>1, <1>2, Invariance, ListInvariance, PTL DEF Spec

(* A candidate is turned away for lack of room only when there are more    *)
(* candidates than room: no terminal conversation took it.                 *)
THEOREM CapacityIsReserved == Spec => []LeasesReserveCapacity
<1>1. RoomReserved => LeasesReserveCapacity
  BY DEF RoomReserved
<1>2. QED BY <1>1, RoomInvariance, PTL

-----------------------------------------------------------------------------
(* What is left out at the end of a recovery does not fit.                 *)
NothingFits ==
  \A c \in Recoverable \ catalog' :
    LET missing == Lineage(c) \ catalog'
    IN  \/ ~(missing \subseteq Recoverable)
        \/ Cardinality(catalog' \cup missing) > limit
        \/ recovery.terminals + Cardinality((catalog' \cup missing) \ catalog) > recovery.cap

LEMMA EndFills ==
  ASSUME RecoveryAssumption, IInv, ListInv, EndRecovery
  PROVE  NothingFits
<1> DEFINE budget == Min({recovery.cap - recovery.terminals, limit - Cardinality(catalog)})
           T == Restorable(Recoverable, budget)
<1>1. catalog' = catalog \cup T
  BY DEF EndRecovery, Restore
<1>2. /\ budget \in Int
      /\ budget \in {recovery.cap - recovery.terminals, limit - Cardinality(catalog)}
  <2> DEFINE m == recovery.cap - recovery.terminals
             n == limit - Cardinality(catalog)
  <2>1. m \in Int /\ n \in Int
    BY RecoveryTypes
  <2>2. budget = Min({m, n})
    OBVIOUS
  <2> HIDE DEF m, n, budget
  <2>3. budget \in Int /\ budget \in {m, n}
    BY <2>1, <2>2, MinOfInts
  <2>4. QED BY <2>3 DEF m, n
<1> HIDE DEF budget
<1>3. Recoverable \in SUBSET (Ids \ catalog)
  BY DEF Recoverable
<1>4. T = Selected(Recoverable, budget)
  BY <1>2, <1>3, RecoveryTypes, RestorableIsSelected
<1> HIDE DEF T
<1>5. /\ T \subseteq Recoverable
      /\ \A i \in 1..Len(ended) :
           ended[i] \in Recoverable \ T =>
             \/ ~(Chain(ended[i]) \subseteq Recoverable)
             \/ Cardinality(T \cup Chain(ended[i])) > budget
  BY <1>2, <1>3, <1>4, RecoveryTypes, SelectedFacts
<1>6. ASSUME NEW c \in Recoverable \ catalog', Lineage(c) \ catalog' \subseteq Recoverable
      PROVE  \/ Cardinality(catalog' \cup (Lineage(c) \ catalog')) > limit
             \/ recovery.terminals
                  + Cardinality((catalog' \cup (Lineage(c) \ catalog')) \ catalog) > recovery.cap
  <2> DEFINE all == T \cup Chain(c)
  <2>1. PICK i \in 1..Len(ended) : ended[i] = c
    <3>1. PICK n \in Generations : Indexed(c) = 1..n
      BY <1>6 DEF Recoverable
    <3>2. 1 \in Indexed(c) /\ <<c, 1>> \in Files
      BY <1>3, <1>6, <3>1, Basics DEF Generations
    <3>3. QED BY <3>2 DEF Indexed, ListInv, CompletionsListed
  <2>2. Chain(c) \subseteq Recoverable
    BY <1>1, <1>5, <1>6 DEF Chain
  <2>3. Cardinality(all) > budget
    BY <1>1, <1>5, <1>6, <2>1, <2>2
  <2>4. /\ all \subseteq Ids /\ all \cap catalog = {}
        /\ catalog' \cup (Lineage(c) \ catalog') = catalog \cup all
        /\ (catalog' \cup (Lineage(c) \ catalog')) \ catalog = all
    BY <1>1, <1>3, <1>5, <2>2 DEF Chain
  <2> HIDE DEF all
  <2>5. Cardinality(catalog \cup all) = Cardinality(catalog) + Cardinality(all)
    BY <2>4, RecoveryTypes, UnionCounted
  <2>6. Cardinality(all) \in Nat
    BY <2>4, IdsCounted
  <2>7. CASE budget = limit - Cardinality(catalog)
    <3>1. Cardinality(catalog) + Cardinality(all) > limit
      BY <2>3, <2>6, <2>7, RecoveryTypes
    <3>2. QED BY <2>4, <2>5, <3>1
  <2>8. CASE budget = recovery.cap - recovery.terminals
    <3>1. recovery.terminals + Cardinality(all) > recovery.cap
      BY <2>3, <2>6, <2>8, RecoveryTypes
    <3>2. QED BY <2>4, <3>1
  <2>9. QED BY <1>2, <2>7, <2>8
<1>7. QED BY <1>6 DEF NothingFits

LEMMA StepFills ==
  ASSUME RecoveryAssumption, IInv, ListInv, [Next]_vars, phase = "recovering", phase' = "up"
  PROVE  NothingFits
<1>1. EndRecovery
  <2>1. CASE RecoveryStep
    BY <2>1 DEF RecoveryStep, Start, BeginRound, Rebound, RebindFails, Refuse, AwaitRebinding,
                RestoreFinished
  <2>2. CASE Crash
    BY <2>2 DEF Crash
  <2>3. ASSUME NEW c \in Ids, ConversationStep(c) PROVE FALSE
    BY <2>3 DEF ConversationStep, Spawn, Launch, LaunchFails, NoticeExit, Settle, Join, Resume,
                RemoveSubtree, processVars
  <2>4. ASSUME NEW p \in panes, ChildFinishes(p) \/ PaneVanishes(p) PROVE FALSE
    BY <2>4 DEF ChildFinishes, PaneVanishes, processVars
  <2>5. CASE UNCHANGED vars
    BY <2>5 DEF vars, processVars
  <2>6. QED BY <2>1, <2>2, <2>3, <2>4, <2>5 DEF Next
<1>2. QED BY <1>1, EndFills

(* A recovery leaves room only when nothing fits there: the candidates     *)
(* come first, and no terminal conversation is left out that would fit     *)
(* with the ancestors it needs.                                            *)
THEOREM RecoveryFillsUp == Spec => RecoveryFills
<1>1. IInv /\ ListInv /\ [Next]_vars =>
        [phase = "recovering" /\ phase' = "up" =>
           \A c \in Recoverable \ catalog' :
             LET missing == Lineage(c) \ catalog'
             IN  \/ ~(missing \subseteq Recoverable)
                 \/ Cardinality(catalog' \cup missing) > limit
                 \/ recovery.terminals + Cardinality((catalog' \cup missing) \ catalog)
                      > recovery.cap]_vars
  BY RecoveryAssumption, StepFills DEF NothingFits
<1>2. QED
  BY <1>1, CapacityIsReserved, Invariance, ListInvariance, PTL DEF Spec, RecoveryFills
===============================================================================
