--------------------------- MODULE SessionProofs ----------------------------
(***************************************************************************)
(* Theorems about Session, for any tasks, personas and answers, any of the *)
(* extensions and a session of any length: the todo list, the persona and  *)
(* the answers of ask are what the branch of the session says, reminders   *)
(* are spaced, and a turn is prompted as the persona that is active.  Then *)
(* about AskDialog, for any number of options and any deadline: what a     *)
(* question returns matches what was asked and why it ended.               *)
(***************************************************************************)
EXTENDS Session, AskDialog, SequenceTheorems, FiniteSetTheorems, WellFoundedInduction, TLAPS

-----------------------------------------------------------------------------
(* Numbers.  What holds of every number is proved by looking at the least  *)
(* one of which it does not hold.                                          *)
LEMMA LeastNumber ==
  ASSUME NEW S \in SUBSET Nat, S # {}
  PROVE  \E x \in S : \A y \in S : x <= y
  <1>1. PICK x \in S : \A y \in S : <<y, x>> \notin OpToRel(<, Nat)
    BY NatLessThanWellFounded, WFMin
  <1>2. ASSUME NEW y \in S PROVE x <= y
    <2>1. ~(y < x)
      BY <1>1 DEF OpToRel
    <2>2. QED
      BY <2>1
  <1>3. QED
    BY <1>2

LEMMA GreatestNumber ==
  ASSUME NEW n \in Nat, NEW S \in SUBSET (1..n), S # {}
  PROVE  \E x \in S : \A y \in S : y <= x
  <1>1. PICK d \in {n - x : x \in S} : \A e \in {n - x : x \in S} : d <= e
    <2> DEFINE D == {n - x : x \in S}
    <2>0. \A x \in S : n - x \in Nat
      OBVIOUS
    <2>1. D \in SUBSET Nat /\ D # {}
      BY <2>0
    <2> HIDE DEF D
    <2>2. \E d \in D : \A e \in D : d <= e
      BY <2>1, LeastNumber
    <2>3. QED
      BY <2>2 DEF D
  <1>2. PICK x \in S : d = n - x
    OBVIOUS
  <1>3. QED
    BY <1>1, <1>2

-----------------------------------------------------------------------------
(* The tree of a session: paths.                                           *)

ParentsFirst(log) ==
  Len(log) \in Nat /\ \A j \in 1..Len(log) : log[j].parent \in 0..(j - 1)

(* p gives the path of each of the first n entries of log. *)
GivesPaths(p, log, n) ==
  p = [j \in 0..n |-> IF j = 0 THEN {} ELSE p[log[j].parent] \cup {j}]

LEMMA PathsExist ==
  ASSUME NEW log, ParentsFirst(log)
  PROVE  \E p : GivesPaths(p, log, Len(log))
  <1> DEFINE Bad == {n \in 0..Len(log) : ~\E p : GivesPaths(p, log, n)}
  <1> SUFFICES ASSUME Bad # {} PROVE FALSE
    BY DEF ParentsFirst
  <1>1. PICK n \in Bad : \A m \in Bad : n <= m
    <2>1. Bad \in SUBSET Nat
      BY DEF ParentsFirst
    <2> HIDE DEF Bad
    <2>2. QED
      BY <2>1, LeastNumber
  <1>2. n # 0
    <2>1. GivesPaths([j \in 0..0 |-> {}], log, 0)
      <3>1. \A j \in 0..0 : j = 0
        OBVIOUS
      <3>2. QED
        BY <3>1 DEF GivesPaths
    <2>2. QED
      BY <2>1
  <1>3. PICK p : GivesPaths(p, log, n - 1)
    <2>1. n - 1 \in 0..Len(log) /\ n - 1 \notin Bad
      BY <1>1, <1>2 DEF ParentsFirst
    <2>2. QED
      BY <2>1
  <1> DEFINE q == [j \in 0..n |-> IF j = n THEN p[log[n].parent] \cup {n} ELSE p[j]]
  <1>4. n \in 1..Len(log) /\ Len(log) \in Nat
    BY <1>2 DEF ParentsFirst
  <1>5. \A j \in 0..(n - 1) : p[j] = IF j = 0 THEN {} ELSE p[log[j].parent] \cup {j}
    BY <1>3 DEF GivesPaths
  <1>6. \A j \in 1..n : log[j].parent \in 0..(j - 1)
    BY <1>4 DEF ParentsFirst
  <1>7. \A j \in 0..n : q[j] = IF j = 0 THEN {} ELSE q[log[j].parent] \cup {j}
    <2>1. ASSUME NEW j \in 0..n PROVE q[j] = IF j = 0 THEN {} ELSE q[log[j].parent] \cup {j}
      <3>1. CASE j = 0
        <4>1. 0 \in 0..(n - 1) /\ 0 \in 0..n /\ 0 # n
          BY <1>4
        <4>2. q[0] = p[0] /\ p[0] = {}
          BY <4>1, <1>5
        <4>3. QED
          BY <3>1, <4>2
      <3>2. CASE j # 0
        <4>1. log[j].parent \in 0..n /\ log[j].parent # n
          BY <3>2, <1>4, <1>6
        <4>2. q[log[j].parent] = p[log[j].parent]
          BY <4>1
        <4>3. CASE j = n
          BY <3>2, <4>2, <4>3
        <4>4. CASE j # n
          <5>1. j \in 0..(n - 1) /\ q[j] = p[j]
            BY <4>4, <1>4
          <5>2. QED
            BY <3>2, <4>2, <5>1, <1>5
        <4>5. QED
          BY <4>3, <4>4
      <3>3. QED
        BY <3>1, <3>2
    <2>2. QED
      BY <2>1
  <1> HIDE DEF q
  <1>8. GivesPaths(q, log, n)
    <2>1. q = [j \in 0..n |-> q[j]]
      BY DEF q
    <2>2. QED
      BY <2>1, <1>7 DEF GivesPaths
  <1>9. QED
    BY <1>8

(* The branch of an entry: that of its parent, and the entry. *)
LEMMA PathStep ==
  ASSUME NEW log, ParentsFirst(log)
  PROVE  /\ PathIn(log, 0) = {}
         /\ \A j \in 1..Len(log) : PathIn(log, j) = PathIn(log, log[j].parent) \cup {j}
  <1> DEFINE path == CHOOSE p : GivesPaths(p, log, Len(log))
  <1>1. GivesPaths(path, log, Len(log))
    BY PathsExist
  <1>2. \A i : PathIn(log, i) = path[i]
    BY DEF PathIn, GivesPaths
  <1> HIDE DEF path
  <1>3. \A j \in 0..Len(log) : path[j] = IF j = 0 THEN {} ELSE path[log[j].parent] \cup {j}
    BY <1>1 DEF GivesPaths
  <1>4. path[0] = {} /\ \A j \in 1..Len(log) : path[j] = path[log[j].parent] \cup {j}
    <2>1. 0 \in 0..Len(log) /\ \A j \in 1..Len(log) : j \in 0..Len(log) /\ j # 0
      BY DEF ParentsFirst
    <2>2. QED
      BY <1>3, <2>1
  <1>5. QED
    BY <1>2, <1>4
(* A branch holds entries up to its own, ... *)
LEMMA PathBelow ==
  ASSUME NEW log, ParentsFirst(log), NEW l \in 0..Len(log)
  PROVE  PathIn(log, l) \subseteq 1..l
  <1> DEFINE Bad == {n \in 0..Len(log) : ~(PathIn(log, n) \subseteq 1..n)}
  <1> SUFFICES ASSUME Bad # {} PROVE FALSE
    OBVIOUS
  <1>1. PICK n \in Bad : \A m \in Bad : n <= m
    <2>1. Bad \in SUBSET Nat
      BY DEF ParentsFirst
    <2> HIDE DEF Bad
    <2>2. QED
      BY <2>1, LeastNumber
  <1>2. n # 0
    BY PathStep
  <1>3. n \in 1..Len(log) /\ log[n].parent \in 0..(n - 1)
    BY <1>2 DEF ParentsFirst
  <1>4. PathIn(log, n) = PathIn(log, log[n].parent) \cup {n}
    BY <1>3, PathStep
  <1>5. PathIn(log, log[n].parent) \subseteq 1..log[n].parent
    <2>1. log[n].parent \in 0..Len(log) /\ log[n].parent < n
      BY <1>3 DEF ParentsFirst
    <2>2. QED
      BY <1>1, <2>1
  <1>6. QED
    BY <1>3, <1>4, <1>5

(* ... goes through those it shares with the branch of every entry on it,  *)
LEMMA PathOnPath ==
  ASSUME NEW log, ParentsFirst(log), NEW l \in 0..Len(log), NEW j \in PathIn(log, l)
  PROVE  /\ PathIn(log, j) \subseteq PathIn(log, l)
         /\ \A i \in PathIn(log, l) : i <= j => i \in PathIn(log, j)
  <1> DEFINE Chain(n) == \A k \in PathIn(log, n) :
                           /\ PathIn(log, k) \subseteq PathIn(log, n)
                           /\ \A i \in PathIn(log, n) : i <= k => i \in PathIn(log, k)
             Bad == {n \in 0..Len(log) : ~Chain(n)}
  <1> SUFFICES ASSUME Bad # {} PROVE FALSE
    OBVIOUS
  <1>1. PICK n \in Bad : \A m \in Bad : n <= m
    <2>1. Bad \in SUBSET Nat
      BY DEF ParentsFirst
    <2> HIDE DEF Bad
    <2>2. QED
      BY <2>1, LeastNumber
  <1>2. n # 0
    BY PathStep
  <1>3. n \in 1..Len(log) /\ log[n].parent \in 0..(n - 1) /\ Len(log) \in Nat
    BY <1>2 DEF ParentsFirst
  <1>4. PathIn(log, n) = PathIn(log, log[n].parent) \cup {n}
    BY <1>3, PathStep
  <1>5. log[n].parent \in 0..Len(log) /\ log[n].parent < n
    BY <1>3
  <1>6. Chain(log[n].parent)
    BY <1>1, <1>5
  <1>7. \A k \in PathIn(log, log[n].parent) : k \in Nat /\ k < n
    BY <1>3, <1>5, PathBelow
  <1>8. Chain(n)
    <2> HIDE DEF Bad
    <2>1. ASSUME NEW k \in PathIn(log, log[n].parent)
          PROVE  /\ PathIn(log, k) \subseteq PathIn(log, n)
                 /\ \A i \in PathIn(log, n) : i <= k => i \in PathIn(log, k)
      BY <1>3, <1>4, <1>6, <1>7
    <2>2. QED
      BY <2>1, <1>4
  <1>9. QED
    BY <1>8

(* ... and stays what it is when entries are appended. *)
Prolongs(longer, log) ==
  /\ Len(log) <= Len(longer)
  /\ \A j \in 1..Len(log) : longer[j] = log[j]

LEMMA PathStays ==
  ASSUME NEW log, NEW longer, ParentsFirst(log), ParentsFirst(longer), Prolongs(longer, log),
         NEW l \in 0..Len(log)
  PROVE  PathIn(longer, l) = PathIn(log, l)
  <1> DEFINE Bad == {n \in 0..Len(log) : PathIn(longer, n) # PathIn(log, n)}
  <1> SUFFICES ASSUME Bad # {} PROVE FALSE
    OBVIOUS
  <1>1. PICK n \in Bad : \A m \in Bad : n <= m
    <2>1. Bad \in SUBSET Nat
      BY DEF ParentsFirst
    <2> HIDE DEF Bad
    <2>2. QED
      BY <2>1, LeastNumber
  <1>2. n # 0
    BY PathStep
  <1>3. /\ n \in 1..Len(log) /\ log[n].parent \in 0..(n - 1) /\ n \in 1..Len(longer)
        /\ longer[n] = log[n] /\ Len(log) \in Nat
    BY <1>2 DEF ParentsFirst, Prolongs
  <1>4. /\ PathIn(log, n) = PathIn(log, log[n].parent) \cup {n}
        /\ PathIn(longer, n) = PathIn(longer, log[n].parent) \cup {n}
    BY <1>3, PathStep
  <1>5. PathIn(longer, log[n].parent) = PathIn(log, log[n].parent)
    <2>1. log[n].parent \in 0..Len(log) /\ log[n].parent < n
      BY <1>3
    <2>2. QED
      BY <1>1, <2>1
  <1>6. QED
    BY <1>4, <1>5

-----------------------------------------------------------------------------
(* The last entry of a kind. *)
LEMMA LastOfNone ==
  ASSUME NEW log, NEW path, NEW k, \A j \in path : log[j].data.kind # k
  PROVE  LastOf(log, path, k) = 0
  BY DEF LastOf

LEMMA LastOfSome ==
  ASSUME NEW log, NEW n \in Nat, NEW path \in SUBSET (1..n), NEW k,
         \E j \in path : log[j].data.kind = k
  PROVE  /\ LastOf(log, path, k) \in path
         /\ log[LastOf(log, path, k)].data.kind = k
         /\ \A i \in path : log[i].data.kind = k => i <= LastOf(log, path, k)
  <1> DEFINE found == {j \in path : log[j].data.kind = k}
  <1>1. found # {} /\ found \in SUBSET (1..n)
    OBVIOUS
  <1>2. \E j \in found : \A i \in found : i <= j
    <2> HIDE DEF found
    <2>1. QED
      BY <1>1, GreatestNumber
  <1>3. LastOf(log, path, k) = CHOOSE j \in found : \A i \in found : i <= j
    BY <1>1 DEF LastOf
  <1>4. QED
    BY <1>2, <1>3

LEMMA LastOfIs ==
  ASSUME NEW log, NEW path \in SUBSET Nat, NEW k, NEW j \in path,
         log[j].data.kind = k, \A i \in path : log[i].data.kind = k => i <= j
  PROVE  LastOf(log, path, k) = j
  <1> DEFINE found == {i \in path : log[i].data.kind = k}
  <1>1. j \in found /\ (\A i \in found : i <= j) /\ found \subseteq Nat
    OBVIOUS
  <1>2. LastOf(log, path, k) = CHOOSE i \in found : \A m \in found : m <= i
    BY <1>1 DEF LastOf
  <1> HIDE DEF found
  <1>3. \A i \in found : (\A m \in found : m <= i) => i = j
    BY <1>1
  <1>4. (CHOOSE i \in found : \A m \in found : m <= i) = j
    BY <1>1, <1>3
  <1>5. QED
    BY <1>2, <1>4

(* It depends on what is of that kind only. *)
LEMMA LastOfSame ==
  ASSUME NEW log, NEW longer, NEW path, NEW branch, NEW k,
         {j \in path : log[j].data.kind = k} = {j \in branch : longer[j].data.kind = k}
  PROVE  LastOf(longer, branch, k) = LastOf(log, path, k)
  <1> DEFINE last(found) == IF found = {} THEN 0 ELSE CHOOSE j \in found : \A i \in found : i <= j
  <1>1. /\ LastOf(log, path, k) = last({j \in path : log[j].data.kind = k})
        /\ LastOf(longer, branch, k) = last({j \in branch : longer[j].data.kind = k})
    BY DEF LastOf
  <1> HIDE DEF last
  <1>2. QED
    BY <1>1

-----------------------------------------------------------------------------
(* Entries that are appended. *)
Data ==
       [kind : {"message", "summary"}]
  \cup [kind : {"compaction"}, cut : Nat]
  \cup [kind : {"todo"}, plan : Plans]
  \cup [kind : {"selection"}, active : Named, baseline : Named]
  \cup [kind : {"told"}, name : Named]
  \cup [kind : {"call"}, call : Calls]
  \cup [kind : {"result"}, call : Calls, answer : Answers \cup {Nothing}]
  \cup [kind : {"replay"}, call : Calls, answer : Answers]

Entry == [parent : Nat, data : Data]

LEMMA DataFields ==
  ASSUME NEW d \in Data
  PROVE  /\ d.kind \in Kinds
         /\ d.kind = "compaction" => d.cut \in Nat
         /\ d.kind = "todo" => d.plan \in Plans
         /\ d.kind = "selection" => d.active \in Named /\ d.baseline \in Named
         /\ d.kind = "told" => d.name \in Named
         /\ d.kind \in {"call", "result", "replay"} => d.call \in Calls
         /\ d.kind = "replay" => d.answer \in Answers
  BY DEF Data, Kinds

(* longer is log with one or two records rs appended below its entry l. *)
Grown(longer, log, l, rs) ==
  /\ l \in 0..Len(log) /\ Len(rs) \in 1..2
  /\ Len(longer) = Len(log) + Len(rs)
  /\ Prolongs(longer, log)
  /\ \A i \in 1..Len(rs) :
       /\ longer[Len(log) + i].data = rs[i]
       /\ longer[Len(log) + i].parent = IF i = 1 THEN l ELSE Len(log) + i - 1

LEMMA AppendEffect ==
  ASSUME entries \in Seq(Entry), NEW l \in 0..Len(entries), NEW rs \in Seq(Data),
         Len(rs) \in 1..2, AppendAt(l, rs)
  PROVE  /\ entries' \in Seq(Entry)
         /\ Grown(entries', entries, l, rs)
         /\ leaf' = Len(entries')
  <1> DEFINE more == [i \in 1..Len(rs) |->
                        [parent |-> IF i = 1 THEN l ELSE Len(entries) + i - 1, data |-> rs[i]]]
  <1>1. Len(rs) \in Nat /\ Len(entries) \in Nat /\ \A i \in 1..Len(rs) : rs[i] \in Data
    BY LenProperties, ElementOfSeq
  <1>2. \A i \in 1..Len(rs) : more[i] \in Entry
    BY <1>1 DEF Entry
  <1>3. more \in Seq(Entry) /\ Len(more) = Len(rs)
    <2>1. more \in [1..Len(rs) -> Entry]
      BY <1>2
    <2> HIDE DEF more
    <2>2. QED
      BY <2>1, <1>1
  <1>4. entries' = entries \o more /\ leaf' = Len(entries) + Len(rs)
    <2>1. rs # <<>>
      OBVIOUS
    <2>2. QED
      BY <2>1 DEF AppendAt
  <1>5. \A i \in 1..Len(rs) :
          /\ more[i].data = rs[i]
          /\ more[i].parent = IF i = 1 THEN l ELSE Len(entries) + i - 1
    OBVIOUS
  <1> HIDE DEF more
  <1>6. /\ entries \o more \in Seq(Entry)
        /\ Len(entries \o more) = Len(entries) + Len(more)
        /\ \A i \in 1..Len(entries) + Len(more) :
             (entries \o more)[i] = IF i <= Len(entries) THEN entries[i] ELSE more[i - Len(entries)]
    BY <1>3, ConcatProperties
  <1>7. \A j \in 1..Len(entries) : entries'[j] = entries[j]
    BY <1>1, <1>3, <1>4, <1>6
  <1>8. \A i \in 1..Len(rs) : entries'[Len(entries) + i] = more[i]
    <2>1. ASSUME NEW i \in 1..Len(rs) PROVE entries'[Len(entries) + i] = more[i]
      <3>1. /\ Len(entries) + i \in 1..Len(entries) + Len(more)
            /\ ~(Len(entries) + i <= Len(entries)) /\ Len(entries) + i - Len(entries) = i
        BY <1>1, <1>3
      <3>2. QED
        BY <3>1, <1>4, <1>6
    <2>2. QED
      BY <2>1
  <1>9. entries' \in Seq(Entry) /\ Len(entries') = Len(entries) + Len(rs)
    BY <1>3, <1>4, <1>6
  <1>10. Prolongs(entries', entries)
    BY <1>1, <1>7, <1>9 DEF Prolongs
  <1>11. QED
    BY <1>4, <1>5, <1>8, <1>9, <1>10 DEF Grown

LEMMA GrownPath ==
  ASSUME NEW log, NEW longer, NEW l, NEW rs, ParentsFirst(log), Grown(longer, log, l, rs)
  PROVE  /\ ParentsFirst(longer)
         /\ \A j \in 0..Len(log) : PathIn(longer, j) = PathIn(log, j)
         /\ PathIn(longer, Len(log) + 1) = PathIn(log, l) \cup {Len(log) + 1}
         /\ PathIn(longer, Len(longer)) = PathIn(log, l) \cup ((Len(log) + 1)..Len(longer))
  <1>0. l \in 0..Len(log) /\ Len(rs) \in 1..2
    BY DEF Grown
  <1> DEFINE n == Len(log)
  <1>1. /\ n \in Nat /\ Len(longer) = n + Len(rs) /\ Prolongs(longer, log)
        /\ Len(rs) = 1 \/ Len(rs) = 2
        /\ longer[n + 1].parent = l /\ (Len(rs) = 2 => longer[n + 2].parent = n + 1)
    <2>1. n \in Nat /\ (Len(rs) = 1 \/ Len(rs) = 2)
      BY <1>0 DEF ParentsFirst
    <2>2. /\ Len(longer) = n + Len(rs) /\ Prolongs(longer, log)
          /\ \A i \in 1..Len(rs) : longer[n + i].parent = IF i = 1 THEN l ELSE n + i - 1
      BY DEF Grown
    <2>3. longer[n + 1].parent = l
      BY <2>1, <2>2
    <2>4. ASSUME Len(rs) = 2 PROVE longer[n + 2].parent = n + 1
      <3>1. 2 \in 1..Len(rs) /\ n + 2 - 1 = n + 1
        BY <2>1, <2>4
      <3>2. QED
        BY <2>2, <3>1
    <2>5. QED
      BY <2>1, <2>2, <2>3, <2>4
  <1>2. ParentsFirst(longer)
    <2>1. ASSUME NEW j \in 1..Len(longer) PROVE longer[j].parent \in 0..(j - 1)
      <3>1. CASE j \in 1..n
        BY <1>0, <1>1, <3>1 DEF ParentsFirst, Prolongs
      <3>2. CASE j = n + 1
        BY <1>0, <1>1, <3>2
      <3>3. CASE Len(rs) = 2 /\ j = n + 2
        BY <1>0, <1>1, <3>3
      <3>4. j \in 1..n \/ j = n + 1 \/ (Len(rs) = 2 /\ j = n + 2)
        <4>1. CASE Len(rs) = 1
          <5>1. Len(longer) = n + 1
            BY <1>0, <1>1, <4>1
          <5>2. QED
            BY <1>0, <1>1, <5>1
        <4>2. CASE Len(rs) = 2
          <5>1. Len(longer) = n + 2
            BY <1>0, <1>1, <4>2
          <5>2. QED
            BY <1>0, <1>1, <4>2, <5>1
        <4>3. QED
          BY <1>0, <1>1, <4>1, <4>2
      <3>5. QED
        BY <3>1, <3>2, <3>3, <3>4
    <2>2. QED
      BY <1>0, <1>1, <2>1 DEF ParentsFirst
  <1>3. \A j \in 0..n : PathIn(longer, j) = PathIn(log, j)
    BY <1>1, <1>2, PathStays
  <1>4. \A j \in 1..Len(longer) : PathIn(longer, j) = PathIn(longer, longer[j].parent) \cup {j}
    BY <1>2, PathStep
  <1>5. PathIn(longer, n + 1) = PathIn(log, l) \cup {n + 1}
    <2>1. n + 1 \in 1..Len(longer)
      BY <1>1
    <2>2. longer[n + 1].parent = l /\ PathIn(longer, l) = PathIn(log, l)
      BY <1>0, <1>1, <1>3
    <2>3. QED
      BY <1>4, <2>1, <2>2
  <1>6. PathIn(longer, Len(longer)) = PathIn(log, l) \cup ((n + 1)..Len(longer))
    <2>1. CASE Len(rs) = 1
      BY <1>0, <1>1, <1>5, <2>1
    <2>2. CASE Len(rs) = 2
      <3>1. PathIn(longer, n + 2) = PathIn(longer, n + 1) \cup {n + 2}
        BY <1>0, <1>1, <1>4, <2>2
      <3>2. (n + 1)..Len(longer) = {n + 1, n + 2} /\ Len(longer) = n + 2
        BY <1>0, <1>1, <2>2
      <3>3. QED
        BY <1>5, <3>1, <3>2
    <2>3. QED
      BY <1>0, <1>1, <2>1, <2>2
  <1>7. QED
    BY <1>2, <1>3, <1>5, <1>6

(* What is last of a kind after entries were appended. *)
LEMMA GrownLast ==
  ASSUME NEW log, NEW longer, NEW l, NEW rs, ParentsFirst(log), Grown(longer, log, l, rs), NEW k
  PROVE  LET last == LastOf(longer, PathIn(longer, Len(longer)), k)
         IN  /\ (\A i \in 1..Len(rs) : rs[i].kind # k) => last = LastOf(log, PathIn(log, l), k)
             /\ rs[Len(rs)].kind = k => last = Len(longer)
             /\ rs[Len(rs)].kind # k /\ rs[1].kind = k => last = Len(log) + 1
  <1>0. /\ PathIn(longer, Len(longer)) = PathIn(log, l) \cup ((Len(log) + 1)..Len(longer))
        /\ PathIn(log, l) \subseteq 1..l
        /\ l \in 0..Len(log) /\ Len(rs) \in 1..2
    <2>1. l \in 0..Len(log) /\ Len(rs) \in 1..2
      BY DEF Grown
    <2>2. PathIn(log, l) \subseteq 1..l
      BY <2>1, PathBelow
    <2>3. PathIn(longer, Len(longer)) = PathIn(log, l) \cup ((Len(log) + 1)..Len(longer))
      BY GrownPath
    <2>4. QED
      BY <2>1, <2>2, <2>3
  <1> DEFINE n == Len(log)
             path == PathIn(longer, Len(longer))
  <1>1. /\ n \in Nat /\ Len(longer) = n + Len(rs) /\ Len(longer) \in Nat /\ Prolongs(longer, log)
        /\ \A i \in 1..Len(rs) : longer[n + i].data = rs[i]
    <2>1. n \in Nat
      BY DEF ParentsFirst
    <2>2. /\ Len(longer) = n + Len(rs) /\ Prolongs(longer, log) /\ Len(rs) \in 1..2
          /\ \A i \in 1..Len(rs) : longer[n + i].data = rs[i]
      BY DEF Grown
    <2>3. Len(longer) \in Nat
      <3> HIDE DEF n
      <3> QED
        BY <2>1, <2>2
    <2>4. QED
      BY <2>1, <2>2, <2>3
  <1>2. /\ path = PathIn(log, l) \cup ((n + 1)..Len(longer))
        /\ PathIn(log, l) \subseteq 1..n
    BY <1>0, <1>1
  <1> HIDE DEF path
  <1>3. path \in SUBSET (1..Len(longer))
    BY <1>0, <1>1, <1>2
  <1>4. \A i \in PathIn(log, l) : longer[i] = log[i]
    BY <1>0, <1>1, <1>2 DEF Prolongs
  <1>5. \A j \in (n + 1)..Len(longer) : j - n \in 1..Len(rs) /\ longer[j].data = rs[j - n]
    <2>1. ASSUME NEW j \in (n + 1)..Len(longer)
          PROVE  j - n \in 1..Len(rs) /\ longer[j].data = rs[j - n]
      <3>1. j - n \in 1..Len(rs) /\ n + (j - n) = j
        BY <1>0, <1>1
      <3>2. QED
        BY <1>0, <1>1, <3>1
    <2>2. QED
      BY <2>1
  <1>6. ASSUME \A i \in 1..Len(rs) : rs[i].kind # k
        PROVE  LastOf(longer, path, k) = LastOf(log, PathIn(log, l), k)
    <2>1. {j \in PathIn(log, l) : log[j].data.kind = k} = {j \in path : longer[j].data.kind = k}
      BY <1>2, <1>4, <1>5, <1>6
    <2>2. QED
      BY <2>1, LastOfSame
  <1>7. ASSUME rs[Len(rs)].kind = k PROVE LastOf(longer, path, k) = Len(longer)
    <2> DEFINE j == Len(longer)
    <2>1. j \in (n + 1)..Len(longer) /\ j - n = Len(rs)
      BY <1>0, <1>1
    <2>2. j \in path /\ longer[j].data.kind = k
      BY <1>2, <1>5, <1>7, <2>1
    <2>3. (\A i \in path : i <= j) /\ path \in SUBSET Nat
      BY <1>0, <1>1, <1>3
    <2> HIDE DEF j
    <2>4. LastOf(longer, path, k) = j
      BY <2>2, <2>3, LastOfIs
    <2>5. QED
      BY <2>4 DEF j
  <1>8. ASSUME rs[Len(rs)].kind # k, rs[1].kind = k PROVE LastOf(longer, path, k) = n + 1
    <2>1. n + 1 \in path /\ longer[n + 1].data.kind = k
      BY <1>0, <1>1, <1>2, <1>8
    <2>2. Len(rs) = 2
      BY <1>0, <1>8
    <2>3. \A i \in path : longer[i].data.kind = k => i <= n + 1
      <3>1. ASSUME NEW i \in path, longer[i].data.kind = k, ~(i <= n + 1) PROVE FALSE
        <4>1. i = n + 2
          BY <1>0, <1>1, <1>3, <2>2, <3>1
        <4>2. longer[n + 2].data = rs[2]
          BY <1>0, <1>1, <2>2
        <4>3. QED
          BY <1>0, <1>8, <2>2, <3>1, <4>1, <4>2
      <3>2. QED
        BY <3>1
    <2>4. path \in SUBSET Nat
      BY <1>0, <1>1, <1>3
    <2> DEFINE j == n + 1
    <2>5. j \in path /\ longer[j].data.kind = k /\ \A i \in path : longer[i].data.kind = k => i <= j
      BY <2>1, <2>3
    <2> HIDE DEF j
    <2>6. LastOf(longer, path, k) = j
      BY <2>4, <2>5, LastOfIs
    <2>7. QED
      BY <2>6 DEF j
  <1>9. QED
    BY <1>6, <1>7, <1>8 DEF path

-----------------------------------------------------------------------------
(* The inductive invariant: what every step keeps of the entries, of each  *)
(* extension's state, and of how the two agree.                            *)
Kind(j) == entries[j].data.kind

NoneOf(kinds) == \A j \in 1..Len(entries) : Kind(j) \notin kinds

(* A compaction cuts below itself. *)
CutsBelow == \A j \in 1..Len(entries) : Kind(j) = "compaction" => entries[j].data.cut \in 1..(j - 1)

TreeInv == TreeTypeOK /\ entries \in Seq(Entry) /\ CutsBelow

(* The turns that are counted are among those the model has not seen the   *)
(* plan for, and a plan waits to be shown only before the first of them.   *)
CadenceInv ==
  open => /\ interacted => inTurn
          /\ ~interacted => turns <= unseen
          /\ compacted # Nothing => turns = 0 /\ ~inTurn

NoTodo ==
  /\ NoneOf({"todo"}) /\ plan = EmptyPlan /\ compacted = Nothing
  /\ widget = "none" /\ ~clearing

TodoInv ==
  /\ TodoTypeOK /\ PlanFollowsBranch /\ WidgetFollowsPlan
  /\ IF "todo" \in installed THEN CadenceInv ELSE NoTodo

PersonaKinds == {"selection", "told"}

NoPersona == NoneOf(PersonaKinds) /\ active = Nothing /\ baseline = Nothing

PersonaInv ==
  /\ PersonaTypeOK /\ SelectionSurvives
  /\ "persona" \notin installed => NoPersona

(* Is entry j of log call c?  A call is made once, its results and its     *)
(* replays are below it, and it is answered again at most once on a branch.*)
CallAt(log, j, c) == log[j].data.kind = "call" /\ log[j].data.call = c

CalledOnce(log) ==
  \A c \in Calls : \A i, j \in 1..Len(log) : CallAt(log, i, c) /\ CallAt(log, j, c) => i = j

AnsweredBelow(log) ==
  \A j \in 1..Len(log) : log[j].data.kind \in {"result", "replay"} =>
    \E i \in PathIn(log, j) : CallAt(log, i, log[j].data.call)

ReplayedOnce(log) ==
  \A j \in 1..Len(log) : log[j].data.kind = "replay" =>
    AboutCall(log, PathIn(log, j), "replay", log[j].data.call) = {j}

AsksInv(log) == CalledOnce(log) /\ AnsweredBelow(log) /\ ReplayedOnce(log)

(* What is asked again is a call of the branch that was not yet. *)
ReplayInv ==
  /\ open => revised = Revisions(entries, leaf)
  /\ replay = "dispatched" => running
  /\ replay = "prompting" =>
       /\ open /\ ~running /\ target \in Calls
       /\ \E i \in Branch : CallAt(entries, i, target)
       /\ AboutCall(entries, Branch, "replay", target) = {}

AskKinds == {"call", "result", "replay"}

NoAsk == NoneOf(AskKinds) /\ revised = Unrevised /\ replay = "idle"

AskInv ==
  /\ AskTypeOK /\ AsksInv(entries) /\ ReplayInv
  /\ "ask" \notin installed => NoAsk

SessionInv == TreeInv /\ TodoInv /\ PersonaInv /\ AskInv

-----------------------------------------------------------------------------
(* What a step does to the tree. *)
Grows(l, rs) ==
  /\ AppendAt(l, rs) /\ l \in 0..Len(entries) /\ rs \in Seq(Data) /\ Len(rs) \in 1..2
  /\ Room(Len(rs))
  /\ \A i \in 1..Len(rs) : rs[i].kind = "compaction" => rs[i].cut \in 1..Len(entries)

(* Nothing of `kinds' is appended, and only at the leaf. *)
Aside(kinds) ==
  \/ UNCHANGED <<entries, leaf>>
  \/ \E rs : Grows(leaf, rs) /\ \A i \in 1..Len(rs) : rs[i].kind \notin kinds

LEMMA TreeFacts ==
  ASSUME TreeInv
  PROVE  /\ ParentsFirst(entries) /\ Len(entries) \in Nat /\ leaf \in 0..Len(entries)
         /\ Branch \subseteq 1..Len(entries)
         /\ \A j \in 1..Len(entries) : entries[j].data \in Data
  <1>1. Len(entries) \in Nat /\ leaf \in 0..Len(entries) /\ entries \in Seq(Entry)
    BY LenProperties DEF TreeInv, TreeTypeOK
  <1>2. ParentsFirst(entries)
    BY <1>1 DEF TreeInv, TreeTypeOK, ParentsFirst
  <1>3. PathIn(entries, leaf) \subseteq 1..leaf
    BY <1>1, <1>2, PathBelow
  <1>4. \A j \in 1..Len(entries) : entries[j] \in Entry
    BY <1>1, ElementOfSeq
  <1>5. QED
    BY <1>1, <1>2, <1>3, <1>4 DEF Branch, Entry

LEMMA GrowsGrown ==
  ASSUME TreeInv, NEW l, NEW rs, Grows(l, rs)
  PROVE  /\ Grown(entries', entries, l, rs) /\ leaf' = Len(entries') /\ entries' \in Seq(Entry)
         /\ \A i \in 1..Len(rs) : rs[i] \in Data
  <1>1. entries \in Seq(Entry)
    BY DEF TreeInv
  <1>2. l \in 0..Len(entries) /\ rs \in Seq(Data) /\ Len(rs) \in 1..2 /\ AppendAt(l, rs)
    BY DEF Grows
  <1>3. \A i \in 1..Len(rs) : rs[i] \in Data
    BY <1>2, ElementOfSeq
  <1>4. QED
    BY <1>1, <1>2, <1>3, AppendEffect

(* Entries that are appended keep what the tree is. *)
LEMMA GrowsTree ==
  ASSUME TreeInv, NEW l, NEW rs, Grows(l, rs), installed' = installed,
         open' \in BOOLEAN, running' \in BOOLEAN, inTurn' \in BOOLEAN,
         inTurn' => running', running' => open'
  PROVE  TreeInv'
  <1> DEFINE n == Len(entries)
  <1>1. /\ Grown(entries', entries, l, rs) /\ leaf' = Len(entries') /\ entries' \in Seq(Entry)
        /\ \A i \in 1..Len(rs) : rs[i] \in Data
    BY GrowsGrown
  <1>2. ParentsFirst(entries) /\ n \in Nat
    BY TreeFacts
  <1>3. /\ Len(entries') = n + Len(rs) /\ Len(rs) \in 1..2 /\ Len(entries') \in Nat
        /\ \A j \in 1..n : entries'[j] = entries[j]
        /\ \A i \in 1..Len(rs) : entries'[n + i].data = rs[i]
    <2>1. /\ Len(entries') = n + Len(rs) /\ Len(rs) \in 1..2
          /\ \A i \in 1..Len(rs) : entries'[n + i].data = rs[i]
      BY <1>1 DEF Grown
    <2>2. \A j \in 1..n : entries'[j] = entries[j]
      BY <1>1 DEF Grown, Prolongs
    <2>3. Len(entries') \in Nat
      <3> HIDE DEF n
      <3> QED
        BY <2>1, <1>2
    <2>4. QED
      BY <2>1, <2>2, <2>3
  <1>4. Len(entries') <= MaxEntries[installed]
    BY <1>3 DEF Grows, Room
  <1>5. ParentsFirst(entries')
    BY <1>1, <1>2, GrownPath
  <1>6. \A j \in 1..Len(entries') : j \in 1..n \/ (j - n \in 1..Len(rs) /\ entries'[j].data = rs[j - n])
    <2>1. ASSUME NEW j \in 1..Len(entries'), j \notin 1..n
          PROVE  j - n \in 1..Len(rs) /\ entries'[j].data = rs[j - n]
      <3>1. j - n \in 1..Len(rs) /\ n + (j - n) = j
        BY <1>2, <1>3, <2>1
      <3>2. QED
        BY <1>3, <3>1
    <2>2. QED
      BY <2>1
  <1>7. \A j \in 1..Len(entries') : entries'[j].data.kind \in Kinds
    <2>1. \A j \in 1..Len(entries') : entries'[j] \in Entry
      BY <1>1, ElementOfSeq
    <2>2. QED
      BY <2>1, DataFields DEF Entry
  <1>8. CutsBelow'
    <2>1. ASSUME NEW j \in 1..Len(entries'), entries'[j].data.kind = "compaction"
          PROVE  entries'[j].data.cut \in 1..(j - 1)
      <3>1. CASE j \in 1..n
        BY <1>3, <2>1, <3>1 DEF TreeInv, CutsBelow, Kind
      <3>2. CASE j \notin 1..n
        <4>1. entries'[j].data.cut \in 1..n
          BY <1>6, <2>1, <3>2 DEF Grows
        <4>2. n <= j - 1 /\ j \in Nat
          BY <1>2, <2>1, <3>2
        <4>3. QED
          BY <1>2, <4>1, <4>2
      <3>3. QED
        BY <3>1, <3>2
    <2>2. QED
      BY <2>1 DEF CutsBelow, Kind
  <1>9. QED
    BY <1>1, <1>3, <1>4, <1>5, <1>7, <1>8 DEF TreeInv, TreeTypeOK, ParentsFirst

LEMMA StillTree ==
  ASSUME TreeInv, entries' = entries, leaf' \in 0..Len(entries), installed' = installed,
         open' \in BOOLEAN, running' \in BOOLEAN, inTurn' \in BOOLEAN,
         inTurn' => running', running' => open'
  PROVE  TreeInv'
  BY DEF TreeInv, TreeTypeOK, CutsBelow, Kind

(* What is last of a kind stays so when nothing of it is appended. *)
LEMMA AsideKeeps ==
  ASSUME TreeInv, NEW kinds, Aside(kinds), NEW k \in kinds
  PROVE  LET last == LastOf(entries, Branch, k)
         IN  /\ LastOf(entries', PathIn(entries', leaf'), k) = last
             /\ last = 0 \/ (last \in Branch /\ entries'[last] = entries[last] /\ Kind(last) = k)
  <1> DEFINE last == LastOf(entries, Branch, k)
  <1>1. ParentsFirst(entries) /\ Len(entries) \in Nat /\ Branch \in SUBSET (1..Len(entries))
    BY TreeFacts
  <1>2. last = 0 \/ (last \in Branch /\ Kind(last) = k)
    <2>1. CASE \A j \in Branch : Kind(j) # k
      BY <2>1, LastOfNone DEF Kind
    <2>2. CASE \E j \in Branch : Kind(j) = k
      BY <1>1, <2>2, LastOfSome DEF Kind
    <2>3. QED
      BY <2>1, <2>2
  <1>3. CASE UNCHANGED <<entries, leaf>>
    BY <1>2, <1>3 DEF Branch
  <1>4. ASSUME NEW rs, Grows(leaf, rs), \A i \in 1..Len(rs) : rs[i].kind \notin kinds
        PROVE  /\ LastOf(entries', PathIn(entries', leaf'), k) = last
               /\ last \in Branch => entries'[last] = entries[last]
    <2>1. Grown(entries', entries, leaf, rs) /\ leaf' = Len(entries')
      BY <1>4, GrowsGrown
    <2>2. \A i \in 1..Len(rs) : rs[i].kind # k
      BY <1>4
    <2>3. LastOf(entries', PathIn(entries', leaf'), k) = last
      BY <1>1, <2>1, <2>2, GrownLast DEF Branch
    <2>4. \A j \in 1..Len(entries) : entries'[j] = entries[j]
      BY <2>1 DEF Grown, Prolongs
    <2>5. QED
      BY <1>1, <2>3, <2>4
  <1>5. QED
    BY <1>2, <1>3, <1>4 DEF Aside

(* Nor is there anything of kinds that nothing was ever appended of. *)
LEMMA GrowsNone ==
  ASSUME TreeInv, NEW kinds, NoneOf(kinds), NEW l, NEW rs, Grows(l, rs),
         \A i \in 1..Len(rs) : rs[i].kind \notin kinds
  PROVE  NoneOf(kinds)'
  <1>1. Grown(entries', entries, l, rs)
    BY GrowsGrown
  <1>2. Len(entries) \in Nat
    BY TreeFacts
  <1>3. ASSUME NEW j \in 1..Len(entries') PROVE entries'[j].data.kind \notin kinds
    <2>1. CASE j \in 1..Len(entries)
      BY <1>1, <2>1 DEF Grown, Prolongs, NoneOf, Kind
    <2>2. CASE j \notin 1..Len(entries)
      <3>1. Len(entries') = Len(entries) + Len(rs) /\ Len(rs) \in 1..2
        BY <1>1 DEF Grown
      <3>2. j - Len(entries) \in 1..Len(rs) /\ Len(entries) + (j - Len(entries)) = j
        BY <1>2, <2>2, <3>1
      <3>3. entries'[j].data = rs[j - Len(entries)]
        BY <1>1, <3>2 DEF Grown
      <3>4. QED
        BY <3>2, <3>3
    <2>3. QED
      BY <2>1, <2>2
  <1>4. QED
    BY <1>3 DEF NoneOf, Kind

LEMMA AsideNone ==
  ASSUME TreeInv, NEW kinds, Aside(kinds), NoneOf(kinds)
  PROVE  NoneOf(kinds)'
  <1>1. CASE UNCHANGED <<entries, leaf>>
    BY <1>1 DEF NoneOf, Kind
  <1>2. QED
    BY <1>1, GrowsNone DEF Aside

(* The records the events append. *)
LEMMA Records ==
  /\ [kind |-> "message"] \in Data /\ [kind |-> "summary"] \in Data
  /\ \A cut \in Nat : [kind |-> "compaction", cut |-> cut] \in Data
  /\ \A p \in Plans : [kind |-> "todo", plan |-> p] \in Data
  /\ \A a, b \in Named : Selection(a, b) \in Data
  /\ \A name \in Named : [kind |-> "told", name |-> name] \in Data
  /\ \A c \in Calls : [kind |-> "call", call |-> c] \in Data
  /\ \A c \in Calls, reply \in Answers \cup {Nothing} :
       [kind |-> "result", call |-> c, answer |-> reply] \in Data
  /\ \A c \in Calls, reply \in Answers :
       [kind |-> "replay", call |-> c, answer |-> reply] \in Data
  BY DEF Data, Selection

LEMMA OneRecord ==
  ASSUME NEW l \in 0..Len(entries), NEW d \in Data, d.kind # "compaction", AppendAt(l, <<d>>), Room(1)
  PROVE  Grows(l, <<d>>) /\ Len(<<d>>) = 1 /\ <<d>>[1] = d
  <1>1. <<d>> \in Seq(Data) /\ Len(<<d>>) = 1 /\ <<d>>[1] = d
    OBVIOUS
  <1>2. QED
    BY <1>1 DEF Grows

LEMMA TwoRecords ==
  ASSUME NEW d \in Data, NEW e \in Data
  PROVE  /\ <<d>> \o <<e>> \in Seq(Data) /\ Len(<<d>> \o <<e>>) = 2
         /\ (<<d>> \o <<e>>)[1] = d /\ (<<d>> \o <<e>>)[2] = e
  <1> DEFINE s == <<d>>
             t == <<e>>
  <1>1. s \in Seq(Data) /\ t \in Seq(Data) /\ Len(s) = 1 /\ Len(t) = 1 /\ s[1] = d /\ t[1] = e
    OBVIOUS
  <1> HIDE DEF s, t
  <1>2. QED
    BY <1>1, ConcatProperties

(* What the handlers of the persona extension send, and what of it the     *)
(* events append.                                                          *)
LEMMA MessagesSent ==
  ASSUME NEW name \in Named
  PROVE  \/ CommunicatedName = name /\ Messages(name) = <<>>
         \/ /\ CommunicatedName # name
            /\ Messages(name) = <<[kind |-> "told", name |-> name]>>
            /\ [kind |-> "told", name |-> name] \in Data
  BY Records DEF Messages

LEMMA PromptGrows ==
  ASSUME TreeInv, PersonaTypeOK, Prompt
  PROVE  \E rs :
           /\ Grows(leaf, rs) /\ rs[Len(rs)] = [kind |-> "message"]
           /\ \/ Len(rs) = 1 /\ ("persona" \in installed => CommunicatedName = active)
              \/ /\ "persona" \in installed /\ Len(rs) = 2
                 /\ rs[1] = [kind |-> "told", name |-> active]
  <1> DEFINE before == IF "persona" \in installed THEN Preface ELSE <<>>
             m == [kind |-> "message"]
             t == [kind |-> "told", name |-> active]
  <1>1. leaf \in 0..Len(entries) /\ Len(entries) \in Nat
    BY TreeFacts
  <1>2. m \in Data /\ m.kind = "message" /\ t.kind = "told"
    BY Records
  <1>3. active \in Named
    BY DEF PersonaTypeOK
  <1>4. Room(1 + Len(before)) /\ AppendAt(leaf, before \o <<m>>)
    BY DEF Prompt
  <1>5. CASE "persona" \in installed /\ CommunicatedName # active
    <2>1. before = <<t>> /\ t \in Data
      BY <1>3, <1>5, MessagesSent DEF Preface
    <2> DEFINE rs == <<t>> \o <<m>>
    <2>2. rs \in Seq(Data) /\ Len(rs) = 2 /\ rs[1] = t /\ rs[2] = m
      BY <1>2, <2>1, TwoRecords
    <2> HIDE DEF before, m, t
    <2>3. Len(before) = 1 /\ AppendAt(leaf, rs)
      BY <1>4, <2>1 DEF AppendAt
    <2>4. Room(Len(rs))
      BY <1>4, <2>2, <2>3
    <2> HIDE DEF rs
    <2>5. Grows(leaf, rs)
      <3>1. \A i \in 1..Len(rs) : rs[i].kind # "compaction"
        <4>1. \A i \in 1..Len(rs) : i = 1 \/ i = 2
          BY <2>2
        <4>2. QED
          BY <1>2, <2>2, <4>1
      <3>2. QED
        BY <1>1, <2>2, <2>3, <2>4, <3>1 DEF Grows
    <2>6. QED
      BY <1>5, <2>2, <2>5 DEF m, t
  <1>6. CASE ~("persona" \in installed /\ CommunicatedName # active)
    <2>1. before = <<>>
      BY <1>3, <1>6, MessagesSent DEF Preface
    <2> HIDE DEF m, before
    <2>2. before \o <<m>> = <<m>> /\ Len(before) = 0
      <3>1. <<m>> \in Seq(Data)
        BY <1>2
      <3>2. QED
        BY <2>1, <3>1, ConcatEmptySeq
    <2>3. AppendAt(leaf, <<m>>) /\ Room(1)
      BY <1>4, <2>2 DEF AppendAt
    <2>4. Grows(leaf, <<m>>) /\ Len(<<m>>) = 1 /\ <<m>>[1] = m
      BY <1>1, <1>2, <2>3, OneRecord
    <2>5. QED
      BY <1>6, <2>4 DEF m
  <1>7. QED
    BY <1>5, <1>6

LEMMA CompactGrows ==
  ASSUME TreeInv, PersonaTypeOK, NEW cut \in ContextIn(entries, Branch), Compact(cut)
  PROVE  \E rs :
           /\ Grows(leaf, rs) /\ rs[1] = [kind |-> "compaction", cut |-> cut]
           /\ \/ "persona" \notin installed /\ Len(rs) = 1
              \/ "persona" \in installed /\ Len(rs) = 2 /\ rs[2] = Selection(active, active)
  <1> DEFINE after == IF "persona" \in installed THEN Postlude ELSE <<>>
             c == [kind |-> "compaction", cut |-> cut]
             e == Selection(active, active)
  <1>1. leaf \in 0..Len(entries) /\ Len(entries) \in Nat /\ Branch \subseteq 1..Len(entries)
    BY TreeFacts
  <1>2. cut \in 1..Len(entries)
    BY <1>1 DEF ContextIn
  <1>3. active \in Named
    BY DEF PersonaTypeOK
  <1>4. c \in Data /\ c.kind = "compaction" /\ c.cut = cut /\ e \in Data /\ e.kind = "selection"
    BY <1>2, <1>3, Records DEF Selection
  <1>5. Room(1 + Len(after)) /\ AppendAt(leaf, <<c>> \o after)
    BY DEF Compact
  <1>6. CASE "persona" \in installed
    <2>1. after = <<e>>
      BY <1>6 DEF Postlude
    <2> DEFINE rs == <<c>> \o <<e>>
    <2>2. rs \in Seq(Data) /\ Len(rs) = 2 /\ rs[1] = c /\ rs[2] = e
      BY <1>4, TwoRecords
    <2> HIDE DEF after, c, e
    <2>3. Len(after) = 1 /\ AppendAt(leaf, rs)
      BY <1>5, <2>1 DEF AppendAt
    <2>4. Room(Len(rs))
      BY <1>5, <2>2, <2>3
    <2> HIDE DEF rs
    <2>5. Grows(leaf, rs)
      <3>1. \A i \in 1..Len(rs) : rs[i].kind = "compaction" => rs[i].cut \in 1..Len(entries)
        <4>1. \A i \in 1..Len(rs) : i = 1 \/ i = 2
          BY <2>2
        <4>2. QED
          BY <1>2, <1>4, <2>2, <4>1
      <3>2. QED
        BY <1>1, <2>2, <2>3, <2>4, <3>1 DEF Grows
    <2>6. QED
      BY <1>6, <2>2, <2>5 DEF c, e
  <1>7. CASE "persona" \notin installed
    <2>1. after = <<>>
      BY <1>7
    <2> HIDE DEF c, after
    <2>2. <<c>> \o after = <<c>> /\ Len(after) = 0
      <3>1. <<c>> \in Seq(Data)
        BY <1>4
      <3>2. QED
        BY <2>1, <3>1, ConcatEmptySeq
    <2>3. AppendAt(leaf, <<c>>) /\ Room(1)
      BY <1>5, <2>2 DEF AppendAt
    <2>4. <<c>> \in Seq(Data) /\ Len(<<c>>) = 1 /\ <<c>>[1] = c
      BY <1>4
    <2>5. Grows(leaf, <<c>>)
      BY <1>1, <1>2, <1>4, <2>3, <2>4 DEF Grows
    <2>6. QED
      BY <1>7, <2>4, <2>5 DEF c
  <1>8. QED
    BY <1>6, <1>7

(* The tools and commands append one record at the leaf. *)
LEMMA CallTodoGrows ==
  ASSUME TreeInv, TodoTypeOK, NEW next \in Proposals, CallTodo(next)
  PROVE  /\ next \in Plans
         /\ Valid(next) => Grows(leaf, <<[kind |-> "todo", plan |-> next]>>)
         /\ ~Valid(next) => Grows(leaf, <<[kind |-> "message"]>>)
  <1>1. plan \in Plans
    BY DEF TodoTypeOK
  <1>2. next \in Plans
    <2>1. CASE \E T \in (SUBSET Tasks) \ {{}} : next = [t \in Tasks |-> IF t \in T THEN "pending" ELSE "absent"]
      BY <2>1 DEF Plans, Statuses
    <2>2. CASE \E T \in SUBSET (Tasks \ Present(plan)) :
                 next = [t \in Tasks |-> IF t \in T THEN "pending" ELSE plan[t]]
      BY <1>1, <2>2 DEF Plans, Statuses
    <2>3. CASE next \in {p \in Plans : Present(p) = Present(plan)}
      BY <2>3
    <2>4. QED
      BY <2>1, <2>2, <2>3 DEF Proposals
  <1>3. leaf \in 0..Len(entries) /\ Room(1)
    BY TreeFacts DEF CallTodo
  <1>4. CASE Valid(next)
    <2> DEFINE d == [kind |-> "todo", plan |-> next]
    <2>1. d \in Data /\ d.kind # "compaction" /\ AppendAt(leaf, <<d>>)
      BY <1>2, <1>4, Records DEF CallTodo
    <2> HIDE DEF d
    <2>2. Grows(leaf, <<d>>)
      BY <1>3, <2>1, OneRecord
    <2>3. QED
      BY <1>2, <1>4, <2>2 DEF d
  <1>5. CASE ~Valid(next)
    <2> DEFINE d == [kind |-> "message"]
    <2>1. d \in Data /\ d.kind # "compaction" /\ AppendAt(leaf, <<d>>)
      BY <1>5, Records DEF CallTodo
    <2> HIDE DEF d
    <2>2. Grows(leaf, <<d>>)
      BY <1>3, <2>1, OneRecord
    <2>3. QED
      BY <1>2, <1>5, <2>2 DEF d
  <1>6. QED
    BY <1>2, <1>4, <1>5

LEMMA SelectionGrows ==
  ASSUME TreeInv, PersonaTypeOK, NEW name \in Named, ApplySelection(name), Room(1)
  PROVE  /\ Grows(leaf, <<Selection(name, baseline')>>)
         /\ active' = name /\ baseline' \in Named /\ carried' = FALSE
  <1>1. active' = name /\ baseline' \in Named /\ carried' = FALSE
    BY DEF ApplySelection, PersonaTypeOK
  <1>2. AppendAt(leaf, <<Selection(name, baseline')>>)
    BY <1>1 DEF ApplySelection
  <1>3. leaf \in 0..Len(entries)
    BY TreeFacts
  <1> DEFINE d == Selection(name, baseline')
  <1>4. d \in Data /\ d.kind # "compaction"
    BY <1>1, Records DEF Selection
  <1> HIDE DEF d
  <1>5. AppendAt(leaf, <<d>>)
    BY <1>2 DEF d
  <1>6. Grows(leaf, <<d>>)
    BY <1>3, <1>4, <1>5, OneRecord
  <1>7. QED
    BY <1>1, <1>6 DEF d

LEMMA DeliverGrows ==
  ASSUME TreeInv, PersonaTypeOK, DeliverMessage
  PROVE  /\ Grows(leaf, <<[kind |-> "told", name |-> Head(unsent)]>>)
         /\ unsent' \in Seq(Named)
  <1>1. unsent \in Seq(Named) /\ unsent # <<>>
    BY DEF PersonaTypeOK, DeliverMessage
  <1>2. Head(unsent) \in Named /\ Tail(unsent) \in Seq(Named)
    BY <1>1, HeadTailProperties
  <1>3. [kind |-> "told", name |-> Head(unsent)] \in Data
    BY <1>2, Records
  <1>4. leaf \in 0..Len(entries)
    BY TreeFacts
  <1>5. Grows(leaf, <<[kind |-> "told", name |-> Head(unsent)]>>)
    BY <1>3, <1>4, OneRecord DEF DeliverMessage
  <1>6. QED
    BY <1>2, <1>5 DEF DeliverMessage

LEMMA CallAskGrows ==
  ASSUME TreeInv, NEW c \in Calls, CallAsk(c)
  PROVE  Grows(leaf, <<[kind |-> "call", call |-> c]>>)
  <1>1. [kind |-> "call", call |-> c] \in Data
    BY Records
  <1>2. leaf \in 0..Len(entries) /\ Len(entries) \in Nat /\ MaxEntries[installed] \in Nat
    BY TreeFacts, SessionAssumption DEF TreeInv, TreeTypeOK
  <1>3. Room(1)
    BY <1>2 DEF CallAsk, Room
  <1>4. AppendAt(leaf, <<[kind |-> "call", call |-> c]>>)
    BY DEF CallAsk
  <1>5. QED
    BY <1>1, <1>2, <1>3, <1>4, OneRecord

LEMMA AnswerAskGrows ==
  ASSUME TreeInv, NEW reply \in Answers \cup {Nothing}, AnswerAsk(reply)
  PROVE  \E j \in Branch :
           /\ Kind(j) = "call" /\ entries[j].data.call \in Calls
           /\ Grows(leaf, <<[kind |-> "result", call |-> entries[j].data.call, answer |-> reply]>>)
  <1>1. PICK j \in Branch :
          /\ AsksAt(j)
          /\ AppendAt(leaf, <<[kind |-> "result", call |-> entries[j].data.call, answer |-> reply]>>)
    BY DEF AnswerAsk
  <1>2. leaf \in 0..Len(entries) /\ entries[j].data \in Data
    BY TreeFacts
  <1>3. Kind(j) = "call"
    BY <1>1 DEF AsksAt, Kind
  <1>4. entries[j].data.call \in Calls
    BY <1>2, <1>3, DataFields DEF Kind
  <1>5. [kind |-> "result", call |-> entries[j].data.call, answer |-> reply] \in Data
    BY <1>4, Records
  <1>6. Grows(leaf, <<[kind |-> "result", call |-> entries[j].data.call, answer |-> reply]>>)
    BY <1>1, <1>2, <1>5, OneRecord DEF AnswerAsk
  <1>7. QED
    BY <1>3, <1>4, <1>6

LEMMA AnswerReplayGrows ==
  ASSUME TreeInv, ReplayInv, NEW reply \in Answers, AnswerReplay(reply)
  PROVE  Grows(leaf, <<[kind |-> "replay", call |-> target, answer |-> reply]>>)
  <1>1. target \in Calls
    BY DEF ReplayInv, AnswerReplay
  <1>2. [kind |-> "replay", call |-> target, answer |-> reply] \in Data
    BY <1>1, Records
  <1>3. leaf \in 0..Len(entries)
    BY TreeFacts
  <1>4. QED
    BY <1>2, <1>3, OneRecord DEF AnswerReplay

LEMMA NavigateShape ==
  ASSUME TreeInv, NEW l \in 0..Len(entries), NEW summarized \in BOOLEAN, Navigate(l, summarized)
  PROVE  \/ summarized /\ Grows(l, <<[kind |-> "summary"]>>)
         \/ ~summarized /\ entries' = entries /\ leaf' = l
  <1>1. [kind |-> "summary"] \in Data
    BY Records
  <1>2. QED
    BY <1>1, OneRecord DEF Navigate

(* Each step appends only what is its own. *)
LEMMA OneAside ==
  ASSUME NEW d, NEW kinds, Grows(leaf, <<d>>), d.kind \notin kinds
  PROVE  Aside(kinds)
  BY DEF Aside

LEMMA PromptAside ==
  ASSUME TreeInv, PersonaTypeOK, Prompt
  PROVE  Aside({"todo"}) /\ Aside({"selection"}) /\ Aside(AskKinds)
  <1>1. PICK rs :
          /\ Grows(leaf, rs) /\ rs[Len(rs)] = [kind |-> "message"]
          /\ Len(rs) = 1 \/ (Len(rs) = 2 /\ rs[1] = [kind |-> "told", name |-> active])
    BY PromptGrows
  <1>2. \A i \in 1..Len(rs) : rs[i].kind \in {"message", "told"}
    <2>1. CASE Len(rs) = 1
      BY <1>1, <2>1
    <2>2. CASE Len(rs) = 2 /\ rs[1] = [kind |-> "told", name |-> active]
      <3>1. \A i \in 1..Len(rs) : i = 1 \/ i = 2
        BY <2>2
      <3>2. QED
        BY <1>1, <2>2, <3>1
    <2>3. QED
      BY <1>1, <2>1, <2>2
  <1>3. QED
    BY <1>1, <1>2 DEF Aside, AskKinds

LEMMA CompactAside ==
  ASSUME TreeInv, PersonaTypeOK, NEW cut \in ContextIn(entries, Branch), Compact(cut)
  PROVE  Aside({"todo"}) /\ Aside(AskKinds) /\ ("persona" \notin installed => Aside(PersonaKinds))
  <1>1. PICK rs :
          /\ Grows(leaf, rs) /\ rs[1] = [kind |-> "compaction", cut |-> cut]
          /\ \/ "persona" \notin installed /\ Len(rs) = 1
             \/ "persona" \in installed /\ Len(rs) = 2 /\ rs[2] = Selection(active, active)
    BY CompactGrows
  <1>2. /\ \A i \in 1..Len(rs) : rs[i].kind \in {"compaction", "selection"}
        /\ "persona" \notin installed => \A i \in 1..Len(rs) : rs[i].kind = "compaction"
    <2>1. CASE "persona" \notin installed /\ Len(rs) = 1
      BY <1>1, <2>1
    <2>2. CASE "persona" \in installed /\ Len(rs) = 2 /\ rs[2] = Selection(active, active)
      <3>1. \A i \in 1..Len(rs) : i = 1 \/ i = 2
        BY <2>2
      <3>2. QED
        BY <1>1, <2>2, <3>1 DEF Selection
    <2>3. QED
      BY <1>1, <2>1, <2>2
  <1>3. QED
    BY <1>1, <1>2 DEF Aside, AskKinds, PersonaKinds

LEMMA TodoStepAside ==
  ASSUME TreeInv, TodoTypeOK, TodoStep
  PROVE  Aside(PersonaKinds) /\ Aside(AskKinds)
  <1>1. ASSUME NEW next \in Proposals, CallTodo(next) PROVE Aside(PersonaKinds) /\ Aside(AskKinds)
    BY <1>1, CallTodoGrows, OneAside DEF PersonaKinds, AskKinds
  <1>2. CASE ClearWidget
    BY <1>2 DEF ClearWidget, treeVars, Aside
  <1>3. QED
    BY <1>1, <1>2 DEF TodoStep

LEMMA PersonaStepAside ==
  ASSUME TreeInv, PersonaTypeOK, PersonaStep
  PROVE  Aside({"todo"}) /\ Aside(AskKinds)
  <1>1. ASSUME NEW name \in Named, ApplySelection(name), Room(1) PROVE Aside({"todo"}) /\ Aside(AskKinds)
    <2>1. Grows(leaf, <<Selection(name, baseline')>>)
      BY <1>1, SelectionGrows
    <2>2. Selection(name, baseline').kind = "selection"
      BY DEF Selection
    <2>3. QED
      BY <2>1, <2>2, OneAside DEF AskKinds
  <1>2. CASE DeliverMessage
    BY <1>2, DeliverGrows, OneAside DEF AskKinds
  <1>3. QED
    BY <1>1, <1>2 DEF PersonaStep, Select, CallPersona

LEMMA AskStepAside ==
  ASSUME TreeInv, ReplayInv, AskStep \/ ReplayStep
  PROVE  Aside({"todo"}) /\ Aside(PersonaKinds)
  <1>1. ASSUME NEW c \in Calls, CallAsk(c) PROVE Aside({"todo"}) /\ Aside(PersonaKinds)
    BY <1>1, CallAskGrows, OneAside DEF PersonaKinds
  <1>2. ASSUME NEW reply \in Answers \cup {Nothing}, AnswerAsk(reply)
        PROVE  Aside({"todo"}) /\ Aside(PersonaKinds)
    BY <1>2, AnswerAskGrows, OneAside DEF PersonaKinds
  <1>3. CASE EscapeReplay
    BY <1>3 DEF EscapeReplay, treeVars, Aside
  <1>4. ASSUME NEW reply \in Answers, AnswerReplay(reply)
        PROVE  Aside({"todo"}) /\ Aside(PersonaKinds)
    BY <1>4, AnswerReplayGrows, OneAside DEF PersonaKinds
  <1>5. QED
    BY <1>1, <1>2, <1>3, <1>4 DEF AskStep, ReplayStep

-----------------------------------------------------------------------------
(* The tree stays a tree, with the records the extensions know. *)
LEMMA TreeStep ==
  ASSUME SessionInv, Next
  PROVE  TreeInv'
  <1> USE DEF SessionInv
  <1>1. /\ TreeInv /\ PersonaTypeOK /\ TodoTypeOK /\ ReplayInv
        /\ leaf \in 0..Len(entries) /\ open \in BOOLEAN /\ running \in BOOLEAN /\ inTurn \in BOOLEAN
        /\ (inTurn => running) /\ (running => open)
    BY TreeFacts DEF TreeInv, TreeTypeOK, PersonaInv, TodoInv, AskInv
  <1>2. ASSUME NEW l \in 0..Len(entries), Start(l) PROVE TreeInv'
    BY <1>1, <1>2, StillTree DEF Start
  <1>3. ASSUME NEW l \in 0..Len(entries), NEW summarized \in BOOLEAN, Navigate(l, summarized)
        PROVE  TreeInv'
    <2>1. UNCHANGED <<installed, open, running, inTurn>>
      BY <1>3 DEF Navigate
    <2>2. QED
      BY <1>1, <1>3, <2>1, NavigateShape, StillTree, GrowsTree
  <1>4. CASE Close
    BY <1>1, <1>4, StillTree DEF Close
  <1>5. CASE Prompt
    <2>1. UNCHANGED <<installed, open, inTurn>> /\ running' = TRUE /\ open
      BY <1>5 DEF Prompt, Idle
    <2>2. PICK rs : Grows(leaf, rs)
      BY <1>1, <1>5, PromptGrows
    <2>3. QED
      BY <1>1, <2>1, <2>2, GrowsTree
  <1>6. CASE BeginTurn \/ EndTurn \/ EndRun
    <2>1. UNCHANGED <<installed, entries, leaf, open>>
      BY <1>6 DEF BeginTurn, EndTurn, EndRun
    <2>2. /\ running' \in BOOLEAN /\ inTurn' \in BOOLEAN /\ (inTurn' => running') /\ (running' => open')
      <3>1. CASE BeginTurn
        BY <1>1, <3>1 DEF BeginTurn
      <3>2. CASE EndTurn
        BY <1>1, <3>2 DEF EndTurn
      <3>3. CASE EndRun
        BY <1>1, <3>3 DEF EndRun
      <3>4. QED
        BY <1>6, <3>1, <3>2, <3>3
    <2>3. QED
      BY <1>1, <2>1, <2>2, StillTree
  <1>7. ASSUME NEW cut \in ContextIn(entries, Branch), Compact(cut) PROVE TreeInv'
    <2>1. UNCHANGED <<installed, open, running, inTurn>>
      BY <1>7 DEF Compact
    <2>2. PICK rs : Grows(leaf, rs)
      BY <1>1, <1>7, CompactGrows
    <2>3. QED
      BY <1>1, <2>1, <2>2, GrowsTree
  <1>8. CASE TodoStep
    <2>1. ASSUME NEW next \in Proposals, CallTodo(next) PROVE TreeInv'
      BY <1>1, <2>1, CallTodoGrows, GrowsTree DEF CallTodo
    <2>2. CASE ClearWidget
      BY <1>1, <2>2, StillTree DEF ClearWidget, treeVars
    <2>3. QED
      BY <1>8, <2>1, <2>2 DEF TodoStep
  <1>9. CASE PersonaStep
    <2>1. ASSUME NEW name \in Named, Select(name) PROVE TreeInv'
      BY <1>1, <2>1, SelectionGrows, GrowsTree DEF Select
    <2>2. ASSUME NEW name \in Named, CallPersona(name) PROVE TreeInv'
      BY <1>1, <2>2, SelectionGrows, GrowsTree DEF CallPersona
    <2>3. CASE DeliverMessage
      BY <1>1, <2>3, DeliverGrows, GrowsTree DEF DeliverMessage
    <2>4. QED
      BY <1>9, <2>1, <2>2, <2>3 DEF PersonaStep
  <1>10. CASE AskStep
    <2>1. ASSUME NEW c \in Calls, CallAsk(c) PROVE TreeInv'
      BY <1>1, <2>1, CallAskGrows, GrowsTree DEF CallAsk
    <2>2. ASSUME NEW reply \in Answers \cup {Nothing}, AnswerAsk(reply) PROVE TreeInv'
      BY <1>1, <2>2, AnswerAskGrows, GrowsTree DEF AnswerAsk
    <2>3. CASE EscapeReplay
      BY <1>1, <2>3, StillTree DEF EscapeReplay, treeVars
    <2>4. QED
      BY <1>10, <2>1, <2>2, <2>3 DEF AskStep
  <1>11. CASE ReplayStep
    <2>1. PICK reply \in Answers : AnswerReplay(reply)
      BY <1>11 DEF ReplayStep
    <2>2. UNCHANGED <<installed, open, inTurn>> /\ running' = TRUE
      BY <2>1 DEF AnswerReplay
    <2>3. open
      BY <2>1 DEF AskInv, ReplayInv, AnswerReplay
    <2>4. QED
      BY <1>1, <2>1, <2>2, <2>3, AnswerReplayGrows, GrowsTree
  <1>12. QED
    BY <1>2, <1>3, <1>4, <1>5, <1>6, <1>7, <1>8, <1>9, <1>10, <1>11 DEF Next

-----------------------------------------------------------------------------
(* The todo list. *)
LEMMA SnapshotType ==
  ASSUME NEW log \in Seq(Entry), ParentsFirst(log), NEW l \in 0..Len(log)
  PROVE  Snapshot(log, l) \in Plans
  <1> DEFINE path == PathIn(log, l)
             last == LastOf(log, path, "todo")
  <1>1. Len(log) \in Nat /\ \A j \in 1..Len(log) : log[j] \in Entry
    BY ElementOfSeq DEF ParentsFirst
  <1>2. path \subseteq 1..l
    BY PathBelow
  <1>3. path \in SUBSET (1..Len(log))
    BY <1>1, <1>2
  <1>4. CASE \A j \in path : log[j].data.kind # "todo"
    <2>1. last = 0
      BY <1>4, LastOfNone
    <2>2. QED
      BY <2>1 DEF Snapshot, EmptyPlan, Plans, Statuses
  <1>5. CASE \E j \in path : log[j].data.kind = "todo"
    <2>1. last \in path /\ log[last].data.kind = "todo"
      BY <1>1, <1>3, <1>5, LastOfSome
    <2>2. last # 0 /\ log[last].data \in Data
      BY <1>1, <1>3, <2>1 DEF Entry
    <2>3. log[last].data.plan \in Plans
      BY <2>1, <2>2, DataFields
    <2>4. QED
      BY <2>2, <2>3 DEF Snapshot
  <1>6. QED
    BY <1>4, <1>5

LEMMA SnapshotNone ==
  ASSUME NEW log, ParentsFirst(log), NEW l \in 0..Len(log),
         \A j \in 1..Len(log) : log[j].data.kind # "todo"
  PROVE  Snapshot(log, l) = EmptyPlan
  <1>1. PathIn(log, l) \subseteq 1..l /\ 1..l \subseteq 1..Len(log)
    BY PathBelow DEF ParentsFirst
  <1>2. LastOf(log, PathIn(log, l), "todo") = 0
    BY <1>1, LastOfNone
  <1>3. QED
    BY <1>2 DEF Snapshot

LEMMA SnapshotKept ==
  ASSUME TreeInv, Aside({"todo"})
  PROVE  Snapshot(entries', leaf') = Snapshot(entries, leaf)
  BY AsideKeeps DEF Snapshot, Branch

(* The plan that is appended is the plan of the branch. *)
LEMMA SnapshotNew ==
  ASSUME TreeInv, NEW p, Grows(leaf, <<[kind |-> "todo", plan |-> p]>>)
  PROVE  Snapshot(entries', leaf') = p
  <1> DEFINE rs == <<[kind |-> "todo", plan |-> p]>>
             last == LastOf(entries', PathIn(entries', leaf'), "todo")
  <1>1. /\ Grown(entries', entries, leaf, rs) /\ leaf' = Len(entries')
        /\ ParentsFirst(entries) /\ Len(entries) \in Nat
    BY GrowsGrown, TreeFacts
  <1>2. Len(rs) = 1 /\ rs[1].kind = "todo" /\ rs[1].plan = p
    OBVIOUS
  <1> HIDE DEF rs
  <1>3. LastOf(entries', PathIn(entries', Len(entries')), "todo") = Len(entries')
    BY <1>1, <1>2, GrownLast
  <1>4. Len(entries') = Len(entries) + 1 /\ entries'[Len(entries) + 1].data = rs[1]
    BY <1>1, <1>2 DEF Grown
  <1>5. QED
    BY <1>1, <1>2, <1>3, <1>4 DEF Snapshot

LEMMA WidgetUpdated ==
  ASSUME NEW p, UpdateWidget(p)
  PROVE  /\ widget' \in {"none", "open", "final"} /\ hadOpen' \in BOOLEAN /\ clearing' \in BOOLEAN
         /\ widget' = "open" <=> Open(p) # {}
         /\ widget' = "final" <=> clearing'
  <1> DEFINE final == Present(p) # {} /\ Open(p) = {} /\ (hadOpen \/ clearing)
  <1>1. /\ widget' = IF Open(p) # {} THEN "open" ELSE IF final THEN "final" ELSE "none"
        /\ hadOpen' = (Open(p) # {})
        /\ clearing' = final
        /\ final => Open(p) = {}
    BY DEF UpdateWidget
  <1>2. final \in BOOLEAN
    OBVIOUS
  <1> HIDE DEF final
  <1>3. CASE Open(p) # {}
    BY <1>1, <1>2, <1>3
  <1>4. CASE Open(p) = {}
    BY <1>1, <1>2, <1>4
  <1>5. QED
    BY <1>3, <1>4

(* What the other extensions do leaves the plan alone. *)
LEMMA TodoAside ==
  ASSUME TreeInv, TodoInv, Aside({"todo"}), UNCHANGED <<todoVars, installed, open, inTurn>>
  PROVE  TodoInv'
  <1>1. Snapshot(entries', leaf') = Snapshot(entries, leaf)
    BY SnapshotKept
  <1>2. NoTodo => NoTodo'
    BY AsideNone DEF NoTodo, todoVars, widgetVars
  <1>3. CadenceInv => CadenceInv'
    BY DEF CadenceInv, todoVars, cadenceVars
  <1>4. PlanFollowsBranch' /\ WidgetFollowsPlan'
    BY <1>1 DEF TodoInv, PlanFollowsBranch, WidgetFollowsPlan, todoVars, widgetVars
  <1>5. TodoTypeOK'
    BY DEF TodoInv, TodoTypeOK, todoVars, cadenceVars, widgetVars
  <1>6. QED
    BY <1>2, <1>3, <1>4, <1>5 DEF TodoInv

(* Without the extension there is no plan. *)
LEMMA TodoAbsent ==
  ASSUME TodoInv, "todo" \notin installed, TreeInv', NoneOf({"todo"})', UNCHANGED <<todoVars, installed>>
  PROVE  TodoInv'
  <1>1. TodoTypeOK'
    BY DEF TodoInv, TodoTypeOK, todoVars, cadenceVars, widgetVars
  <1>2. NoTodo'
    BY DEF TodoInv, NoTodo, todoVars, widgetVars
  <1>3. Snapshot(entries', leaf') = EmptyPlan
    <2>1. \A j \in 1..Len(entries') : entries'[j].data.kind # "todo"
      BY DEF NoneOf, Kind
    <2>2. ParentsFirst(entries') /\ leaf' \in 0..Len(entries')
      BY DEF TreeInv, TreeTypeOK, ParentsFirst
    <2>3. QED
      BY <2>1, <2>2, SnapshotNone
  <1>4. Open(EmptyPlan) = {}
    BY DEF Open, EmptyPlan
  <1>5. PlanFollowsBranch' /\ WidgetFollowsPlan'
    BY <1>2, <1>3, <1>4 DEF NoTodo, PlanFollowsBranch, WidgetFollowsPlan
  <1>6. QED
    BY <1>1, <1>2, <1>5 DEF TodoInv

(* session_start and session_tree read the plan again. *)
LEMMA TodoRestored ==
  ASSUME TodoInv, "todo" \in installed, installed' = installed, TreeInv',
         RestoreTodo(entries', leaf')
  PROVE  TodoInv'
  <1>1. plan' \in Plans /\ plan' = Snapshot(entries', leaf')
    <2>1. entries' \in Seq(Entry) /\ ParentsFirst(entries') /\ leaf' \in 0..Len(entries')
      BY DEF TreeInv, TreeTypeOK, ParentsFirst
    <2>2. QED
      BY <2>1, SnapshotType DEF RestoreTodo
  <1>2. UpdateWidget(plan')
    BY DEF RestoreTodo
  <1>3. /\ widget' \in {"none", "open", "final"} /\ hadOpen' \in BOOLEAN /\ clearing' \in BOOLEAN
        /\ widget' = "open" <=> Open(plan') # {}
        /\ widget' = "final" <=> clearing'
    BY <1>2, WidgetUpdated
  <1>4. compacted' = Nothing /\ turns' = 0 /\ tokens' = FALSE /\ reminders' = 0 /\ interacted' = FALSE
        /\ unseen' = unseen
    BY DEF RestoreTodo
  <1>5. unseen \in 0..MaxTurns /\ MaxTurns \in Nat /\ MaxPerRun \in Nat
    BY CadenceAssumption DEF TodoInv, TodoTypeOK
  <1>6. TodoTypeOK'
    <2>1. turns' \in 0..MaxTurns /\ reminders' \in 0..MaxPerRun /\ unseen' \in 0..MaxTurns
      BY <1>4, <1>5
    <2>2. tokens' \in BOOLEAN /\ interacted' \in BOOLEAN
      BY <1>4
    <2>3. QED
      BY <1>1, <1>3, <1>4, <2>1, <2>2 DEF TodoTypeOK
  <1>7. PlanFollowsBranch' /\ WidgetFollowsPlan'
    BY <1>1, <1>3, <1>4 DEF PlanFollowsBranch, WidgetFollowsPlan
  <1>8. CadenceInv'
    BY <1>4, <1>5 DEF CadenceInv
  <1>9. QED
    BY <1>6, <1>7, <1>8 DEF TodoInv

(* The types the steps below keep. *)
LEMMA TodoTypes ==
  ASSUME TodoInv
  PROVE  /\ plan \in Plans /\ (compacted = Nothing \/ compacted \in Plans)
         /\ turns \in 0..MaxTurns /\ tokens \in BOOLEAN /\ reminders \in 0..MaxPerRun
         /\ interacted \in BOOLEAN /\ unseen \in 0..MaxTurns
         /\ MinTurns \in Nat /\ MaxTurns \in Nat /\ MaxPerRun \in Nat
  BY CadenceAssumption DEF TodoInv, TodoTypeOK

LEMMA PromptTodo ==
  ASSUME SessionInv, "todo" \in installed, Prompt
  PROVE  TodoInv'
  <1> USE DEF SessionInv
  <1>1. Snapshot(entries', leaf') = Snapshot(entries, leaf)
    BY PromptAside, SnapshotKept DEF PersonaInv
  <1>2. /\ UpdateWidget(plan) /\ reminders' = 0
        /\ UNCHANGED <<plan, compacted, turns, tokens, interacted, unseen, installed, open, inTurn>>
    BY DEF Prompt, On, BeginRunTodo
  <1>3. /\ widget' \in {"none", "open", "final"} /\ hadOpen' \in BOOLEAN /\ clearing' \in BOOLEAN
        /\ widget' = "open" <=> Open(plan) # {}
        /\ widget' = "final" <=> clearing'
    BY <1>2, WidgetUpdated
  <1>4. TodoTypeOK'
    BY <1>2, <1>3, TodoTypes DEF TodoTypeOK
  <1>5. PlanFollowsBranch' /\ WidgetFollowsPlan'
    BY <1>1, <1>2, <1>3 DEF TodoInv, PlanFollowsBranch, WidgetFollowsPlan
  <1>6. CadenceInv'
    BY <1>2 DEF TodoInv, CadenceInv
  <1>7. QED
    BY <1>2, <1>4, <1>5, <1>6 DEF TodoInv

(* agent_settled, and what the start of a replayed ask's run does alike. *)
LEMMA SettledTodo ==
  ASSUME TreeInv, TodoInv, "todo" \in installed, SettleTodo, Aside({"todo"}),
         UNCHANGED <<installed, open, inTurn>>
  PROVE  TodoInv'
  <1>1. Snapshot(entries', leaf') = Snapshot(entries, leaf)
    BY SnapshotKept
  <1>2. UpdateWidget(plan) /\ UNCHANGED <<plan, compacted, turns, tokens, reminders, interacted, unseen>>
    BY DEF SettleTodo, cadenceVars
  <1>3. /\ widget' \in {"none", "open", "final"} /\ hadOpen' \in BOOLEAN /\ clearing' \in BOOLEAN
        /\ widget' = "open" <=> Open(plan) # {}
        /\ widget' = "final" <=> clearing'
    BY <1>2, WidgetUpdated
  <1>4. TodoTypeOK'
    BY <1>2, <1>3, TodoTypes DEF TodoTypeOK
  <1>5. PlanFollowsBranch' /\ WidgetFollowsPlan'
    BY <1>1, <1>2, <1>3 DEF TodoInv, PlanFollowsBranch, WidgetFollowsPlan
  <1>6. CadenceInv'
    BY <1>2 DEF TodoInv, CadenceInv
  <1>7. QED
    BY <1>4, <1>5, <1>6 DEF TodoInv

(* A turn counts, unless the plan was touched in it. *)
LEMMA TurnTodo ==
  ASSUME TreeInv, TodoInv, "todo" \in installed, BeginTurn \/ EndTurn, inTurn \in BOOLEAN,
         inTurn => open, running => open
  PROVE  TodoInv'
  <1>1. UNCHANGED <<installed, entries, leaf, open, plan, widgetVars>>
    <2>1. CASE BeginTurn
      BY <2>1 DEF BeginTurn, On, ContextTodo
    <2>2. CASE EndTurn
      BY <2>2 DEF EndTurn, On, EndTurnTodo
    <2>3. QED
      BY <2>1, <2>2
  <1>2. WidgetFollowsPlan'
    BY <1>1 DEF TodoInv, WidgetFollowsPlan, widgetVars
  <1>3. CASE BeginTurn
    <2>1. ContextTodo /\ ~inTurn /\ inTurn' = TRUE /\ open
      BY <1>3 DEF BeginTurn, On
    <2>2. ~interacted /\ turns <= unseen /\ (compacted # Nothing => turns = 0)
      BY <2>1 DEF TodoInv, CadenceInv
    <2>3. interacted' = interacted /\ compacted' = Nothing /\ turns' <= unseen'
      BY <2>1, <2>2, TodoTypes DEF ContextTodo
    <2>4. CadenceInv'
      BY <1>1, <2>1, <2>2, <2>3 DEF CadenceInv
    <2>5. TodoTypeOK'
      <3>1. turns' \in 0..MaxTurns /\ unseen' \in 0..MaxTurns
        BY <2>1, TodoTypes DEF ContextTodo
      <3>0. tokens' \in BOOLEAN
        BY <2>1, TodoTypes DEF ContextTodo
      <3>2. reminders' \in 0..MaxPerRun
        BY <2>1, TodoTypes DEF ContextTodo, Due
      <3>3. QED
        BY <1>1, <2>3, <3>0, <3>1, <3>2 DEF TodoInv, TodoTypeOK, widgetVars
    <2>6. PlanFollowsBranch'
      BY <1>1, <2>3 DEF TodoInv, PlanFollowsBranch
    <2>7. QED
      BY <1>1, <1>2, <2>4, <2>5, <2>6 DEF TodoInv
  <1>4. CASE EndTurn
    <2>1. EndTurnTodo /\ inTurn /\ inTurn' = FALSE /\ open
      BY <1>4 DEF EndTurn, On
    <2>2. compacted = Nothing /\ (~interacted => turns <= unseen)
      BY <2>1 DEF TodoInv, CadenceInv
    <2>3. /\ turns' \in 0..MaxTurns /\ tokens' \in BOOLEAN /\ unseen' \in 0..MaxTurns
          /\ turns' <= unseen'
      <3>1. unseen' = Capped(unseen) /\ \/ interacted /\ turns' = 0 /\ tokens' = FALSE
                                        \/ ~interacted /\ turns' = Capped(turns) /\ tokens' \in {tokens, TRUE}
        BY <2>1 DEF EndTurnTodo
      <3>2. \A i, j \in 0..MaxTurns : Capped(i) \in 0..MaxTurns /\ (i <= j => Capped(i) <= Capped(j))
        BY TodoTypes DEF Capped
      <3>3. unseen' \in 0..MaxTurns
        BY <3>1, <3>2, TodoTypes
      <3>4. turns' \in 0..MaxTurns /\ turns' <= unseen'
        <4>1. CASE interacted
          BY <3>1, <3>3, <4>1, TodoTypes
        <4>2. CASE ~interacted
          BY <2>2, <3>1, <3>2, <4>2, TodoTypes
        <4>3. QED
          BY <4>1, <4>2
      <3>5. tokens' \in BOOLEAN
        BY <3>1, TodoTypes
      <3>6. QED
        BY <3>3, <3>4, <3>5
    <2>4. interacted' = FALSE /\ UNCHANGED <<compacted, reminders>>
      BY <2>1 DEF EndTurnTodo
    <2>5. CadenceInv'
      BY <2>2, <2>3, <2>4 DEF CadenceInv
    <2>6. TodoTypeOK'
      BY <1>1, <2>3, <2>4 DEF TodoInv, TodoTypeOK, widgetVars
    <2>7. PlanFollowsBranch'
      BY <1>1, <2>4 DEF TodoInv, PlanFollowsBranch
    <2>8. QED
      BY <1>1, <1>2, <2>5, <2>6, <2>7 DEF TodoInv
  <1>5. QED
    BY <1>3, <1>4

LEMMA CompactTodoInv ==
  ASSUME SessionInv, "todo" \in installed, NEW cut \in ContextIn(entries, Branch), Compact(cut)
  PROVE  TodoInv'
  <1> USE DEF SessionInv
  <1>1. Snapshot(entries', leaf') = Snapshot(entries, leaf)
    BY CompactAside, SnapshotKept DEF PersonaInv
  <1>2. CompactTodo /\ ~inTurn /\ open /\ UNCHANGED <<installed, open, inTurn>>
    BY DEF Compact, On
  <1>3. UNCHANGED <<plan, reminders, interacted, widgetVars, unseen>>
    BY <1>2 DEF CompactTodo
  <1>4. /\ compacted' \in {Nothing, plan}
        /\ compacted' # Nothing => turns' = 0
        /\ turns' \in {turns, 0} /\ tokens' \in {tokens, FALSE}
    BY <1>2 DEF CompactTodo
  <1>5. ~interacted /\ turns <= unseen
    BY <1>2 DEF TodoInv, CadenceInv
  <1>6. turns' \in 0..MaxTurns /\ turns' <= unseen
    BY <1>4, <1>5, TodoTypes
  <1>7. TodoTypeOK'
    <2>1. tokens' \in BOOLEAN
      BY <1>4, TodoTypes
    <2>2. QED
      BY <1>3, <1>4, <1>6, <2>1 DEF TodoInv, TodoTypeOK, widgetVars
  <1>8. PlanFollowsBranch' /\ WidgetFollowsPlan'
    BY <1>1, <1>2, <1>3, <1>4 DEF TodoInv, PlanFollowsBranch, WidgetFollowsPlan, widgetVars
  <1>9. CadenceInv'
    BY <1>2, <1>3, <1>4, <1>5, <1>6 DEF CadenceInv
  <1>10. QED
    BY <1>2, <1>7, <1>8, <1>9 DEF TodoInv

LEMMA CallTodoInv ==
  ASSUME TreeInv, TodoInv, "todo" \in installed, NEW next \in Proposals, CallTodo(next)
  PROVE  TodoInv'
  <1>1. inTurn /\ UNCHANGED <<installed, open, running, inTurn, compacted, turns, tokens, reminders>>
    BY DEF CallTodo
  <1>2. open /\ compacted = Nothing
    BY <1>1 DEF TreeInv, TreeTypeOK, TodoInv, CadenceInv
  <1>3. TodoTypeOK
    BY DEF TodoInv
  <1>4. CASE Valid(next)
    <2>1. Snapshot(entries', leaf') = next /\ next \in Plans
      BY <1>3, <1>4, CallTodoGrows, SnapshotNew
    <2>2. plan' = next /\ interacted' = TRUE /\ unseen' = 0 /\ UpdateWidget(next)
      BY <1>4 DEF CallTodo
    <2>3. /\ widget' \in {"none", "open", "final"} /\ hadOpen' \in BOOLEAN /\ clearing' \in BOOLEAN
          /\ widget' = "open" <=> Open(next) # {}
          /\ widget' = "final" <=> clearing'
      BY <2>2, WidgetUpdated
    <2>4. TodoTypeOK'
      <3>1. unseen' \in 0..MaxTurns /\ interacted' \in BOOLEAN
        BY <2>2, TodoTypes
      <3>2. QED
        BY <1>1, <1>3, <2>1, <2>2, <2>3, <3>1 DEF TodoTypeOK
    <2>5. PlanFollowsBranch' /\ WidgetFollowsPlan'
      BY <1>1, <1>2, <2>1, <2>2, <2>3 DEF PlanFollowsBranch, WidgetFollowsPlan
    <2>6. CadenceInv'
      BY <1>1, <1>2, <2>2 DEF CadenceInv
    <2>7. QED
      BY <1>1, <2>4, <2>5, <2>6 DEF TodoInv
  <1>5. CASE ~Valid(next)
    <2>1. Grows(leaf, <<[kind |-> "message"]>>)
      BY <1>3, <1>5, CallTodoGrows
    <2>2. Aside({"todo"})
      BY <2>1, OneAside
    <2>3. UNCHANGED <<todoVars, installed, open, inTurn>>
      BY <1>1, <1>5 DEF CallTodo, todoVars, cadenceVars, widgetVars
    <2>4. QED
      BY <2>2, <2>3, TodoAside
  <1>6. QED
    BY <1>4, <1>5

LEMMA ClearWidgetInv ==
  ASSUME TodoInv, "todo" \in installed, ClearWidget
  PROVE  TodoInv'
  <1>1. /\ clearing /\ clearing' = FALSE /\ hadOpen' = FALSE /\ widget' = "none"
        /\ UNCHANGED <<entries, leaf, installed, open, inTurn, plan, compacted, cadenceVars, unseen>>
    BY DEF ClearWidget, treeVars
  <1>2. open => Open(plan) = {}
    BY <1>1 DEF TodoInv, WidgetFollowsPlan
  <1>3. TodoTypeOK'
    BY <1>1 DEF TodoInv, TodoTypeOK, cadenceVars
  <1>4. PlanFollowsBranch' /\ WidgetFollowsPlan'
    BY <1>1, <1>2 DEF TodoInv, PlanFollowsBranch, WidgetFollowsPlan
  <1>5. CadenceInv'
    BY <1>1 DEF TodoInv, CadenceInv, cadenceVars
  <1>6. QED
    BY <1>1, <1>3, <1>4, <1>5 DEF TodoInv

(* Every step of the session keeps what the todo list shows. *)
LEMMA TodoPreserved ==
  ASSUME SessionInv, Next
  PROVE  TodoInv'
  <1> USE DEF SessionInv
  <1>1. /\ TreeInv /\ TodoInv /\ TodoTypeOK /\ PersonaTypeOK /\ ReplayInv /\ TreeInv'
        /\ ("todo" \notin installed => NoneOf({"todo"}))
    BY TreeStep DEF TodoInv, NoTodo, PersonaInv, AskInv
  <1>2. inTurn \in BOOLEAN /\ (inTurn => open) /\ (running => open)
    BY DEF TreeInv, TreeTypeOK
  <1>3. ASSUME NEW l \in 0..Len(entries), Start(l) PROVE TodoInv'
    <2>1. entries' = entries /\ leaf' = l /\ installed' = installed
      BY <1>3 DEF Start
    <2>2. CASE "todo" \in installed
      BY <1>1, <1>3, <2>1, <2>2, TodoRestored DEF Start, On
    <2>3. CASE "todo" \notin installed
      <3>1. NoneOf({"todo"})'
        BY <1>1, <2>1, <2>3 DEF NoneOf, Kind
      <3>2. QED
        BY <1>1, <1>3, <2>1, <2>3, <3>1, TodoAbsent DEF Start, On
    <2>4. QED
      BY <2>2, <2>3
  <1>4. ASSUME NEW l \in 0..Len(entries), NEW summarized \in BOOLEAN, Navigate(l, summarized)
        PROVE  TodoInv'
    <2>1. installed' = installed
      BY <1>4 DEF Navigate
    <2>2. CASE "todo" \in installed
      BY <1>1, <1>4, <2>1, <2>2, TodoRestored DEF Navigate, On
    <2>3. CASE "todo" \notin installed
      <3>1. NoneOf({"todo"})'
        <4>1. CASE Grows(l, <<[kind |-> "summary"]>>)
          BY <1>1, <2>3, <4>1, GrowsNone
        <4>2. CASE entries' = entries
          BY <1>1, <2>3, <4>2 DEF NoneOf, Kind
        <4>3. QED
          BY <1>1, <1>4, <4>1, <4>2, NavigateShape
      <3>2. UNCHANGED todoVars
        BY <1>4, <2>3 DEF Navigate, On
      <3>3. QED
        BY <1>1, <2>1, <2>3, <3>1, <3>2, TodoAbsent
    <2>4. QED
      BY <2>2, <2>3
  <1>5. CASE Close
    <2>1. open' = FALSE /\ UNCHANGED <<installed, entries, leaf>>
      BY <1>5 DEF Close
    <2>2. CASE "todo" \in installed
      <3>1. CloseTodo
        BY <1>5, <2>2 DEF Close, On
      <3>2. TodoTypeOK'
        <4>1. widget' \in {"none", "open", "final"} /\ hadOpen' \in BOOLEAN /\ clearing' \in BOOLEAN
          BY <1>1, <3>1 DEF CloseTodo, TodoTypeOK, widgetVars
        <4>2. QED
          BY <1>1, <3>1, <4>1 DEF CloseTodo, TodoTypeOK, cadenceVars
      <3>3. QED
        BY <2>1, <2>2, <3>2 DEF TodoInv, PlanFollowsBranch, WidgetFollowsPlan, CadenceInv
    <2>3. CASE "todo" \notin installed
      <3>1. NoneOf({"todo"})'
        BY <1>1, <2>1, <2>3 DEF NoneOf, Kind
      <3>2. UNCHANGED todoVars
        BY <1>5, <2>3 DEF Close, On
      <3>3. QED
        BY <1>1, <2>1, <2>3, <3>1, <3>2, TodoAbsent
    <2>4. QED
      BY <2>2, <2>3
  <1>6. CASE Prompt
    <2>1. CASE "todo" \in installed
      BY <1>6, <2>1, PromptTodo
    <2>2. CASE "todo" \notin installed
      <3>1. Aside({"todo"})
        BY <1>1, <1>6, PromptAside
      <3>2. UNCHANGED <<todoVars, installed>>
        BY <1>6, <2>2 DEF Prompt, On
      <3>3. QED
        BY <1>1, <2>2, <3>1, <3>2, AsideNone, TodoAbsent
    <2>3. QED
      BY <2>1, <2>2
  <1>7. CASE BeginTurn \/ EndTurn
    <2>1. CASE "todo" \in installed
      BY <1>1, <1>2, <1>7, <2>1, TurnTodo
    <2>2. CASE "todo" \notin installed
      <3>1. UNCHANGED <<todoVars, installed, entries, leaf>>
        BY <1>7, <2>2 DEF BeginTurn, EndTurn, On
      <3>2. Aside({"todo"})
        BY <3>1 DEF Aside
      <3>3. QED
        BY <1>1, <2>2, <3>1, <3>2, AsideNone, TodoAbsent
    <2>3. QED
      BY <2>1, <2>2
  <1>8. CASE EndRun
    <2>1. UNCHANGED <<installed, entries, leaf, open, inTurn>> /\ Aside({"todo"})
      BY <1>8 DEF EndRun, Aside
    <2>2. CASE "todo" \in installed
      BY <1>1, <1>8, <2>1, <2>2, SettledTodo DEF EndRun, On
    <2>3. CASE "todo" \notin installed
      <3>1. UNCHANGED todoVars
        BY <1>8, <2>3 DEF EndRun, On
      <3>2. QED
        BY <1>1, <2>1, <2>3, <3>1, AsideNone, TodoAbsent
    <2>4. QED
      BY <2>2, <2>3
  <1>9. ASSUME NEW cut \in ContextIn(entries, Branch), Compact(cut) PROVE TodoInv'
    <2>1. CASE "todo" \in installed
      BY <1>9, <2>1, CompactTodoInv
    <2>2. CASE "todo" \notin installed
      <3>1. Aside({"todo"})
        BY <1>1, <1>9, CompactAside
      <3>2. UNCHANGED <<todoVars, installed>>
        BY <1>9, <2>2 DEF Compact, On
      <3>3. QED
        BY <1>1, <2>2, <3>1, <3>2, AsideNone, TodoAbsent
    <2>3. QED
      BY <2>1, <2>2
  <1>10. CASE TodoStep
    BY <1>1, <1>10, CallTodoInv, ClearWidgetInv DEF TodoStep
  <1>11. CASE PersonaStep
    <2>1. Aside({"todo"})
      BY <1>1, <1>11, PersonaStepAside
    <2>2. UNCHANGED <<todoVars, installed, open, inTurn>>
      BY <1>11 DEF PersonaStep, Select, CallPersona, DeliverMessage
    <2>3. QED
      BY <1>1, <2>1, <2>2, TodoAside
  <1>12. CASE AskStep
    <2>1. Aside({"todo"})
      BY <1>1, <1>12, AskStepAside
    <2>2. UNCHANGED <<todoVars, installed, open, inTurn>>
      BY <1>12 DEF AskStep, CallAsk, AnswerAsk, EscapeReplay, treeVars
    <2>3. QED
      BY <1>1, <2>1, <2>2, TodoAside
  <1>13. CASE ReplayStep
    <2>1. Aside({"todo"})
      BY <1>1, <1>13, AskStepAside
    <2>2. UNCHANGED <<installed, open, inTurn>>
      BY <1>13 DEF ReplayStep, AnswerReplay
    <2>3. CASE "todo" \in installed
      BY <1>1, <1>13, <2>1, <2>2, <2>3, SettledTodo DEF ReplayStep, On
    <2>4. CASE "todo" \notin installed
      <3>1. UNCHANGED todoVars
        BY <1>13, <2>4 DEF ReplayStep, On
      <3>2. QED
        BY <1>1, <2>1, <2>2, <3>1, TodoAside
    <2>5. QED
      BY <2>3, <2>4
  <1>14. QED
    BY <1>3, <1>4, <1>5, <1>6, <1>7, <1>8, <1>9, <1>10, <1>11, <1>12, <1>13 DEF Next

-----------------------------------------------------------------------------
(* The persona. *)
LEMMA StoredType ==
  ASSUME NEW log \in Seq(Entry), ParentsFirst(log), NEW l \in 0..Len(log)
  PROVE  Stored(log, l).active \in Named /\ Stored(log, l).baseline \in Named
  <1> DEFINE path == PathIn(log, l)
             last == LastOf(log, path, "selection")
  <1>1. Len(log) \in Nat /\ \A j \in 1..Len(log) : log[j] \in Entry
    BY ElementOfSeq DEF ParentsFirst
  <1>2. path \subseteq 1..l
    BY PathBelow
  <1>3. path \in SUBSET (1..Len(log))
    BY <1>1, <1>2
  <1>4. CASE \A j \in path : log[j].data.kind # "selection"
    <2>1. last = 0
      BY <1>4, LastOfNone
    <2>2. QED
      BY <2>1 DEF Stored, Named
  <1>5. CASE \E j \in path : log[j].data.kind = "selection"
    <2>1. last \in path /\ log[last].data.kind = "selection"
      BY <1>1, <1>3, <1>5, LastOfSome
    <2>2. last # 0 /\ log[last].data \in Data
      BY <1>1, <1>3, <2>1 DEF Entry
    <2>3. log[last].data.active \in Named /\ log[last].data.baseline \in Named
      BY <2>1, <2>2, DataFields
    <2>4. QED
      BY <2>2, <2>3 DEF Stored
  <1>6. QED
    BY <1>4, <1>5

LEMMA StoredNone ==
  ASSUME NEW log, ParentsFirst(log), NEW l \in 0..Len(log),
         \A j \in 1..Len(log) : log[j].data.kind # "selection"
  PROVE  Stored(log, l).active = Nothing
  <1>1. PathIn(log, l) \subseteq 1..l /\ 1..l \subseteq 1..Len(log)
    BY PathBelow DEF ParentsFirst
  <1>2. LastOf(log, PathIn(log, l), "selection") = 0
    BY <1>1, LastOfNone
  <1>3. QED
    BY <1>2 DEF Stored

LEMMA StoredKept ==
  ASSUME TreeInv, Aside({"selection"})
  PROVE  Stored(entries', leaf') = Stored(entries, leaf)
  BY AsideKeeps DEF Stored, Branch

(* The selection that is appended last is the one the branch stores. *)
LEMMA StoredNew ==
  ASSUME TreeInv, NEW rs, Grows(leaf, rs), NEW a, NEW b, rs[Len(rs)] = Selection(a, b)
  PROVE  Stored(entries', leaf').active = a
  <1>1. /\ Grown(entries', entries, leaf, rs) /\ leaf' = Len(entries')
        /\ ParentsFirst(entries) /\ Len(entries) \in Nat
    BY GrowsGrown, TreeFacts
  <1>2. rs[Len(rs)].kind = "selection" /\ rs[Len(rs)].active = a
    BY DEF Selection
  <1>3. LastOf(entries', PathIn(entries', Len(entries')), "selection") = Len(entries')
    BY <1>1, <1>2, GrownLast
  <1>4. /\ Len(rs) \in 1..2 /\ Len(entries') = Len(entries) + Len(rs)
        /\ entries'[Len(entries) + Len(rs)].data = rs[Len(rs)]
    BY <1>1 DEF Grown
  <1>5. QED
    BY <1>1, <1>2, <1>3, <1>4 DEF Stored

(* What the other extensions do leaves the selection alone. *)
LEMMA PersonaAside ==
  ASSUME TreeInv, PersonaInv, Aside(PersonaKinds), UNCHANGED <<personaVars, installed, open>>
  PROVE  PersonaInv'
  <1>1. Aside({"selection"})
    BY DEF Aside, PersonaKinds
  <1>2. Stored(entries', leaf') = Stored(entries, leaf)
    BY <1>1, StoredKept
  <1>3. SelectionSurvives'
    BY <1>2 DEF PersonaInv, SelectionSurvives, Kept, personaVars
  <1>4. PersonaTypeOK'
    BY DEF PersonaInv, PersonaTypeOK, personaVars
  <1>5. NoPersona => NoPersona'
    BY AsideNone DEF NoPersona, personaVars
  <1>6. QED
    BY <1>3, <1>4, <1>5 DEF PersonaInv

(* Without the extension there is none. *)
LEMMA PersonaAbsent ==
  ASSUME PersonaInv, "persona" \notin installed, TreeInv', NoneOf(PersonaKinds)',
         UNCHANGED <<personaVars, installed>>
  PROVE  PersonaInv'
  <1>1. PersonaTypeOK' /\ NoPersona'
    BY DEF PersonaInv, PersonaTypeOK, NoPersona, personaVars
  <1>2. Stored(entries', leaf').active = Nothing
    <2>1. \A j \in 1..Len(entries') : entries'[j].data.kind # "selection"
      BY DEF NoneOf, Kind, PersonaKinds
    <2>2. ParentsFirst(entries') /\ leaf' \in 0..Len(entries')
      BY DEF TreeInv, TreeTypeOK, ParentsFirst
    <2>3. QED
      BY <2>1, <2>2, StoredNone
  <1>3. SelectionSurvives'
    BY <1>1, <1>2 DEF NoPersona, SelectionSurvives, Kept
  <1>4. QED
    BY <1>1, <1>3 DEF PersonaInv

(* A selection is stored where it is made. *)
LEMMA SelectInv ==
  ASSUME TreeInv, PersonaInv, "persona" \in installed, installed' = installed,
         NEW name \in Named, ApplySelection(name), Room(1), known' = known, unsent' \in Seq(Named)
  PROVE  PersonaInv'
  <1>1. /\ Grows(leaf, <<Selection(name, baseline')>>)
        /\ active' = name /\ baseline' \in Named /\ carried' = FALSE
    BY SelectionGrows DEF PersonaInv
  <1>2. Stored(entries', leaf').active = name
    <2> DEFINE rs == <<Selection(name, baseline')>>
    <2>1. Len(rs) = 1 /\ rs[1] = Selection(name, baseline') /\ Grows(leaf, rs)
      BY <1>1
    <2> HIDE DEF rs
    <2>2. QED
      BY <2>1, StoredNew
  <1>3. SelectionSurvives'
    BY <1>1, <1>2 DEF SelectionSurvives, Kept
  <1>4. PersonaTypeOK'
    BY <1>1 DEF PersonaInv, PersonaTypeOK
  <1>5. QED
    BY <1>3, <1>4 DEF PersonaInv

LEMMA CallPersonaUnsent ==
  ASSUME PersonaTypeOK, NEW name \in Named, CallPersona(name)
  PROVE  unsent' \in Seq(Named)
  <1> DEFINE more == [i \in 1..Len(Messages(name)) |-> name]
  <1>1. Len(Messages(name)) \in Nat
    BY MessagesSent
  <1>2. more \in Seq(Named)
    <2>1. more \in [1..Len(Messages(name)) -> Named]
      OBVIOUS
    <2> HIDE DEF more
    <2>2. QED
      BY <1>1, <2>1
  <1>3. unsent \in Seq(Named) /\ unsent' = unsent \o more
    BY DEF PersonaTypeOK, CallPersona
  <1> HIDE DEF more
  <1>4. QED
    BY <1>2, <1>3, ConcatProperties

(* Every step of the session keeps the selection. *)
LEMMA PersonaPreserved ==
  ASSUME SessionInv, Next
  PROVE  PersonaInv'
  <1> USE DEF SessionInv
  <1>1. /\ TreeInv /\ PersonaInv /\ PersonaTypeOK /\ TodoTypeOK /\ ReplayInv /\ TreeInv'
        /\ ("persona" \notin installed => NoneOf(PersonaKinds))
    BY TreeStep DEF TodoInv, NoPersona, PersonaInv, AskInv
  <1>2. ASSUME NEW l \in 0..Len(entries), Start(l) PROVE PersonaInv'
    <2>1. entries' = entries /\ leaf' = l /\ installed' = installed
      BY <1>2 DEF Start
    <2>2. CASE "persona" \in installed
      <3>1. RestorePersona(entries', leaf')
        BY <1>2, <2>1, <2>2 DEF Start, On
      <3>2. Stored(entries', leaf').active \in Named /\ Stored(entries', leaf').baseline \in Named
        <4>1. entries' \in Seq(Entry) /\ ParentsFirst(entries') /\ leaf' \in 0..Len(entries')
          BY <1>1 DEF TreeInv, TreeTypeOK, ParentsFirst
        <4>2. QED
          BY <4>1, StoredType
      <3>3. /\ active' = Configured(Stored(entries', leaf').active, known')
            /\ baseline' = Configured(Stored(entries', leaf').baseline, known')
            /\ known' \subseteq Personas /\ unsent' = <<>> /\ carried' = FALSE
        BY <3>1 DEF RestorePersona
      <3>4. PersonaTypeOK'
        <4>1. active' \in Named /\ baseline' \in Named
          BY <3>2, <3>3 DEF Configured, Named
        <4>2. carried' \in BOOLEAN
          BY <3>3
        <4>3. unsent' \in Seq(Named)
          BY <3>3, EmptySeq
        <4>4. QED
          BY <3>3, <4>1, <4>2, <4>3 DEF PersonaTypeOK
      <3>5. SelectionSurvives'
        BY <3>3 DEF SelectionSurvives, Kept, Configured
      <3>6. QED
        BY <2>1, <2>2, <3>4, <3>5 DEF PersonaInv
    <2>3. CASE "persona" \notin installed
      <3>1. NoneOf(PersonaKinds)'
        BY <1>1, <2>1, <2>3 DEF NoneOf, Kind
      <3>2. QED
        BY <1>1, <1>2, <2>1, <2>3, <3>1, PersonaAbsent DEF Start, On
    <2>4. QED
      BY <2>2, <2>3
  <1>3. ASSUME NEW l \in 0..Len(entries), NEW summarized \in BOOLEAN, Navigate(l, summarized)
        PROVE  PersonaInv'
    <2>1. installed' = installed
      BY <1>3 DEF Navigate
    <2>2. CASE "persona" \in installed
      <3>1. /\ carried' = (carried \/ Stored(entries', leaf').active # Stored(entries, leaf).active)
            /\ UNCHANGED <<active, baseline, known, unsent>>
        BY <1>3, <2>2 DEF Navigate, On, NavigatePersona
      <3>2. PersonaTypeOK'
        <4>1. carried' \in BOOLEAN
          BY <1>1, <3>1 DEF PersonaInv, PersonaTypeOK
        <4>2. QED
          BY <1>1, <3>1, <4>1 DEF PersonaInv, PersonaTypeOK
      <3>3. open
        BY <1>3 DEF Navigate, Idle
      <3>4. SelectionSurvives'
        BY <1>1, <3>1, <3>3 DEF PersonaInv, SelectionSurvives, Kept
      <3>5. QED
        BY <1>1, <2>1, <2>2, <3>2, <3>4 DEF PersonaInv
    <2>3. CASE "persona" \notin installed
      <3>1. NoneOf(PersonaKinds)'
        <4>1. CASE Grows(l, <<[kind |-> "summary"]>>)
          BY <1>1, <2>3, <4>1, GrowsNone DEF PersonaKinds
        <4>2. CASE entries' = entries
          BY <1>1, <2>3, <4>2 DEF NoneOf, Kind
        <4>3. QED
          BY <1>1, <1>3, <4>1, <4>2, NavigateShape
      <3>2. UNCHANGED personaVars
        BY <1>3, <2>3 DEF Navigate, On
      <3>3. QED
        BY <1>1, <2>1, <2>3, <3>1, <3>2, PersonaAbsent
    <2>4. QED
      BY <2>2, <2>3
  <1>4. CASE Close
    <2>1. open' = FALSE /\ UNCHANGED <<installed, entries, leaf, personaVars>>
      BY <1>4 DEF Close
    <2>2. QED
      BY <1>1, <2>1 DEF PersonaInv, PersonaTypeOK, SelectionSurvives, NoPersona, NoneOf, Kind, personaVars
  <1>5. CASE Prompt
    <2>1. UNCHANGED <<personaVars, installed, open>>
      BY <1>5 DEF Prompt
    <2>2. CASE "persona" \in installed
      <3>1. Stored(entries', leaf') = Stored(entries, leaf)
        BY <1>1, <1>5, PromptAside, StoredKept
      <3>2. QED
        BY <1>1, <2>1, <2>2, <3>1 DEF PersonaInv, PersonaTypeOK, SelectionSurvives, Kept, personaVars
    <2>3. CASE "persona" \notin installed
      <3>1. PICK rs : Grows(leaf, rs) /\ rs[Len(rs)] = [kind |-> "message"] /\ Len(rs) = 1
        BY <1>1, <1>5, <2>3, PromptGrows
      <3>2. \A i \in 1..Len(rs) : rs[i].kind \notin PersonaKinds
        BY <3>1 DEF PersonaKinds
      <3>3. QED
        BY <1>1, <2>1, <3>1, <3>2, PersonaAside DEF Aside
    <2>4. QED
      BY <2>2, <2>3
  <1>6. CASE BeginTurn \/ EndTurn
    BY <1>1, <1>6, PersonaAside DEF BeginTurn, EndTurn, Aside
  <1>7. CASE EndRun
    <2>1. UNCHANGED <<installed, entries, leaf, open>>
      BY <1>7 DEF EndRun
    <2>2. CASE "persona" \in installed
      <3>1. unsent' = <<>> /\ UNCHANGED <<active, baseline, known, carried>>
        BY <1>7, <2>2 DEF EndRun, On, SettlePersona
      <3>2. QED
        BY <1>1, <2>1, <2>2, <3>1 DEF PersonaInv, PersonaTypeOK, SelectionSurvives, Kept
    <2>3. CASE "persona" \notin installed
      BY <1>1, <1>7, <2>1, <2>3, PersonaAside DEF EndRun, On, Aside
    <2>4. QED
      BY <2>2, <2>3
  <1>8. ASSUME NEW cut \in ContextIn(entries, Branch), Compact(cut) PROVE PersonaInv'
    <2>1. UNCHANGED <<installed, open>>
      BY <1>8 DEF Compact
    <2>2. CASE "persona" \in installed
      <3>1. PICK rs : Grows(leaf, rs) /\ Len(rs) = 2 /\ rs[2] = Selection(active, active)
        BY <1>1, <1>8, <2>2, CompactGrows
      <3>2. Stored(entries', leaf').active = active
        BY <1>1, <3>1, StoredNew
      <3>3. baseline' = active /\ carried' = FALSE /\ UNCHANGED <<active, known, unsent>>
        BY <1>8, <2>2 DEF Compact, On, CompactPersona
      <3>4. QED
        BY <1>1, <2>1, <2>2, <3>2, <3>3 DEF PersonaInv, PersonaTypeOK, SelectionSurvives, Kept
    <2>3. CASE "persona" \notin installed
      <3>1. Aside(PersonaKinds)
        BY <1>1, <1>8, <2>3, CompactAside
      <3>2. UNCHANGED personaVars
        BY <1>8, <2>3 DEF Compact, On
      <3>3. QED
        BY <1>1, <2>1, <3>1, <3>2, PersonaAside
    <2>4. QED
      BY <2>2, <2>3
  <1>9. CASE TodoStep
    <2>1. UNCHANGED <<personaVars, installed, open>>
      BY <1>9 DEF TodoStep, CallTodo, ClearWidget, treeVars
    <2>2. QED
      BY <1>1, <1>9, <2>1, TodoStepAside, PersonaAside
  <1>10. CASE PersonaStep
    <2>1. ASSUME NEW name \in Named, Select(name) PROVE PersonaInv'
      BY <1>1, <1>10, <2>1, SelectInv DEF Select, PersonaStep, PersonaTypeOK
    <2>2. ASSUME NEW name \in Named, CallPersona(name) PROVE PersonaInv'
      <3>1. unsent' \in Seq(Named)
        BY <1>1, <2>2, CallPersonaUnsent
      <3>2. QED
        BY <1>1, <1>10, <2>2, <3>1, SelectInv DEF CallPersona, PersonaStep
    <2>3. CASE DeliverMessage
      <3>1. Aside({"selection"})
        BY <1>1, <2>3, DeliverGrows, OneAside
      <3>2. unsent' \in Seq(Named) /\ UNCHANGED <<installed, open, active, baseline, known, carried>>
        BY <1>1, <2>3, DeliverGrows DEF DeliverMessage
      <3>3. Stored(entries', leaf') = Stored(entries, leaf)
        BY <1>1, <3>1, StoredKept
      <3>4. "persona" \in installed
        BY <1>10 DEF PersonaStep
      <3>5. QED
        BY <1>1, <3>2, <3>3, <3>4 DEF PersonaInv, PersonaTypeOK, SelectionSurvives, Kept
    <2>4. QED
      BY <1>10, <2>1, <2>2, <2>3 DEF PersonaStep
  <1>11. CASE AskStep \/ ReplayStep
    <2>1. UNCHANGED <<personaVars, installed, open>>
      BY <1>11 DEF AskStep, CallAsk, AnswerAsk, EscapeReplay, ReplayStep, AnswerReplay, treeVars
    <2>2. QED
      BY <1>1, <1>11, <2>1, AskStepAside, PersonaAside
  <1>12. QED
    BY <1>2, <1>3, <1>4, <1>5, <1>6, <1>7, <1>8, <1>9, <1>10, <1>11 DEF Next

-----------------------------------------------------------------------------
(* The asks of the past. *)
LEMMA LastAnswerIs ==
  ASSUME NEW log, NEW found \in SUBSET Nat, NEW j \in found, \A i \in found : i <= j
  PROVE  LastAnswer(log, found) = log[j].data.answer
  <1>1. \A i \in found : (\A m \in found : m <= i) => i = j
    OBVIOUS
  <1>2. (CHOOSE i \in found : \A m \in found : m <= i) = j
    BY <1>1
  <1>3. found # {}
    OBVIOUS
  <1>4. LastAnswer(log, found) = log[CHOOSE i \in found : \A m \in found : m <= i].data.answer
    BY <1>3 DEF LastAnswer
  <1>5. QED
    BY <1>2, <1>4

LEMMA LastAnswerSame ==
  ASSUME NEW log, NEW longer, NEW n \in Nat, NEW found \in SUBSET (1..n),
         \A j \in found : longer[j] = log[j]
  PROVE  LastAnswer(longer, found) = LastAnswer(log, found)
  <1>1. CASE found = {}
    BY <1>1 DEF LastAnswer
  <1>2. CASE found # {}
    <2>1. PICK j \in found : \A i \in found : i <= j
      BY <1>2, GreatestNumber
    <2>2. found \in SUBSET Nat
      OBVIOUS
    <2>3. /\ LastAnswer(log, found) = log[j].data.answer
          /\ LastAnswer(longer, found) = longer[j].data.answer
      BY <2>1, <2>2, LastAnswerIs
    <2>4. QED
      BY <2>3
  <1>3. QED
    BY <1>1, <1>2

(* restoreRevisions() finds answers. *)
LEMMA RevisionsType ==
  ASSUME NEW log \in Seq(Entry), ParentsFirst(log), NEW l \in 0..Len(log)
  PROVE  Revisions(log, l) \in [Calls -> Answers \cup {Nothing}]
  <1>1. ASSUME NEW c \in Calls
        PROVE  LastAnswer(log, AboutCall(log, PathIn(log, l), "replay", c)) \in Answers \cup {Nothing}
    <2> DEFINE found == AboutCall(log, PathIn(log, l), "replay", c)
    <2>1. Len(log) \in Nat /\ \A j \in 1..Len(log) : log[j].data \in Data
      <3>1. Len(log) \in Nat /\ \A j \in 1..Len(log) : log[j] \in Entry
        BY ElementOfSeq DEF ParentsFirst
      <3>2. QED
        BY <3>1 DEF Entry
    <2>2. PathIn(log, l) \subseteq 1..l /\ 1..l \subseteq 1..Len(log)
      BY <2>1, PathBelow
    <2>3. found \in SUBSET (1..Len(log)) /\ \A j \in found : log[j].data.kind = "replay"
      BY <2>2 DEF AboutCall
    <2> HIDE DEF found
    <2>4. CASE found = {}
      BY <2>4 DEF LastAnswer, found
    <2>5. CASE found # {}
      <3>1. PICK j \in found : \A i \in found : i <= j
        BY <2>1, <2>3, <2>5, GreatestNumber
      <3>2. found \in SUBSET Nat
        BY <2>3
      <3>3. LastAnswer(log, found) = log[j].data.answer
        BY <3>1, <3>2, LastAnswerIs
      <3>4. log[j].data \in Data /\ log[j].data.kind = "replay"
        BY <2>1, <2>3
      <3>5. log[j].data.answer \in Answers
        BY <3>4, DataFields
      <3>6. QED
        BY <3>3, <3>5 DEF found
    <2>6. QED
      BY <2>4, <2>5
  <1>2. QED
    BY <1>1 DEF Revisions

LEMMA RevisionsNone ==
  ASSUME NEW log, ParentsFirst(log), NEW l \in 0..Len(log),
         \A j \in 1..Len(log) : log[j].data.kind # "replay"
  PROVE  Revisions(log, l) = Unrevised
  <1>1. PathIn(log, l) \subseteq 1..l /\ 1..l \subseteq 1..Len(log)
    BY PathBelow DEF ParentsFirst
  <1>2. \A c \in Calls : AboutCall(log, PathIn(log, l), "replay", c) = {}
    BY <1>1 DEF AboutCall
  <1>3. QED
    BY <1>2 DEF Revisions, Unrevised, LastAnswer

(* What is appended makes no replay of the branch another one. *)
LEMMA ReplaysKept ==
  ASSUME TreeInv, Aside({"replay"})
  PROVE  /\ \A c : AboutCall(entries', PathIn(entries', leaf'), "replay", c)
                     = AboutCall(entries, Branch, "replay", c)
         /\ Revisions(entries', leaf') = Revisions(entries, leaf)
         /\ Branch \subseteq PathIn(entries', leaf')
         /\ \A j \in Branch : entries'[j] = entries[j]
  <1>1. CASE UNCHANGED <<entries, leaf>>
    BY <1>1 DEF Branch
  <1>2. ASSUME NEW rs, Grows(leaf, rs), \A i \in 1..Len(rs) : rs[i].kind # "replay"
        PROVE  /\ \A c : AboutCall(entries', PathIn(entries', leaf'), "replay", c)
                          = AboutCall(entries, Branch, "replay", c)
               /\ Revisions(entries', leaf') = Revisions(entries, leaf)
               /\ Branch \subseteq PathIn(entries', leaf')
               /\ \A j \in Branch : entries'[j] = entries[j]
    <2> DEFINE n == Len(entries)
               path == PathIn(entries', leaf')
    <2>1. Grown(entries', entries, leaf, rs) /\ leaf' = Len(entries')
      BY <1>2, GrowsGrown
    <2>2. ParentsFirst(entries) /\ n \in Nat /\ Branch \subseteq 1..n
      BY TreeFacts
    <2>3. path = Branch \cup ((n + 1)..Len(entries'))
      BY <2>1, <2>2, GrownPath DEF Branch
    <2>4. \A j \in Branch : entries'[j] = entries[j]
      BY <2>1, <2>2 DEF Grown, Prolongs
    <2>5. \A j \in (n + 1)..Len(entries') : entries'[j].data.kind # "replay"
      <3>1. ASSUME NEW j \in (n + 1)..Len(entries') PROVE entries'[j].data.kind # "replay"
        <4>1. Len(entries') = n + Len(rs) /\ Len(rs) \in 1..2
          BY <2>1 DEF Grown
        <4>2. j - n \in 1..Len(rs) /\ n + (j - n) = j
          BY <2>2, <4>1
        <4>3. entries'[j].data = rs[j - n]
          BY <2>1, <4>2 DEF Grown
        <4>4. QED
          BY <1>2, <4>2, <4>3
      <3>2. QED
        BY <3>1
    <2> HIDE DEF path, n
    <2>6. \A c : AboutCall(entries', path, "replay", c) = AboutCall(entries, Branch, "replay", c)
      BY <2>3, <2>4, <2>5 DEF AboutCall
    <2>7. \A c : LastAnswer(entries', AboutCall(entries, Branch, "replay", c))
                 = LastAnswer(entries, AboutCall(entries, Branch, "replay", c))
      <3>1. ASSUME NEW c
            PROVE  LastAnswer(entries', AboutCall(entries, Branch, "replay", c))
                     = LastAnswer(entries, AboutCall(entries, Branch, "replay", c))
        <4> DEFINE found == AboutCall(entries, Branch, "replay", c)
        <4>1. found \in SUBSET (1..n) /\ \A j \in found : entries'[j] = entries[j]
          BY <2>2, <2>4 DEF AboutCall
        <4> HIDE DEF found
        <4>2. LastAnswer(entries', found) = LastAnswer(entries, found)
          BY <2>2, <4>1, LastAnswerSame
        <4>3. QED
          BY <4>2 DEF found
      <3>2. QED
        BY <3>1
    <2>8. Revisions(entries', leaf') = Revisions(entries, leaf)
      BY <2>6, <2>7 DEF Revisions, path, Branch
    <2>9. QED
      BY <2>3, <2>4, <2>6, <2>8 DEF path
  <1>3. QED
    BY <1>1, <1>2 DEF Aside

(* What is appended keeps the calls apart, and their answers below them. *)
LEMMA AsksGrow ==
  ASSUME TreeInv, AsksInv(entries), NEW l, NEW rs, Grows(l, rs),
         \A i \in 1..Len(rs) : rs[i].kind \in AskKinds => Len(rs) = 1,
         \A i \in 1..Len(rs) : rs[i].kind = "call" =>
           \A j \in 1..Len(entries) : ~CallAt(entries, j, rs[i].call),
         \A i \in 1..Len(rs) : rs[i].kind \in {"result", "replay"} =>
           \E j \in PathIn(entries, l) : CallAt(entries, j, rs[i].call),
         \A i \in 1..Len(rs) : rs[i].kind = "replay" =>
           AboutCall(entries, PathIn(entries, l), "replay", rs[i].call) = {}
  PROVE  AsksInv(entries')
  <1> DEFINE n == Len(entries)
  <1>1. Grown(entries', entries, l, rs) /\ ParentsFirst(entries) /\ n \in Nat /\ l \in 0..n
    BY GrowsGrown, TreeFacts DEF Grows
  <1>2. /\ Len(entries') = n + Len(rs) /\ Len(rs) \in 1..2
        /\ \A j \in 1..n : entries'[j] = entries[j]
        /\ \A i \in 1..Len(rs) : entries'[n + i].data = rs[i]
    BY <1>1 DEF Grown, Prolongs
  <1>3. /\ \A j \in 1..n : PathIn(entries', j) = PathIn(entries, j)
        /\ PathIn(entries', n + 1) = PathIn(entries, l) \cup {n + 1}
    BY <1>1, GrownPath
  <1>4. /\ \A j \in 1..n : PathIn(entries, j) \subseteq 1..n
        /\ PathIn(entries, l) \subseteq 1..n
    <2>1. ASSUME NEW j \in 0..n PROVE PathIn(entries, j) \subseteq 1..n
      <3>1. PathIn(entries, j) \subseteq 1..j /\ 1..j \subseteq 1..n
        BY <1>1, PathBelow
      <3>2. QED
        BY <3>1
    <2>2. QED
      BY <1>1, <2>1
  <1>5. \A j \in 1..n : \A c : CallAt(entries', j, c) <=> CallAt(entries, j, c)
    BY <1>2 DEF CallAt
  <1>6. ASSUME NEW j \in 1..Len(entries'), j \notin 1..n, entries'[j].data.kind \in AskKinds
        PROVE  j = n + 1 /\ entries'[j].data = rs[1] /\ 1 \in 1..Len(rs)
    <2>1. j - n \in 1..Len(rs) /\ n + (j - n) = j
      BY <1>1, <1>2, <1>6
    <2>2. entries'[j].data = rs[j - n]
      BY <1>2, <2>1
    <2>3. Len(rs) = 1
      BY <1>6, <2>1, <2>2
    <2>4. j - n = 1
      BY <2>1, <2>3
    <2>5. QED
      BY <1>1, <2>1, <2>2, <2>3, <2>4
  <1> HIDE DEF n
  <1>7. CalledOnce(entries')
    <2>1. ASSUME NEW c \in Calls, NEW i \in 1..Len(entries'), NEW j \in 1..Len(entries'),
                 CallAt(entries', i, c), CallAt(entries', j, c)
          PROVE  i = j
      <3>1. CASE i \in 1..n /\ j \in 1..n
        BY <1>5, <2>1, <3>1 DEF AsksInv, CalledOnce, n
      <3>2. CASE i \notin 1..n /\ j \notin 1..n
        BY <1>6, <2>1, <3>2 DEF CallAt, AskKinds
      <3>3. ASSUME NEW k \in 1..Len(entries'), k \notin 1..n, CallAt(entries', k, c),
                   NEW m \in 1..n, CallAt(entries', m, c)
            PROVE  FALSE
        <4>1. entries'[k].data = rs[1] /\ 1 \in 1..Len(rs)
          BY <1>6, <3>3 DEF CallAt, AskKinds
        <4>2. rs[1].kind = "call" /\ rs[1].call = c
          BY <3>3, <4>1 DEF CallAt
        <4>3. ~CallAt(entries, m, c)
          BY <4>1, <4>2 DEF n
        <4>4. QED
          BY <1>5, <3>3, <4>3
      <3>4. QED
        BY <2>1, <3>1, <3>2, <3>3
    <2>2. QED
      BY <2>1 DEF CalledOnce
  <1>8. AnsweredBelow(entries')
    <2>1. ASSUME NEW j \in 1..Len(entries'), entries'[j].data.kind \in {"result", "replay"}
          PROVE  \E i \in PathIn(entries', j) : CallAt(entries', i, entries'[j].data.call)
      <3>1. CASE j \in 1..n
        <4>1. \E i \in PathIn(entries, j) : CallAt(entries, i, entries[j].data.call)
          BY <1>2, <2>1, <3>1 DEF AsksInv, AnsweredBelow, n
        <4>2. QED
          BY <1>2, <1>3, <1>4, <1>5, <3>1, <4>1
      <3>2. CASE j \notin 1..n
        <4>1. j = n + 1 /\ entries'[j].data = rs[1] /\ 1 \in 1..Len(rs)
          BY <1>6, <2>1, <3>2 DEF AskKinds
        <4>2. \E i \in PathIn(entries, l) : CallAt(entries, i, rs[1].call)
          BY <2>1, <4>1
        <4>3. QED
          BY <1>3, <1>4, <1>5, <4>1, <4>2
      <3>3. QED
        BY <3>1, <3>2
    <2>2. QED
      BY <2>1 DEF AnsweredBelow
  <1>9. ReplayedOnce(entries')
    <2>1. ASSUME NEW j \in 1..Len(entries'), entries'[j].data.kind = "replay"
          PROVE  AboutCall(entries', PathIn(entries', j), "replay", entries'[j].data.call) = {j}
      <3>1. CASE j \in 1..n
        <4>1. AboutCall(entries, PathIn(entries, j), "replay", entries[j].data.call) = {j}
          BY <1>2, <2>1, <3>1 DEF AsksInv, ReplayedOnce, n
        <4>2. QED
          BY <1>2, <1>3, <1>4, <3>1, <4>1 DEF AboutCall
      <3>2. CASE j \notin 1..n
        <4>1. j = n + 1 /\ entries'[j].data = rs[1] /\ 1 \in 1..Len(rs)
          BY <1>6, <2>1, <3>2 DEF AskKinds
        <4>2. AboutCall(entries, PathIn(entries, l), "replay", rs[1].call) = {}
          BY <2>1, <4>1
        <4>3. PathIn(entries', j) = PathIn(entries, l) \cup {j}
          BY <1>3, <4>1
        <4>4. \A i \in PathIn(entries, l) : entries'[i] = entries[i]
          BY <1>2, <1>4
        <4>5. QED
          BY <2>1, <4>1, <4>2, <4>3, <4>4 DEF AboutCall
      <3>3. QED
        BY <3>1, <3>2
    <2>2. QED
      BY <2>1 DEF ReplayedOnce
  <1>10. QED
    BY <1>7, <1>8, <1>9 DEF AsksInv

LEMMA AsksAside ==
  ASSUME TreeInv, AsksInv(entries), Aside(AskKinds)
  PROVE  AsksInv(entries')
  <1>1. CASE UNCHANGED <<entries, leaf>>
    BY <1>1
  <1>2. ASSUME NEW rs, Grows(leaf, rs), \A i \in 1..Len(rs) : rs[i].kind \notin AskKinds
        PROVE  AsksInv(entries')
    BY <1>2, AsksGrow DEF AskKinds
  <1>3. QED
    BY <1>1, <1>2 DEF Aside

(* What /tree offers to answer again is a call of the branch that nobody   *)
(* answered again there.                                                   *)
LEMMA TargetOpen ==
  ASSUME NEW log \in Seq(Entry), ParentsFirst(log), AsksInv(log), NEW l \in 0..Len(log),
         ReplayTarget(log, l) # Nothing
  PROVE  LET c == ReplayTarget(log, l)
         IN  /\ c \in Calls
             /\ \E i \in PathIn(log, l) : CallAt(log, i, c)
             /\ AboutCall(log, PathIn(log, l), "replay", c) = {}
  <1> DEFINE kind(j) == IF j = 0 THEN "none" ELSE log[j].data.kind
             at == IF kind(l) = "summary" THEN log[l].parent ELSE l
             of == IF kind(at) = "result" THEN log[at].parent ELSE at
             c == log[of].data.call
  <1>1. kind(of) = "call" /\ ReplayTarget(log, l) = c
    BY DEF ReplayTarget
  <1>2. Len(log) \in Nat /\ \A j \in 1..Len(log) : log[j] \in Entry /\ log[j].parent \in 0..(j - 1)
    BY ElementOfSeq DEF ParentsFirst
  <1>3. at \in 0..Len(log) /\ (at = l \/ (l \in 1..Len(log) /\ log[l].data.kind = "summary" /\ at = log[l].parent))
    BY <1>2
  <1>4. of \in 0..Len(log) /\ (of = at \/ (at \in 1..Len(log) /\ log[at].data.kind = "result" /\ of = log[at].parent))
    BY <1>2, <1>3
  <1> HIDE DEF at, of
  <1>5. of \in 1..Len(log) /\ log[of].data.kind = "call"
    <2>1. of # 0 /\ log[of].data.kind = "call"
      BY <1>1
    <2>2. QED
      BY <1>2, <1>4, <2>1
  <1>6. c \in Calls
    BY <1>2, <1>5, DataFields DEF Entry
  <1>7. of \in PathIn(log, of)
    BY <1>5, PathStep
  <1>8. /\ PathIn(log, of) \subseteq PathIn(log, at)
        /\ \A j \in PathIn(log, at) : j \in PathIn(log, of) \/ log[j].data.kind = "result"
    BY <1>4, PathStep
  <1>9. /\ PathIn(log, of) \subseteq PathIn(log, l)
        /\ \A j \in PathIn(log, l) : j \in PathIn(log, of) \/ log[j].data.kind \in {"result", "summary"}
    BY <1>3, <1>8, PathStep
  <1>10. ASSUME NEW j \in PathIn(log, of), log[j].data.kind = "replay", log[j].data.call = c
         PROVE  FALSE
    <2>1. PathIn(log, of) \subseteq 1..of
      BY <1>5, PathBelow
    <2>2. j \in 1..Len(log) /\ j < of
      BY <1>2, <1>5, <1>10, <2>1
    <2>3. PICK i \in PathIn(log, j) : CallAt(log, i, c)
      BY <1>10, <2>2 DEF AsksInv, AnsweredBelow
    <2>4. PathIn(log, j) \subseteq 1..j
      BY <2>2, PathBelow
    <2>5. i \in 1..Len(log) /\ i < of
      BY <1>2, <1>5, <2>2, <2>3, <2>4
    <2>6. i = of
      BY <1>5, <1>6, <2>3, <2>5 DEF AsksInv, CalledOnce, CallAt
    <2>7. QED
      BY <1>5, <2>5, <2>6
  <1>11. AboutCall(log, PathIn(log, l), "replay", c) = {}
    BY <1>9, <1>10 DEF AboutCall
  <1>12. \E i \in PathIn(log, l) : CallAt(log, i, c)
    BY <1>5, <1>7, <1>9 DEF CallAt
  <1> HIDE DEF c
  <1>13. QED
    BY <1>1, <1>6, <1>11, <1>12

(* Without the extension there are none. *)
LEMMA AskAbsent ==
  ASSUME AskInv, "ask" \notin installed, TreeInv', NoneOf(AskKinds)', UNCHANGED <<askVars, installed>>
  PROVE  AskInv'
  <1>1. AskTypeOK' /\ NoAsk'
    BY DEF AskInv, AskTypeOK, NoAsk, askVars
  <1>2. \A j \in 1..Len(entries') : entries'[j].data.kind \notin AskKinds
    BY DEF NoneOf, Kind
  <1>3. AsksInv(entries')
    BY <1>2 DEF AsksInv, CalledOnce, AnsweredBelow, ReplayedOnce, CallAt, AskKinds
  <1>4. Revisions(entries', leaf') = Unrevised
    <2>1. ParentsFirst(entries') /\ leaf' \in 0..Len(entries')
      BY DEF TreeInv, TreeTypeOK, ParentsFirst
    <2>2. QED
      BY <1>2, <2>1, RevisionsNone DEF AskKinds
  <1>5. ReplayInv'
    BY <1>1, <1>4 DEF NoAsk, ReplayInv
  <1>6. QED
    BY <1>1, <1>3, <1>5 DEF AskInv

(* What the other extensions do leaves the answers alone. *)
LEMMA AskAside ==
  ASSUME TreeInv, AskInv, Aside(AskKinds), UNCHANGED <<askVars, installed, open, running>>
  PROVE  AskInv'
  <1>1. AsksInv(entries')
    BY AsksAside DEF AskInv
  <1>2. Aside({"replay"})
    BY DEF Aside, AskKinds
  <1>3. ReplayInv'
    BY <1>2, ReplaysKept DEF AskInv, ReplayInv, askVars, Branch, CallAt
  <1>4. AskTypeOK'
    BY DEF AskInv, AskTypeOK, askVars
  <1>5. NoAsk => NoAsk'
    BY AsideNone DEF NoAsk, askVars
  <1>6. QED
    BY <1>1, <1>3, <1>4, <1>5 DEF AskInv

(* While nothing is asked again, a run may begin or end. *)
LEMMA AskIdleAside ==
  ASSUME TreeInv, AskInv, Aside(AskKinds), UNCHANGED <<revised, installed, open>>,
         "ask" \in installed,
         \/ replay # "prompting" /\ UNCHANGED <<replay, target>> /\ (running' \/ running' = running)
         \/ replay' = "idle" /\ target' \in Calls \cup {Nothing}
  PROVE  AskInv'
  <1>1. AsksInv(entries')
    BY AsksAside DEF AskInv
  <1>2. Revisions(entries', leaf') = Revisions(entries, leaf)
    BY ReplaysKept DEF Aside, AskKinds
  <1>3. ReplayInv'
    BY <1>2 DEF AskInv, ReplayInv
  <1>4. AskTypeOK'
    BY DEF AskInv, AskTypeOK
  <1>5. QED
    BY <1>1, <1>3, <1>4 DEF AskInv

LEMMA NavigateAskInv ==
  ASSUME TreeInv, AskInv, TreeInv', "ask" \in installed,
         NEW l \in 0..Len(entries), NEW summarized \in BOOLEAN, Navigate(l, summarized)
  PROVE  AskInv'
  <1>1. NavigateAsk(entries', leaf') /\ open /\ UNCHANGED <<installed, open, running>> /\ ~running /\ replay = "idle"
    BY DEF Navigate, On, Idle, AskInv, ReplayInv, AskTypeOK
  <1>2. AsksInv(entries')
    <2>1. CASE Grows(l, <<[kind |-> "summary"]>>)
      <3> DEFINE rs == <<[kind |-> "summary"]>>
      <3>1. \A i \in 1..Len(rs) : rs[i].kind \notin AskKinds
        BY DEF AskKinds
      <3>2. Grows(l, rs)
        BY <2>1
      <3> HIDE DEF rs
      <3>3. QED
        BY <3>1, <3>2, AsksGrow DEF AskInv, AskKinds
    <2>2. CASE entries' = entries
      BY <2>2 DEF AskInv
    <2>3. QED
      BY <2>1, <2>2, NavigateShape
  <1>3. entries' \in Seq(Entry) /\ ParentsFirst(entries') /\ leaf' \in 0..Len(entries')
    BY DEF TreeInv, TreeTypeOK, ParentsFirst
  <1> DEFINE c == ReplayTarget(entries', leaf')
  <1>4. c # Nothing => /\ c \in Calls
                       /\ \E i \in PathIn(entries', leaf') : CallAt(entries', i, c)
                       /\ AboutCall(entries', PathIn(entries', leaf'), "replay", c) = {}
    BY <1>2, <1>3, TargetOpen
  <1>5. /\ revised' = Revisions(entries', leaf') /\ target' = c
        /\ replay' = IF c = Nothing THEN "idle" ELSE "prompting"
    BY <1>1 DEF NavigateAsk
  <1>6. revised' \in [Calls -> Answers \cup {Nothing}]
    BY <1>3, <1>5, RevisionsType
  <1> HIDE DEF c
  <1>7. AskTypeOK'
    BY <1>4, <1>5, <1>6 DEF AskTypeOK
  <1>8. ReplayInv'
    BY <1>1, <1>4, <1>5 DEF ReplayInv, Branch
  <1>9. QED
    BY <1>1, <1>2, <1>7, <1>8 DEF AskInv

LEMMA CallAskInv ==
  ASSUME TreeInv, AskInv, "ask" \in installed, NEW c \in Calls, CallAsk(c)
  PROVE  AskInv'
  <1> DEFINE rs == <<[kind |-> "call", call |-> c]>>
  <1>1. Grows(leaf, rs) /\ Len(rs) = 1 /\ rs[1].kind = "call" /\ rs[1].call = c
    BY CallAskGrows
  <1> HIDE DEF rs
  <1>2. \A i \in 1..Len(rs) : i = 1
    BY <1>1
  <1>3. \A j \in 1..Len(entries) : ~CallAt(entries, j, c)
    BY DEF CallAsk, CallAt
  <1>4. AsksInv(entries')
    BY <1>1, <1>2, <1>3, AsksGrow DEF AskInv
  <1>5. Aside({"replay"})
    BY <1>1, <1>2 DEF Aside
  <1>6. UNCHANGED <<installed, open, running, askVars>>
    BY DEF CallAsk
  <1>7. ReplayInv'
    BY <1>5, <1>6, ReplaysKept DEF AskInv, ReplayInv, askVars, Branch, CallAt
  <1>8. AskTypeOK'
    BY <1>6 DEF AskInv, AskTypeOK, askVars
  <1>9. QED
    BY <1>4, <1>6, <1>7, <1>8 DEF AskInv

LEMMA AnswerAskInv ==
  ASSUME TreeInv, AskInv, "ask" \in installed, NEW reply \in Answers \cup {Nothing}, AnswerAsk(reply)
  PROVE  AskInv'
  <1>1. PICK j \in Branch :
          /\ Kind(j) = "call"
          /\ Grows(leaf, <<[kind |-> "result", call |-> entries[j].data.call, answer |-> reply]>>)
    BY AnswerAskGrows
  <1> DEFINE c == entries[j].data.call
             rs == <<[kind |-> "result", call |-> c, answer |-> reply]>>
  <1>2. Grows(leaf, rs) /\ Len(rs) = 1 /\ rs[1].kind = "result" /\ rs[1].call = c
    BY <1>1
  <1>3. CallAt(entries, j, c) /\ j \in PathIn(entries, leaf)
    BY <1>1 DEF CallAt, Kind, Branch
  <1> HIDE DEF rs, c
  <1>4. \A i \in 1..Len(rs) : i = 1
    BY <1>2
  <1>5. AsksInv(entries')
    BY <1>2, <1>3, <1>4, AsksGrow DEF AskInv
  <1>6. Aside({"replay"})
    BY <1>2, <1>4 DEF Aside
  <1>7. UNCHANGED <<installed, open, running, askVars>>
    BY DEF AnswerAsk
  <1>8. ReplayInv'
    BY <1>6, <1>7, ReplaysKept DEF AskInv, ReplayInv, askVars, Branch, CallAt
  <1>9. AskTypeOK'
    BY <1>7 DEF AskInv, AskTypeOK, askVars
  <1>10. QED
    BY <1>5, <1>7, <1>8, <1>9 DEF AskInv

LEMMA AnswerReplayInv ==
  ASSUME TreeInv, AskInv, "ask" \in installed, NEW reply \in Answers, AnswerReplay(reply)
  PROVE  AskInv'
  <1> DEFINE rs == <<[kind |-> "replay", call |-> target, answer |-> reply]>>
             n == Len(entries)
             path == PathIn(entries', leaf')
  <1>1. /\ Grows(leaf, rs) /\ Len(rs) = 1 /\ rs[1].kind = "replay" /\ rs[1].call = target
        /\ rs[1].answer = reply
    BY AnswerReplayGrows DEF AskInv
  <1> HIDE DEF rs
  <1>2. /\ open /\ target \in Calls
        /\ \E i \in PathIn(entries, leaf) : CallAt(entries, i, target)
        /\ AboutCall(entries, PathIn(entries, leaf), "replay", target) = {}
        /\ revised = Revisions(entries, leaf)
    BY DEF AskInv, ReplayInv, AnswerReplay, Branch
  <1>3. \A i \in 1..Len(rs) : i = 1
    BY <1>1
  <1>4. AsksInv(entries')
    BY <1>1, <1>2, <1>3, AsksGrow DEF AskInv
  <1>5. /\ running' = TRUE /\ revised' = [revised EXCEPT ![target] = reply]
        /\ replay' = "dispatched" /\ UNCHANGED <<installed, open, target>>
    BY DEF AnswerReplay
  <1>6. AskTypeOK'
    BY <1>2, <1>5 DEF AskInv, AskTypeOK
  <1>7. /\ Grown(entries', entries, leaf, rs) /\ leaf' = Len(entries')
        /\ ParentsFirst(entries) /\ n \in Nat /\ Branch \subseteq 1..n
    BY <1>1, GrowsGrown, TreeFacts
  <1>8. /\ Len(entries') = n + 1 /\ entries'[n + 1].data = rs[1]
        /\ \A j \in Branch : entries'[j] = entries[j]
    BY <1>1, <1>7 DEF Grown, Prolongs
  <1>9. path = Branch \cup {n + 1}
    BY <1>7, <1>8, GrownPath DEF Branch
  <1> HIDE DEF path, n
  <1>10. ASSUME NEW c \in Calls
         PROVE  LastAnswer(entries', AboutCall(entries', path, "replay", c)) = revised'[c]
    <2>1. revised[c] = LastAnswer(entries, AboutCall(entries, Branch, "replay", c))
      BY <1>2 DEF Revisions, Branch
    <2>2. CASE c = target
      <3>1. AboutCall(entries', path, "replay", c) = {n + 1}
        BY <1>1, <1>2, <1>8, <1>9, <2>2 DEF AboutCall, Branch
      <3>2. n + 1 \in Nat
        BY <1>7
      <3> DEFINE j == n + 1
                 found == {j}
      <3>3. found \in SUBSET Nat /\ j \in found /\ \A i \in found : i <= j
        BY <3>2
      <3> HIDE DEF found, j
      <3>4. LastAnswer(entries', found) = entries'[j].data.answer
        BY <3>3, LastAnswerIs
      <3>5. LastAnswer(entries', {n + 1}) = reply
        BY <1>1, <1>8, <3>4 DEF found, j
      <3>6. revised'[c] = reply
        BY <1>5, <2>2 DEF AskInv, AskTypeOK
      <3>7. QED
        BY <3>1, <3>5, <3>6
    <2>3. CASE c # target
      <3> DEFINE found == AboutCall(entries, Branch, "replay", c)
      <3>1. AboutCall(entries', path, "replay", c) = found
        BY <1>1, <1>8, <1>9, <2>3 DEF AboutCall
      <3>2. found \in SUBSET (1..n) /\ \A j \in found : entries'[j] = entries[j]
        BY <1>7, <1>8 DEF AboutCall
      <3> HIDE DEF found
      <3>3. LastAnswer(entries', found) = LastAnswer(entries, found)
        BY <1>7, <3>2, LastAnswerSame
      <3>4. revised'[c] = revised[c]
        BY <1>5, <2>3 DEF AskInv, AskTypeOK
      <3>5. QED
        BY <2>1, <3>1, <3>3, <3>4 DEF found
    <2>4. QED
      BY <2>2, <2>3
  <1>11. revised' = Revisions(entries', leaf')
    <2>1. revised' = [c \in Calls |-> revised'[c]]
      BY <1>6 DEF AskTypeOK
    <2>2. QED
      BY <1>10, <2>1 DEF Revisions, path
  <1>12. ReplayInv'
    BY <1>5, <1>11 DEF ReplayInv
  <1>13. QED
    BY <1>4, <1>5, <1>6, <1>12 DEF AskInv

(* Every step of the session keeps what the user answered. *)
LEMMA AskPreserved ==
  ASSUME SessionInv, Next
  PROVE  AskInv'
  <1> USE DEF SessionInv
  <1>1. /\ TreeInv /\ AskInv /\ PersonaTypeOK /\ TodoTypeOK /\ ReplayInv /\ TreeInv'
        /\ ("ask" \notin installed => NoneOf(AskKinds))
        /\ target \in Calls \cup {Nothing} /\ replay \in {"idle", "prompting", "dispatched"}
    BY TreeStep DEF TodoInv, PersonaInv, AskInv, NoAsk, AskTypeOK
  <1>2. inTurn \in BOOLEAN /\ (inTurn => running) /\ (running => open)
    BY DEF TreeInv, TreeTypeOK
  <1>3. ASSUME NEW l \in 0..Len(entries), Start(l) PROVE AskInv'
    <2>1. entries' = entries /\ leaf' = l /\ UNCHANGED <<installed, running>> /\ ~open
      BY <1>3 DEF Start
    <2>2. CASE "ask" \in installed
      <3>1. revised' = Revisions(entries', leaf') /\ UNCHANGED <<replay, target>>
        BY <1>3, <2>1, <2>2 DEF Start, On, RestoreAsk
      <3>2. replay = "idle"
        BY <1>1, <1>2, <2>1 DEF ReplayInv
      <3>3. revised' \in [Calls -> Answers \cup {Nothing}]
        <4>1. entries' \in Seq(Entry) /\ ParentsFirst(entries') /\ leaf' \in 0..Len(entries')
          BY <1>1 DEF TreeInv, TreeTypeOK, ParentsFirst
        <4>2. QED
          BY <3>1, <4>1, RevisionsType
      <3>4. AskTypeOK'
        BY <1>1, <3>1, <3>3 DEF AskTypeOK
      <3>5. ReplayInv'
        BY <3>1, <3>2 DEF ReplayInv
      <3>6. QED
        BY <1>1, <2>1, <2>2, <3>4, <3>5 DEF AskInv
    <2>3. CASE "ask" \notin installed
      <3>1. NoneOf(AskKinds)'
        BY <1>1, <2>1, <2>3 DEF NoneOf, Kind
      <3>2. QED
        BY <1>1, <1>3, <2>1, <2>3, <3>1, AskAbsent DEF Start, On
    <2>4. QED
      BY <2>2, <2>3
  <1>4. ASSUME NEW l \in 0..Len(entries), NEW summarized \in BOOLEAN, Navigate(l, summarized)
        PROVE  AskInv'
    <2>1. CASE "ask" \in installed
      BY <1>1, <1>4, <2>1, NavigateAskInv
    <2>2. CASE "ask" \notin installed
      <3>1. NoneOf(AskKinds)'
        <4>1. CASE Grows(l, <<[kind |-> "summary"]>>)
          BY <1>1, <2>2, <4>1, GrowsNone DEF AskKinds
        <4>2. CASE entries' = entries
          BY <1>1, <2>2, <4>2 DEF NoneOf, Kind
        <4>3. QED
          BY <1>1, <1>4, <4>1, <4>2, NavigateShape
      <3>2. UNCHANGED <<askVars, installed>>
        BY <1>4, <2>2 DEF Navigate, On
      <3>3. QED
        BY <1>1, <2>2, <3>1, <3>2, AskAbsent
    <2>3. QED
      BY <2>1, <2>2
  <1>5. CASE Close
    <2>1. open' = FALSE /\ running' = FALSE /\ UNCHANGED <<installed, entries, leaf>>
      BY <1>5 DEF Close
    <2>2. CASE "ask" \in installed
      <3>1. revised' = Unrevised /\ replay' = "idle" /\ target' = Nothing
        BY <1>5, <2>2 DEF Close, On, CloseAsk
      <3>2. AskTypeOK'
        BY <3>1 DEF AskTypeOK, Unrevised
      <3>3. ReplayInv'
        BY <2>1, <3>1 DEF ReplayInv
      <3>4. QED
        BY <1>1, <2>1, <2>2, <3>2, <3>3 DEF AskInv
    <2>3. CASE "ask" \notin installed
      <3>1. NoneOf(AskKinds)'
        BY <1>1, <2>1, <2>3 DEF NoneOf, Kind
      <3>2. UNCHANGED askVars
        BY <1>5, <2>3 DEF Close, On
      <3>3. QED
        BY <1>1, <2>1, <2>3, <3>1, <3>2, AskAbsent
    <2>4. QED
      BY <2>2, <2>3
  <1>6. CASE Prompt
    <2>1. Aside(AskKinds)
      BY <1>1, <1>6, PromptAside
    <2>2. UNCHANGED <<askVars, installed, open>> /\ running' = TRUE /\ replay # "prompting"
      BY <1>6 DEF Prompt, Idle
    <2>3. CASE "ask" \in installed
      BY <1>1, <2>1, <2>2, <2>3, AskIdleAside DEF askVars
    <2>4. CASE "ask" \notin installed
      BY <1>1, <2>1, <2>2, <2>4, AsideNone, AskAbsent
    <2>5. QED
      BY <2>3, <2>4
  <1>7. CASE BeginTurn \/ EndTurn
    BY <1>1, <1>7, AskAside DEF BeginTurn, EndTurn, Aside
  <1>8. CASE EndRun
    <2>1. /\ UNCHANGED <<installed, entries, leaf, open>> /\ running /\ running' = FALSE
          /\ Aside(AskKinds)
      BY <1>8 DEF EndRun, Aside
    <2>2. CASE "ask" \in installed
      <3>1. SettleAsk /\ replay # "prompting"
        BY <1>1, <1>8, <2>1, <2>2 DEF EndRun, On, ReplayInv
      <3>2. replay' = "idle" /\ target' \in Calls \cup {Nothing} /\ revised' = revised
        BY <1>1, <3>1 DEF SettleAsk
      <3>3. QED
        BY <1>1, <2>1, <2>2, <3>2, AskIdleAside
    <2>3. CASE "ask" \notin installed
      <3>1. UNCHANGED askVars
        BY <1>8, <2>3 DEF EndRun, On
      <3>2. QED
        BY <1>1, <2>1, <2>3, <3>1, AsideNone, AskAbsent
    <2>4. QED
      BY <2>2, <2>3
  <1>9. ASSUME NEW cut \in ContextIn(entries, Branch), Compact(cut) PROVE AskInv'
    <2>1. Aside(AskKinds)
      BY <1>1, <1>9, CompactAside
    <2>2. UNCHANGED <<askVars, installed, open, running>>
      BY <1>9 DEF Compact
    <2>3. QED
      BY <1>1, <2>1, <2>2, AskAside
  <1>10. CASE TodoStep
    <2>1. UNCHANGED <<askVars, installed, open, running>>
      BY <1>10 DEF TodoStep, CallTodo, ClearWidget, treeVars
    <2>2. QED
      BY <1>1, <1>10, <2>1, TodoStepAside, AskAside
  <1>11. CASE PersonaStep
    <2>1. UNCHANGED <<askVars, installed, open, running>>
      BY <1>11 DEF PersonaStep, Select, CallPersona, DeliverMessage
    <2>2. QED
      BY <1>1, <1>11, <2>1, PersonaStepAside, AskAside
  <1>12. CASE AskStep
    <2>1. "ask" \in installed
      BY <1>12 DEF AskStep
    <2>2. CASE EscapeReplay
      <3>1. Aside(AskKinds)
        BY <2>2 DEF EscapeReplay, treeVars, Aside
      <3>2. QED
        BY <1>1, <2>1, <2>2, <3>1, AskIdleAside DEF EscapeReplay, treeVars
    <2>3. QED
      BY <1>1, <1>12, <2>1, <2>2, CallAskInv, AnswerAskInv DEF AskStep
  <1>13. CASE ReplayStep
    BY <1>1, <1>13, AnswerReplayInv DEF ReplayStep
  <1>14. QED
    BY <1>3, <1>4, <1>5, <1>6, <1>7, <1>8, <1>9, <1>10, <1>11, <1>12, <1>13 DEF Next

-----------------------------------------------------------------------------
(* What the extensions keep and show is what the branch says. *)
LEMMA SessionInvInit == Init => SessionInv
  <1> SUFFICES ASSUME Init PROVE SessionInv
    OBVIOUS
  <1> USE DEF Init
  <1>1. entries = <<>> /\ Len(entries) = 0 /\ leaf = 0 /\ open = FALSE /\ running = FALSE /\ inTurn = FALSE
    BY DEF TreeInit
  <1>2. TreeInv
    <2>1. installed \in Installations /\ MaxEntries[installed] \in Nat
      BY SessionAssumption DEF TreeInit
    <2>2. TreeTypeOK
      <3>1. Len(entries) <= MaxEntries[installed] /\ leaf \in 0..Len(entries) /\ 1..Len(entries) = {}
        BY <1>1, <2>1
      <3>2. open \in BOOLEAN /\ running \in BOOLEAN /\ inTurn \in BOOLEAN
        BY <1>1
      <3>3. QED
        BY <1>1, <2>1, <3>1, <3>2 DEF TreeTypeOK
    <2>3. entries \in Seq(Entry)
      BY <1>1, EmptySeq
    <2>4. QED
      BY <1>1, <2>2, <2>3 DEF TreeInv, CutsBelow
  <1>3. TodoInv
    <2>1. plan \in Plans /\ compacted = Nothing /\ widget \in {"none", "open", "final"}
      BY DEF TodoInit, EmptyPlan, Plans, Statuses
    <2>2. turns \in 0..MaxTurns /\ reminders \in 0..MaxPerRun /\ unseen \in 0..MaxTurns
      BY CadenceAssumption DEF TodoInit
    <2>3. TodoTypeOK
      BY <2>1, <2>2 DEF TodoInit, TodoTypeOK
    <2>4. QED
      BY <1>1, <2>3 DEF TodoInv, TodoInit, PlanFollowsBranch, WidgetFollowsPlan, CadenceInv, NoTodo, NoneOf
  <1>4. PersonaInv
    <2>1. unsent \in Seq(Named)
      BY EmptySeq DEF PersonaInit
    <2>2. PersonaTypeOK
      BY <2>1 DEF PersonaInit, PersonaTypeOK, Named
    <2>3. QED
      BY <1>1, <2>2 DEF PersonaInv, PersonaInit, SelectionSurvives, NoPersona, NoneOf
  <1>5. AskInv
    <2>1. AskTypeOK
      BY DEF AskInit, AskTypeOK, Unrevised
    <2>2. AsksInv(entries)
      BY <1>1 DEF AsksInv, CalledOnce, AnsweredBelow, ReplayedOnce
    <2>3. QED
      BY <1>1, <2>1, <2>2 DEF AskInv, AskInit, ReplayInv, NoAsk, NoneOf
  <1>6. QED
    BY <1>2, <1>3, <1>4, <1>5 DEF SessionInv

LEMMA SessionInvStep == SessionInv /\ [Next]_vars => SessionInv'
  <1> SUFFICES ASSUME SessionInv, [Next]_vars PROVE SessionInv'
    OBVIOUS
  <1>1. CASE Next
    BY <1>1, TreeStep, TodoPreserved, PersonaPreserved, AskPreserved DEF SessionInv
  <1>2. CASE UNCHANGED vars
    <2> USE <1>2 DEF vars, treeVars, todoVars, cadenceVars, widgetVars, personaVars, askVars
    <2>1. TreeInv'
      BY DEF SessionInv, TreeInv, TreeTypeOK, CutsBelow, Kind
    <2>2. TodoInv'
      BY DEF SessionInv, TodoInv, TodoTypeOK, PlanFollowsBranch, WidgetFollowsPlan, CadenceInv, NoTodo,
             NoneOf, Kind
    <2>3. PersonaInv'
      BY DEF SessionInv, PersonaInv, PersonaTypeOK, SelectionSurvives, Kept, NoPersona, NoneOf, Kind
    <2>4. AskInv'
      BY DEF SessionInv, AskInv, AskTypeOK, ReplayInv, NoAsk, NoneOf, Kind, Branch
    <2>5. QED
      BY <2>1, <2>2, <2>3, <2>4 DEF SessionInv
  <1>3. QED
    BY <1>1, <1>2

(* SessionInv holds in every reachable state of a session, whichever of    *)
(* the extensions it has (todo, persona, ask: their event handlers).       *)
THEOREM SessionInvariance == Spec => []SessionInv
  BY SessionInvInit, SessionInvStep, PTL DEF Spec

(* The state of a session and of each extension has its type. *)
THEOREM SessionTypeCorrect == Spec => []TypeOK
  <1>1. SessionInv => TypeOK
    BY DEF SessionInv, TreeInv, TodoInv, PersonaInv, AskInv, TypeOK
  <1>2. QED
    BY <1>1, SessionInvariance, PTL

(* What a compaction cuts off the context is below what it keeps. *)
LEMMA ContextOfCall ==
  ASSUME TreeInv, AskInv, NEW c \in Calls,
         AboutCall(entries, ContextIn(entries, Branch), "call", c) # {}, NEW k \in {"result", "replay"}
  PROVE  AboutCall(entries, ContextIn(entries, Branch), k, c) = AboutCall(entries, Branch, k, c)
  <1> DEFINE last == LastOf(entries, Branch, "compaction")
             context == ContextIn(entries, Branch)
  <1>1. /\ ParentsFirst(entries) /\ Len(entries) \in Nat /\ leaf \in 0..Len(entries)
        /\ Branch \in SUBSET (1..Len(entries))
    BY TreeFacts
  <1>2. CASE last = 0
    BY <1>2 DEF ContextIn
  <1>3. CASE last # 0
    <2> DEFINE cut == entries[last].data.cut
    <2>1. last \in Branch /\ Kind(last) = "compaction"
      <3>1. ~(\A j \in Branch : entries[j].data.kind # "compaction")
        BY <1>3, LastOfNone
      <3>2. QED
        BY <1>1, <3>1, LastOfSome DEF Kind
    <2>2. cut \in Nat
      <3>1. last \in 1..Len(entries) /\ cut \in 1..(last - 1)
        BY <1>1, <2>1 DEF TreeInv, CutsBelow
      <3>2. QED
        BY <3>1
    <2>3. context = {j \in Branch : j >= cut /\ j # last}
      BY <1>3 DEF ContextIn
    <2>4. PICK call \in context : CallAt(entries, call, c)
      BY DEF AboutCall, CallAt
    <2> HIDE DEF cut, last, context
    <2>5. call \in Branch /\ call >= cut /\ call \in 1..Len(entries)
      BY <1>1, <2>3, <2>4
    <2>6. ASSUME NEW j \in Branch, entries[j].data.kind = k, entries[j].data.call = c PROVE j \in context
      <3>1. j \in 1..Len(entries) /\ j # last
        BY <1>1, <2>1, <2>6 DEF Kind
      <3>2. PICK i \in PathIn(entries, j) : CallAt(entries, i, c)
        BY <2>6, <3>1 DEF AskInv, AsksInv, AnsweredBelow
      <3>3. PathIn(entries, j) \subseteq 1..j
        BY <1>1, <3>1, PathBelow
      <3>4. i \in 1..Len(entries) /\ i <= j
        BY <1>1, <3>1, <3>2, <3>3
      <3>5. i = call
        BY <2>4, <2>5, <3>2, <3>4 DEF AskInv, AsksInv, CalledOnce
      <3>6. j >= cut
        BY <2>2, <2>5, <3>1, <3>4, <3>5
      <3>7. QED
        BY <2>3, <2>6, <3>1, <3>6
    <2>7. context \subseteq Branch
      BY <2>3
    <2>8. AboutCall(entries, context, k, c) = AboutCall(entries, Branch, k, c)
      BY <2>6, <2>7 DEF AboutCall
    <2>9. QED
      BY <2>8 DEF context
  <1>4. QED
    BY <1>2, <1>3

(* On a branch a call has one replay, with the answer that is shown. *)
LEMMA ReplayOfBranch ==
  ASSUME TreeInv, AskInv, NEW c \in Calls, NEW j \in AboutCall(entries, Branch, "replay", c)
  PROVE  AboutCall(entries, Branch, "replay", c) = {j} /\ entries[j].data.answer \in Answers
  <1>1. /\ ParentsFirst(entries) /\ Len(entries) \in Nat /\ leaf \in 0..Len(entries)
        /\ Branch \subseteq 1..Len(entries) /\ \A i \in 1..Len(entries) : entries[i].data \in Data
    BY TreeFacts
  <1>2. \A i \in AboutCall(entries, Branch, "replay", c) :
          i \in Branch /\ i \in 1..Len(entries) /\ entries[i].data.kind = "replay" /\ entries[i].data.call = c
    BY <1>1 DEF AboutCall
  <1>3. ASSUME NEW i \in AboutCall(entries, Branch, "replay", c),
               NEW m \in AboutCall(entries, Branch, "replay", c), i <= m
        PROVE  i = m
    <2>1. i \in PathIn(entries, m)
      <3>1. i \in PathIn(entries, leaf) /\ m \in PathIn(entries, leaf)
        BY <1>2 DEF Branch
      <3>2. QED
        BY <1>1, <1>3, <3>1, PathOnPath
    <2>2. AboutCall(entries, PathIn(entries, m), "replay", c) = {m}
      BY <1>2 DEF AskInv, AsksInv, ReplayedOnce
    <2>3. i \in AboutCall(entries, PathIn(entries, m), "replay", c)
      BY <1>2, <2>1 DEF AboutCall
    <2>4. QED
      BY <2>2, <2>3
  <1>4. \A i \in AboutCall(entries, Branch, "replay", c) : i = j
    <2>1. ASSUME NEW i \in AboutCall(entries, Branch, "replay", c) PROVE i = j
      <3>1. i \in Nat /\ j \in Nat
        BY <1>1, <1>2
      <3>2. i <= j \/ j <= i
        BY <3>1
      <3>3. QED
        BY <1>3, <3>2
    <2>2. QED
      BY <2>1
  <1>5. entries[j].data.answer \in Answers
    BY <1>1, <1>2, DataFields
  <1>6. QED
    BY <1>4, <1>5

LEMMA AnswersAgreeHolds ==
  ASSUME SessionInv
  PROVE  AnswersAgree
  <1> USE DEF SessionInv
  <1>1. ASSUME open, NEW c \in Calls,
               AboutCall(entries, ContextIn(entries, Branch), "call", c) # {}
        PROVE  /\ Cardinality(AboutCall(entries, ContextIn(entries, Branch), "replay", c)) <= 1
               /\ Shown(c) = Rewritten(c)
    <2> DEFINE context == ContextIn(entries, Branch)
               again == AboutCall(entries, Branch, "replay", c)
    <2>1. /\ AboutCall(entries, context, "replay", c) = again
          /\ AboutCall(entries, context, "result", c) = AboutCall(entries, Branch, "result", c)
      BY <1>1, ContextOfCall
    <2>2. revised[c] = LastAnswer(entries, again)
      BY <1>1 DEF AskInv, ReplayInv, Revisions, Branch
    <2> HIDE DEF context, again
    <2>3. CASE again = {}
      <3>1. revised[c] = Nothing
        BY <2>2, <2>3 DEF LastAnswer
      <3>2. Shown(c) = Rewritten(c)
        BY <2>1, <2>3, <3>1 DEF Shown, Rewritten, context
      <3>3. Cardinality(again) = 0
        BY <2>3, FS_EmptySet
      <3>4. QED
        BY <2>1, <3>2, <3>3 DEF context
    <2>4. CASE again # {}
      <3>1. PICK j \in again : TRUE
        BY <2>4
      <3>2. again = {j} /\ entries[j].data.answer \in Answers
        BY <1>1, <3>1, ReplayOfBranch DEF again
      <3>3. j \in Nat
        BY <3>1, TreeFacts DEF again, AboutCall
      <3>4. LastAnswer(entries, again) = entries[j].data.answer
        BY <3>1, <3>2, <3>3, LastAnswerIs
      <3>5. revised[c] # Nothing
        BY <2>2, <3>2, <3>4, AnswersAssumption
      <3>6. Shown(c) = Rewritten(c)
        BY <2>1, <2>2, <2>4, <3>5 DEF Shown, Rewritten, context
      <3>7. Cardinality(again) = 1
        BY <3>2, FS_Singleton
      <3>8. QED
        BY <2>1, <3>6, <3>7 DEF context
    <2>5. QED
      BY <2>3, <2>4
  <1>2. QED
    BY <1>1 DEF AnswersAgree

(* The plan and its widget and the answers to the asks are those of the    *)
(* branch, whatever is resumed, forked, selected in /tree, compacted or    *)
(* answered again (the session event handlers of todo, persona and ask).   *)
(* The persona is, unless a jump in /tree led to a branch that stores      *)
(* another one since it was chosen, restored or compacted.                 *)
THEOREM BranchIsTrue == Spec => []BranchIsTruth
  <1>1. SessionInv => BranchIsTruth
    BY AnswersAgreeHolds DEF SessionInv, TodoInv, PersonaInv, BranchIsTruth
  <1>2. QED
    BY <1>1, SessionInvariance, PTL

-----------------------------------------------------------------------------
(* What a step does. *)

(* A reminder comes only MinTurns after the model last saw the plan (the   *)
(* context event, consumeDueReminder()).                                   *)
THEOREM RemindersAreSpaced == Spec => RemindersSpaced
  <1>1. ASSUME SessionInv, [Next]_vars, reminders' > reminders PROVE unseen >= MinTurns
    <2> USE <1>1 DEF SessionInv
    <2>0. reminders \in Nat /\ reminders' # reminders /\ reminders' # 0
      BY <1>1, TodoTypes
    <2>1. CASE BeginTurn
      <3>1. "todo" \in installed /\ ContextTodo /\ open
        BY <2>0, <2>1 DEF BeginTurn, On, todoVars, cadenceVars, TreeInv, TreeTypeOK
      <3>2. compacted = Nothing /\ Due
        BY <2>0, <3>1 DEF ContextTodo
      <3>3. ~interacted /\ turns <= unseen
        BY <2>1, <3>1 DEF BeginTurn, TodoInv, CadenceInv
      <3>4. QED
        BY <3>2, <3>3, TodoTypes DEF Due
    <2>2. CASE \E l \in 0..Len(entries) : Start(l) \/ \E summarized \in BOOLEAN : Navigate(l, summarized)
      BY <2>0, <2>2 DEF Start, Navigate, On, RestoreTodo, todoVars, cadenceVars
    <2>3. CASE Close \/ Prompt \/ EndTurn \/ EndRun
      BY <2>0, <2>3 DEF Close, Prompt, EndTurn, EndRun, On, CloseTodo, BeginRunTodo, EndTurnTodo, SettleTodo,
                        todoVars, cadenceVars
    <2>4. CASE \E cut \in ContextIn(entries, Branch) : Compact(cut)
      BY <2>0, <2>4 DEF Compact, On, CompactTodo, todoVars, cadenceVars
    <2>5. CASE TodoStep
      BY <2>0, <2>5 DEF TodoStep, CallTodo, ClearWidget, cadenceVars
    <2>6. CASE PersonaStep \/ AskStep
      BY <2>0, <2>6 DEF PersonaStep, AskStep, todoVars, cadenceVars
    <2>7. CASE ReplayStep
      BY <2>0, <2>7 DEF ReplayStep, On, SettleTodo, todoVars, cadenceVars
    <2>8. CASE UNCHANGED vars
      BY <2>0, <2>8 DEF vars, todoVars, cadenceVars
    <2>9. QED
      BY <2>1, <2>2, <2>3, <2>4, <2>5, <2>6, <2>7, <2>8 DEF Next
  <1>2. SessionInv /\ [Next]_vars => [reminders' > reminders => unseen >= MinTurns]_todoVars
    BY <1>1
  <1>3. QED
    BY <1>2, SessionInvariance, PTL DEF Spec, RemindersSpaced

(* What is appended is in the context. *)
LEMMA ContextGrows ==
  ASSUME TreeInv, NEW rs, Grows(leaf, rs), \A i \in 1..Len(rs) : rs[i].kind # "compaction"
  PROVE  /\ ContextIn(entries', PathIn(entries', leaf'))
               = ContextIn(entries, Branch) \cup ((Len(entries) + 1)..Len(entries'))
         /\ ContextIn(entries, Branch) \subseteq 1..Len(entries)
  <1> DEFINE n == Len(entries)
             last == LastOf(entries, Branch, "compaction")
             path == PathIn(entries', leaf')
  <1>1. /\ ParentsFirst(entries) /\ n \in Nat /\ Branch \in SUBSET (1..n)
        /\ Grown(entries', entries, leaf, rs) /\ leaf' = Len(entries')
    BY TreeFacts, GrowsGrown
  <1>2. path = Branch \cup ((n + 1)..Len(entries'))
    BY <1>1, GrownPath DEF Branch
  <1>3. LastOf(entries', path, "compaction") = last
    BY <1>1, GrownLast DEF Branch
  <1>4. ContextIn(entries, Branch) \subseteq 1..n
    BY <1>1 DEF ContextIn
  <1>5. CASE last = 0
    BY <1>2, <1>3, <1>4, <1>5 DEF ContextIn
  <1>6. CASE last # 0
    <2> DEFINE cut == entries[last].data.cut
    <2>1. last \in Branch /\ Kind(last) = "compaction"
      <3>1. ~(\A j \in Branch : entries[j].data.kind # "compaction")
        BY <1>6, LastOfNone
      <3>2. QED
        BY <1>1, <3>1, LastOfSome DEF Kind
    <2>2. last \in 1..n /\ cut \in 1..(last - 1)
      BY <1>1, <2>1 DEF TreeInv, CutsBelow
    <2>3. entries'[last] = entries[last]
      BY <1>1, <2>2 DEF Grown, Prolongs
    <2>4. /\ ContextIn(entries, Branch) = {j \in Branch : j >= cut /\ j # last}
          /\ ContextIn(entries', path) = {j \in path : j >= cut /\ j # last}
      BY <1>3, <1>6, <2>3 DEF ContextIn
    <2> HIDE DEF cut, last, path
    <2>5. \A j \in (n + 1)..Len(entries') : j >= cut /\ j # last
      BY <1>1, <2>2
    <2>6. ContextIn(entries', path) = ContextIn(entries, Branch) \cup ((n + 1)..Len(entries'))
      BY <1>2, <2>4, <2>5
    <2>7. QED
      BY <1>4, <2>6 DEF path
  <1>7. QED
    BY <1>5, <1>6

LEMMA PromptTold ==
  ASSUME SessionInv, Prompt
  PROVE  ToldLast(entries', PathIn(entries', leaf'), baseline) = active
  <1> USE DEF SessionInv
  <1> DEFINE n == Len(entries)
             context == ContextIn(entries, Branch)
             after == ContextIn(entries', PathIn(entries', leaf'))
  <1>1. PICK rs :
          /\ Grows(leaf, rs) /\ rs[Len(rs)] = [kind |-> "message"]
          /\ \/ Len(rs) = 1 /\ ("persona" \in installed => CommunicatedName = active)
             \/ Len(rs) = 2 /\ rs[1] = [kind |-> "told", name |-> active]
    BY PromptGrows DEF PersonaInv
  <1>2. n \in Nat /\ Grown(entries', entries, leaf, rs)
    BY <1>1, TreeFacts, GrowsGrown
  <1>3. /\ Len(entries') = n + Len(rs) /\ \A j \in 1..n : entries'[j] = entries[j]
        /\ \A i \in 1..Len(rs) : entries'[n + i].data = rs[i]
    BY <1>2 DEF Grown, Prolongs
  <1>4. \A i \in 1..Len(rs) : rs[i].kind # "compaction"
    <2>1. CASE Len(rs) = 1
      BY <1>1, <2>1
    <2>2. CASE Len(rs) = 2 /\ rs[1] = [kind |-> "told", name |-> active]
      <3>1. \A i \in 1..Len(rs) : i = 1 \/ i = 2
        BY <2>2
      <3>2. QED
        BY <1>1, <2>2, <3>1
    <2>3. QED
      BY <1>1, <2>1, <2>2
  <1>5. after = context \cup ((n + 1)..Len(entries')) /\ context \subseteq 1..n
    BY <1>1, <1>4, ContextGrows
  <1> HIDE DEF context, after
  <1>6. CASE Len(rs) = 1 /\ ("persona" \in installed => CommunicatedName = active)
    <2>1. (n + 1)..Len(entries') = {n + 1} /\ entries'[n + 1].data.kind = "message"
      BY <1>1, <1>2, <1>3, <1>6
    <2>2. {j \in context : entries[j].data.kind = "told"} = {j \in after : entries'[j].data.kind = "told"}
      BY <1>3, <1>5, <2>1
    <2>3. LastOf(entries', after, "told") = LastOf(entries, context, "told")
      BY <2>2, LastOfSame
    <2>4. LastOf(entries, context, "told") = 0 \/ LastOf(entries, context, "told") \in 1..n
      <3>1. CASE \A j \in context : entries[j].data.kind # "told"
        BY <3>1, LastOfNone
      <3>2. CASE \E j \in context : entries[j].data.kind = "told"
        BY <1>2, <1>5, <3>2, LastOfSome
      <3>3. QED
        BY <3>1, <3>2
    <2>5. CASE "persona" \in installed
      <3>1. CommunicatedName = active
        BY <1>6, <2>5
      <3>2. QED
        BY <1>3, <2>3, <2>4, <3>1 DEF ToldLast, CommunicatedName, context, after
    <2>6. CASE "persona" \notin installed
      <3>1. NoPersona
        BY <2>6 DEF PersonaInv
      <3>2. \A j \in context : entries[j].data.kind # "told"
        BY <1>5, <3>1 DEF NoPersona, NoneOf, Kind, PersonaKinds
      <3>3. LastOf(entries', after, "told") = 0
        BY <2>3, <3>2, LastOfNone
      <3>4. QED
        BY <3>1, <3>3 DEF ToldLast, after, NoPersona
    <2>7. QED
      BY <2>5, <2>6
  <1>7. CASE Len(rs) = 2 /\ rs[1] = [kind |-> "told", name |-> active]
    <2> DEFINE j == n + 1
    <2>1. j \in after /\ entries'[j].data = rs[1]
      BY <1>2, <1>3, <1>5, <1>7
    <2>2. entries'[j].data.kind = "told" /\ entries'[j].data.name = active
      BY <1>7, <2>1
    <2>3. \A i \in after : i \in Nat /\ (entries'[i].data.kind = "told" => i <= j)
      <3>1. (n + 1)..Len(entries') = {n + 1, n + 2} /\ entries'[n + 2].data = rs[2]
        BY <1>2, <1>3, <1>7
      <3>2. rs[2].kind = "message"
        BY <1>1, <1>7
      <3>3. ASSUME NEW i \in after PROVE i \in Nat /\ (entries'[i].data.kind = "told" => i <= j)
        <4>1. CASE i \in context
          BY <1>2, <1>5, <4>1
        <4>2. CASE i = n + 1
          BY <1>2, <4>2
        <4>3. CASE i = n + 2
          BY <1>2, <3>1, <3>2, <4>3
        <4>4. QED
          BY <1>5, <3>1, <3>3, <4>1, <4>2, <4>3
      <3>4. QED
        BY <3>3
    <2>4. j # 0
      BY <1>2
    <2> HIDE DEF j
    <2>5. LastOf(entries', after, "told") = j
      BY <2>1, <2>2, <2>3, LastOfIs
    <2>6. QED
      BY <2>2, <2>4, <2>5 DEF ToldLast, after
  <1>8. QED
    BY <1>1, <1>6, <1>7

(* A prompt is answered under the active persona (before_agent_start,      *)
(* communicatePersona()).                                                  *)
THEOREM PromptsAreAsActive == Spec => PromptedAsActive
  <1>1. ASSUME SessionInv, [Next]_vars, ~running, running', entries'[leaf'].data.kind = "message"
        PROVE  ToldLast(entries', PathIn(entries', leaf'), baseline') = active'
    <2> USE <1>1
    <2>1. CASE Prompt
      BY <2>1, PromptTold DEF Prompt, personaVars
    <2>2. CASE ReplayStep
      <3>1. PICK reply \in Answers : AnswerReplay(reply)
        BY <2>2 DEF ReplayStep
      <3> DEFINE rs == <<[kind |-> "replay", call |-> target, answer |-> reply]>>
      <3>2. Grows(leaf, rs) /\ Len(rs) = 1 /\ rs[1].kind = "replay"
        BY <3>1, AnswerReplayGrows DEF SessionInv, AskInv
      <3> HIDE DEF rs
      <3>3. Grown(entries', entries, leaf, rs) /\ leaf' = Len(entries')
        BY <3>2, GrowsGrown DEF SessionInv
      <3>4. entries'[Len(entries) + 1].data = rs[1] /\ leaf' = Len(entries) + 1
        BY <3>2, <3>3 DEF Grown
      <3>5. QED
        BY <3>2, <3>4
    <2>3. CASE \E l \in 0..Len(entries) : Start(l) \/ \E summarized \in BOOLEAN : Navigate(l, summarized)
      BY <2>3 DEF Start, Navigate
    <2>4. CASE Close \/ BeginTurn \/ EndTurn \/ EndRun
      BY <2>4 DEF Close, BeginTurn, EndTurn, EndRun
    <2>5. CASE \E cut \in ContextIn(entries, Branch) : Compact(cut)
      BY <2>5 DEF Compact
    <2>6. CASE TodoStep \/ PersonaStep \/ AskStep
      BY <2>6 DEF TodoStep, CallTodo, ClearWidget, treeVars, PersonaStep, Select, CallPersona, DeliverMessage,
                  AskStep, CallAsk, AnswerAsk, EscapeReplay
    <2>7. CASE UNCHANGED vars
      BY <2>7 DEF vars, treeVars
    <2>8. QED
      BY <2>1, <2>2, <2>3, <2>4, <2>5, <2>6, <2>7 DEF Next
  <1>2. SessionInv /\ [Next]_vars =>
          [~running /\ running' /\ entries'[leaf'].data.kind = "message" =>
             ToldLast(entries', PathIn(entries', leaf'), baseline') = active']_<<treeVars, personaVars>>
    BY <1>1
  <1>3. QED
    BY <1>2, SessionInvariance, PTL DEF Spec, PromptedAsActive

-----------------------------------------------------------------------------
(* The question of ask.  While it is open the form holds no more than its  *)
(* ask admits: the questionnaire of a single choice is empty, as whatever  *)
(* fills it also submits it, ...                                           *)
FormAdmitted ==
  /\ written => ask.allowFreeform
  /\ editor = Options + 1 => ask.allowFreeform
  /\ ask.mode = "tui" /\ ~ask.allowMultiple => checked = {} /\ ~written

(* ... and the dialogs of RPC fill it in their order.                      *)
DialogsInOrder ==
  /\ dialog # "none" => ask.mode = "rpc"
  /\ ask.mode = "rpc" /\ dialog # "comment" => comments = {} /\ ~written
  /\ ask.mode = "rpc" /\ dialog \in {"none", "select", "numbers"} => checked = {} /\ unasked = {}
  /\ dialog = "numbers" => ask.allowMultiple
  /\ dialog = "comment" => unasked # {}
  /\ dialog = "freeform" => ask.allowFreeform /\ (ask.allowMultiple \/ checked = {})
  /\ ask.mode = "rpc" => unasked \subseteq checked /\ comments \subseteq checked
  /\ ask.mode = "rpc" /\ ~ask.allowMultiple =>
       checked = {} \/ (~written /\ \E o \in OptionRows : checked = {o})

(* Before the question is over nothing is given and nothing timed out. *)
Undecided == ~timedOut /\ answer = NoAnswer

FormInv ==
  /\ stage # "ended" => FormAdmitted /\ DialogsInOrder /\ Undecided
  /\ stage = "asked" => dialog = "none"

DialogInv == DialogTypeOK /\ FormInv /\ OutcomeNamesCause /\ AnswerMatchesAsk

LEMMA AskTyped ==
  ASSUME DialogTypeOK
  PROVE  /\ ask.allowMultiple \in BOOLEAN /\ ask.allowFreeform \in BOOLEAN /\ ask.timeout \in BOOLEAN
         /\ ask.mode \in {"tui", "rpc", "none"}
         /\ Options \in Nat \ {0} /\ Timeout \in Nat \ {0} /\ Pages \in Nat \ {0}
         /\ Rows \in Nat \ {0} /\ Rows >= Options
         /\ Rows <= Options + 2 /\ (~ask.allowMultiple => Rows <= Options + 1)
         /\ (~ask.allowMultiple /\ ~ask.allowFreeform => Rows = Options)
         /\ FreeformRow \in {0, Options + 1} /\ (FreeformRow # 0 <=> ask.allowFreeform)
  <1>1. ask \in Asks /\ Options \in Nat \ {0} /\ Timeout \in Nat \ {0} /\ Pages \in Nat \ {0}
    BY AskDialogAssumption DEF DialogTypeOK
  <1>2. QED
    BY <1>1 DEF Asks, Rows, FreeformRow

(* The type invariant in parts: what an action of the form may change, ... *)
FormTyped ==
  /\ editor \in 0..(Options + 1) /\ draft \in BOOLEAN
  /\ checked \subseteq OptionRows /\ comments \subseteq OptionRows
  /\ written \in BOOLEAN /\ writtenChecked \in BOOLEAN

(* ... what the end of the question changes, ...                           *)
EndTyped ==
  /\ stage \in {"asked", "open", "ended"}
  /\ answer \in [selections : SUBSET OptionRows, comments : SUBSET OptionRows,
                 freeform : BOOLEAN, given : BOOLEAN]
  /\ outcome \in {"none", "answered", "unanswered", "cancelled", "ui_unavailable"}
  /\ cause \in {"none", "submit", "cancel", "deadline", "abort", "no_ui"}

(* ... and its clock. *)
ClockTyped == ticks \in 0..Off

RestTyped ==
  /\ ask \in Asks /\ row \in 1..Rows /\ timedOut \in BOOLEAN /\ aborted \in BOOLEAN
  /\ dialog \in {"none", "select", "numbers", "freeform", "comment"}
  /\ unasked \subseteq OptionRows

LEMMA TypeParts == DialogTypeOK => FormTyped /\ EndTyped /\ ClockTyped /\ RestTyped
  BY DEF DialogTypeOK, FormTyped, EndTyped, ClockTyped, RestTyped

LEMMA TypeWhole == ASSUME FormTyped', EndTyped', ClockTyped', RestTyped' PROVE DialogTypeOK'
  BY DEF DialogTypeOK, FormTyped, EndTyped, ClockTyped, RestTyped

LEMMA FormStays == ASSUME FormTyped, UNCHANGED formVars PROVE FormTyped'
  BY DEF FormTyped, formVars

LEMMA RestStays ==
  ASSUME RestTyped, UNCHANGED <<ask, row, aborted, dialog, unasked>>, timedOut' \in BOOLEAN
  PROVE  RestTyped'
  BY DEF RestTyped, Rows

LEMMA StayTyped == ASSUME EndTyped, Stay PROVE EndTyped'
  BY DEF EndTyped, Stay

LEMMA ClockOff == ASSUME ticks' = Off PROVE ClockTyped'
  <1>1. Timeout \in Nat
    BY AskDialogAssumption
  <1>2. Off \in 0..Off
    BY <1>1 DEF Off
  <1>3. QED
    BY <1>2 DEF ClockTyped

LEMMA EndIsTyped ==
  ASSUME NEW result, NEW why, End(result, why),
         result \in [selections : SUBSET OptionRows, comments : SUBSET OptionRows,
                     freeform : BOOLEAN, given : BOOLEAN],
         why \in {"submit", "cancel", "deadline", "abort"}
  PROVE  EndTyped' /\ ClockTyped'
  <1>1. outcome' \in {"answered", "unanswered", "cancelled"}
    BY DEF End, Status
  <1>2. EndTyped'
    BY <1>1 DEF End, EndTyped
  <1>3. ClockTyped'
    BY ClockOff DEF End
  <1>4. QED
    BY <1>2, <1>3

LEMMA NoAnswerTyped ==
  NoAnswer \in [selections : SUBSET OptionRows, comments : SUBSET OptionRows,
                freeform : BOOLEAN, given : BOOLEAN] /\ NoAnswer.given = FALSE
  BY DEF NoAnswer

(* The status names what ended the question, when it ends undecided. *)
LEMMA EndNames ==
  ASSUME stage # "ended" => Undecided, NEW result, NEW why,
         End(result, why),
         \/ why = "submit" /\ result.given = TRUE
         \/ why \in {"cancel", "abort"} /\ result.given = FALSE /\ timedOut' = FALSE
         \/ why = "deadline" /\ result.given = FALSE /\ timedOut' = TRUE
  PROVE  OutcomeNamesCause' /\ outcome' \in {"answered", "unanswered", "cancelled"}
  BY DEF End, Status, OutcomeNamesCause

LEMMA NoAnswerMatches == ASSUME answer' = NoAnswer PROVE AnswerMatchesAsk'
  BY DEF AnswerMatchesAsk, NoAnswer

(* An answer that the ask admits. *)
Admitted(options, texts, text) ==
  /\ options \subseteq OptionRows /\ texts \subseteq options /\ text \in BOOLEAN
  /\ text => ask.allowFreeform
  /\ ~ask.allowMultiple =>
       /\ options = {} \/ (~text /\ \E o \in OptionRows : options = {o})
       /\ ask.mode = "tui" => text \/ options # {}

LEMMA AdmittedMatches ==
  ASSUME NEW options, NEW texts, NEW text, Admitted(options, texts, text), ask' = ask,
         answer' = [selections |-> options, comments |-> texts, freeform |-> text, given |-> TRUE]
  PROVE  AnswerMatchesAsk'
  <1>1. ASSUME options = {} \/ \E o \in OptionRows : options = {o}
        PROVE  Cardinality(options) <= 1
    <2>1. Cardinality({}) = 0 /\ \A o \in OptionRows : Cardinality({o}) = 1
      BY FS_EmptySet, FS_Singleton
    <2>2. QED
      BY <1>1, <2>1
  <1>2. answer'.selections = options /\ answer'.comments = texts /\ answer'.freeform = text
    OBVIOUS
  <1>3. ASSUME ~ask.allowMultiple
        PROVE  /\ Cardinality(options) <= 1
               /\ text => options = {}
               /\ ask.mode = "tui" => text \/ options # {}
    BY <1>1, <1>3 DEF Admitted
  <1>4. QED
    BY <1>2, <1>3 DEF AnswerMatchesAsk, Admitted

-----------------------------------------------------------------------------
LEMMA DialogInitInv == DialogInit => DialogInv
  <1> SUFFICES ASSUME DialogInit PROVE DialogInv
    OBVIOUS
  <1> USE DEF DialogInit, Choosing, NoAnswer, Off
  <1>1. DialogTypeOK
    <2>1. Options \in Nat \ {0} /\ Timeout \in Nat \ {0}
      BY AskDialogAssumption
    <2>2. 1 \in 1..Rows
      <3>1. CASE ask.allowFreeform /\ ask.allowMultiple
        BY <2>1, <3>1 DEF Rows
      <3>2. CASE ~ask.allowFreeform \/ ~ask.allowMultiple
        BY <2>1, <3>2 DEF Rows
      <3>3. QED
        BY <3>1, <3>2
    <2>3. /\ ticks \in 0..Off /\ editor \in 0..(Options + 1)
          /\ answer \in [selections : SUBSET OptionRows, comments : SUBSET OptionRows,
                         freeform : BOOLEAN, given : BOOLEAN]
      BY <2>1
    <2>4. QED
      BY <2>2, <2>3 DEF DialogTypeOK
  <1>2. FormInv
    BY AskDialogAssumption DEF FormInv, FormAdmitted, DialogsInOrder, Undecided
  <1>3. OutcomeNamesCause /\ AnswerMatchesAsk
    BY DEF OutcomeNamesCause, AnswerMatchesAsk
  <1>4. QED
    BY <1>1, <1>2, <1>3 DEF DialogInv

LEMMA AskKeeps == ASSUME DialogInv, Ask PROVE DialogInv'
  <1> USE DEF DialogInv
  <1>1. DialogTypeOK'
    <2>1. RestTyped'
      BY TypeParts DEF Ask, RestTyped, Rows, formVars
    <2>2. FormTyped'
      BY TypeParts, FormStays DEF Ask
    <2>3. EndTyped' /\ ClockTyped'
      <3>1. CASE End(NoAnswer, "abort")
        BY <3>1, EndIsTyped, NoAnswerTyped
      <3>2. CASE ask.mode = "none" /\ stage' = "ended"
        BY <3>2, TypeParts DEF Ask, EndTyped, ClockTyped
      <3>3. CASE ask.mode # "none" /\ stage' = "open"
        <4>1. EndTyped'
          BY <3>3, TypeParts DEF Ask, EndTyped, End
        <4>2. ticks' \in {Timeout, Timeout + 1}
          BY <3>3 DEF Ask, End, Off
        <4>3. QED
          BY <4>1, <4>2, AskDialogAssumption DEF ClockTyped, Off
      <3>4. QED
        BY <3>1, <3>2, <3>3 DEF Ask
    <2>4. QED
      BY <2>1, <2>2, <2>3, TypeWhole
  <1>2. CASE ask.mode = "none" /\ stage' = "ended"
    <2>1. outcome' = "ui_unavailable" /\ cause' = "no_ui" /\ answer' = answer /\ ask' = ask
      BY <1>2 DEF Ask
    <2>2. QED
      BY <1>1, <1>2, <2>1 DEF FormInv, OutcomeNamesCause, AnswerMatchesAsk
  <1>3. CASE End(NoAnswer, "abort")
    <2>1. timedOut' = FALSE /\ (stage # "ended" => Undecided)
      BY DEF Ask, FormInv, Undecided, DialogTypeOK
    <2>2. OutcomeNamesCause'
      BY <1>3, <2>1, EndNames, NoAnswerTyped
    <2>3. stage' = "ended" /\ answer' = NoAnswer
      BY <1>3 DEF End
    <2>4. QED
      BY <1>1, <2>2, <2>3, NoAnswerMatches DEF FormInv
  <1>4. CASE stage' = "open" /\ ask.mode # "none"
    <2> USE DEF FormInv
    <2>0. /\ UNCHANGED <<ask, timedOut, row, editor, checked, comments, written, unasked, answer>>
          /\ dialog' = IF ask.mode = "tui" THEN "none"
                       ELSE IF ask.allowMultiple THEN "numbers" ELSE "select"
          /\ stage = "asked" /\ ask.mode \in {"tui", "rpc"}
      BY <1>4, AskTyped DEF Ask, End, formVars
    <2>a. FormAdmitted' /\ Undecided'
      BY <2>0 DEF FormAdmitted, Undecided
    <2>b. (comments = {} /\ ~written /\ checked = {} /\ unasked = {}) \/ ask.mode = "tui"
      BY <2>0 DEF DialogsInOrder
    <2>c. DialogsInOrder'
      BY <2>0, <2>b DEF DialogsInOrder
    <2>1. FormInv'
      BY <1>4, <2>a, <2>c
    <2>2. OutcomeNamesCause'
      BY <1>4 DEF OutcomeNamesCause
    <2>3. UNCHANGED <<answer, ask>>
      BY <1>4 DEF Ask, End
    <2>4. AnswerMatchesAsk'
      BY <2>3 DEF AnswerMatchesAsk
    <2>5. QED
      BY <1>1, <2>1, <2>2, <2>4
  <1>5. QED
    BY <1>2, <1>3, <1>4 DEF Ask

LEMMA ClockKeeps == ASSUME DialogInv, Abort \/ Tick \/ Expire PROVE DialogInv'
  <1> USE DEF DialogInv
  <1>1. DialogTypeOK'
    <2>1. timedOut' \in BOOLEAN /\ aborted' \in BOOLEAN /\ UNCHANGED <<ask, formVars, dialog, unasked>>
      BY DEF Abort, Tick, Expire, DialogTypeOK
    <2>2. RestTyped' /\ FormTyped'
      BY <2>1, TypeParts, FormStays DEF RestTyped, Rows, formVars
    <2>3. EndTyped' /\ ClockTyped'
      <3>1. CASE Abort /\ stage # "open"
        BY <3>1, TypeParts, StayTyped DEF Abort, ClockTyped
      <3>2. CASE Tick
        <4>1. EndTyped'
          BY <3>2, TypeParts DEF Tick, endVars, EndTyped
        <4>2. ticks \in 0..Off /\ ticks > 0 /\ ticks' = ticks - 1
          BY <3>2 DEF Tick, DialogTypeOK
        <4>3. QED
          BY <4>1, <4>2, TypeParts, AskDialogAssumption DEF ClockTyped, Off
      <3>3. CASE Expire \/ (Abort /\ stage = "open")
        BY <3>3, EndIsTyped, NoAnswerTyped DEF Expire, Abort
      <3>4. QED
        BY <3>1, <3>2, <3>3
    <2>4. QED
      BY <2>2, <2>3, TypeWhole
  <1>2. CASE Tick \/ (Abort /\ stage # "open")
    <2>1. UNCHANGED <<ask, stage, timedOut, formVars, dialog, unasked, answer, outcome, cause>>
      BY <1>2 DEF Tick, Abort, Stay, endVars
    <2>2. QED
      BY <1>1, <2>1 DEF FormInv, FormAdmitted, DialogsInOrder, Undecided, OutcomeNamesCause,
                        AnswerMatchesAsk, formVars
  <1>3. CASE Expire
    <2>1. End(NoAnswer, "deadline") /\ timedOut' = TRUE
      BY <1>3 DEF Expire
    <2>2. OutcomeNamesCause' /\ stage' = "ended" /\ answer' = NoAnswer
      BY <2>1, EndNames DEF End, FormInv, NoAnswer
    <2>3. QED
      BY <1>1, <2>2, NoAnswerMatches DEF FormInv
  <1>4. CASE Abort /\ stage = "open"
    <2>1. End(NoAnswer, "abort") /\ timedOut' = FALSE
      BY <1>4 DEF Abort, FormInv, Undecided, DialogTypeOK
    <2>2. OutcomeNamesCause' /\ stage' = "ended" /\ answer' = NoAnswer
      BY <2>1, EndNames DEF End, FormInv, NoAnswer
    <2>3. QED
      BY <1>1, <2>2, NoAnswerMatches DEF FormInv
  <1>5. QED
    BY <1>2, <1>3, <1>4

-----------------------------------------------------------------------------
(* Steps after which the question is still open: only the form matters. *)
LEMMA StayKeeps ==
  ASSUME DialogInv, Stay, UNCHANGED <<ask, timedOut>>, DialogTypeOK',
         stage = "open", FormAdmitted', DialogsInOrder'
  PROVE  DialogInv'
  BY DEF DialogInv, Stay, FormInv, Undecided, OutcomeNamesCause, AnswerMatchesAsk

(* Steps that answer it. *)
LEMMA SubmitKeeps ==
  ASSUME DialogInv, UNCHANGED <<ask, timedOut>>, DialogTypeOK', stage # "ended",
         NEW options, NEW texts, NEW text, Admitted(options, texts, text),
         End([selections |-> options, comments |-> texts, freeform |-> text, given |-> TRUE], "submit")
  PROVE  DialogInv'
  <1>1. AnswerMatchesAsk'
    BY AdmittedMatches DEF End
  <1>2. OutcomeNamesCause'
    BY EndNames DEF DialogInv, FormInv
  <1>3. QED
    BY <1>1, <1>2 DEF DialogInv, FormInv, End

(* Steps that give it up. *)
LEMMA CancelKeeps ==
  ASSUME DialogInv, UNCHANGED <<ask, timedOut>>, DialogTypeOK', stage # "ended",
         End(NoAnswer, "cancel")
  PROVE  DialogInv'
  <1>1. OutcomeNamesCause' /\ stage' = "ended" /\ answer' = NoAnswer
    BY EndNames DEF End, DialogInv, FormInv, Undecided, NoAnswer, DialogTypeOK
  <1>2. QED
    BY <1>1, NoAnswerMatches DEF DialogInv, FormInv

LEMMA CaptureTyped == ASSUME DialogTypeOK, Capture PROVE ClockTyped'
  <1>1. ticks \in 0..Off /\ Timeout \in Nat
    BY AskDialogAssumption DEF DialogTypeOK
  <1>2. ticks' \in {ticks, Timeout, Off}
    BY DEF Capture
  <1>3. QED
    BY <1>1, <1>2 DEF ClockTyped, Off
(* Keys that leave the question open. *)
LEMMA TypeKeeps ==
  ASSUME DialogInv, UNCHANGED <<ask, timedOut, aborted, dialog, unasked>>, stage = "open",
         ask.mode = "tui", Type, FormTyped', row' \in 1..Rows, FormAdmitted'
  PROVE  DialogInv'
  <1>1. EndTyped' /\ ClockTyped'
    BY TypeParts, StayTyped, CaptureTyped DEF DialogInv, Type
  <1>2. RestTyped'
    BY TypeParts DEF DialogInv, RestTyped, Rows
  <1>3. DialogTypeOK'
    BY <1>1, <1>2, TypeWhole
  <1>4. DialogsInOrder'
    BY DEF DialogInv, FormInv, DialogsInOrder
  <1>5. QED
    BY <1>3, <1>4, StayKeeps DEF Type

(* The key that submits. *)
LEMMA SubmitKeyKeeps ==
  ASSUME DialogInv, UNCHANGED <<ask, timedOut, aborted, dialog, unasked, row>>, stage = "open",
         FormTyped', NEW options \in SUBSET OptionRows, NEW text \in BOOLEAN, Submit(options, text),
         text => ask.allowFreeform,
         ~ask.allowMultiple => \/ options = {} /\ text
                               \/ ~text /\ \E o \in OptionRows : options = {o}
  PROVE  DialogInv'
  <1> DEFINE texts == comments \cap options
             said == text /\ (~ask.allowMultiple \/ writtenChecked)
             result == [selections |-> options, comments |-> texts, freeform |-> said, given |-> TRUE]
  <1>1. End(result, "submit")
    BY DEF Submit, FinalAnswer
  <1>2. said \in BOOLEAN /\ texts \in SUBSET OptionRows
    BY DEF DialogInv, DialogTypeOK
  <1>3. result \in [selections : SUBSET OptionRows, comments : SUBSET OptionRows,
                    freeform : BOOLEAN, given : BOOLEAN]
    BY <1>2
  <1>4. EndTyped' /\ ClockTyped'
    BY <1>1, <1>3, EndIsTyped
  <1>5. RestTyped'
    BY TypeParts DEF DialogInv, RestTyped, Rows
  <1>6. Admitted(options, texts, said)
    BY <1>2 DEF Admitted
  <1> HIDE DEF texts, said
  <1>7. QED
    BY <1>1, <1>4, <1>5, <1>6, TypeWhole, SubmitKeeps

LEMMA MoveKeeps ==
  ASSUME DialogInv, UNCHANGED <<ask, timedOut, aborted, dialog, unasked>>, NEW delta \in Int, Move(delta)
  PROVE  DialogInv'
  <1>1. row' \in 1..Rows
    <2>1. Rows \in Nat \ {0} /\ row \in Int
      BY AskTyped DEF DialogInv, DialogTypeOK
    <2>2. row - 1 + delta \in Int /\ row' = ((row - 1 + delta) % Rows) + 1
      BY <2>1 DEF Move
    <2>3. QED
      BY <2>1, <2>2
  <1>2. FormTyped' /\ FormAdmitted'
    BY TypeParts DEF DialogInv, Move, FormTyped, FormInv, FormAdmitted, Tui
  <1>3. QED
    BY <1>1, <1>2, TypeKeeps DEF Move, Tui

LEMMA ChooseKeeps ==
  ASSUME DialogInv, UNCHANGED <<ask, timedOut, aborted, dialog, unasked>>, Choose
  PROVE  DialogInv'
  <1>1. /\ stage = "open" /\ ask.mode = "tui" /\ FormTyped /\ FormAdmitted
        /\ row \in 1..Rows /\ UNCHANGED <<row, comments, written>>
    BY TypeParts DEF Choose, Tui, DialogInv, FormInv, RestTyped
  <1>2. CASE ToggleOption
    <2>1. FormTyped'
      BY <1>1, <1>2 DEF ToggleOption, FormTyped
    <2>2. CASE ask.allowMultiple
      <3>1. FormAdmitted' /\ Type
        BY <1>1, <1>2, <2>2 DEF ToggleOption, FormAdmitted
      <3>2. QED
        BY <1>1, <2>1, <3>1, TypeKeeps
    <2>3. CASE ~ask.allowMultiple
      <3>1. Submit({row}, written) /\ row \in OptionRows
        BY <1>2, <2>3 DEF ToggleOption
      <3>2. ~written /\ written \in BOOLEAN
        BY <1>1, <2>3 DEF FormAdmitted, FormTyped
      <3>3. QED
        BY <1>1, <2>1, <2>3, <3>1, <3>2, SubmitKeyKeeps
    <2>4. QED
      BY <2>2, <2>3
  <1>3. CASE OpenFreeform
    <2>1. row = Options + 1 /\ ask.allowFreeform
      BY <1>1, <1>3, AskDialogAssumption DEF OpenFreeform, FreeformRow
    <2>2. FormTyped' /\ FormAdmitted' /\ Type
      BY <1>1, <1>3, <2>1, AskDialogAssumption DEF OpenFreeform, FormTyped, FormAdmitted
    <2>3. QED
      BY <1>1, <2>2, TypeKeeps
  <1>4. CASE ToggleFreeform
    <2>1. FormTyped' /\ FormAdmitted' /\ Type
      BY <1>1, <1>4 DEF ToggleFreeform, FormTyped, FormAdmitted
    <2>2. QED
      BY <1>1, <2>1, TypeKeeps
  <1>5. CASE SubmitRow
    <2>1. ask.allowMultiple
      BY <1>1, <1>5, AskTyped DEF SubmitRow, DialogInv, Rows, FreeformRow, OptionRows
    <2>2. FormTyped' /\ Submit(checked, written) /\ checked \subseteq OptionRows /\ written \in BOOLEAN
      BY <1>1, <1>5 DEF SubmitRow, FormTyped
    <2>3. QED
      BY <1>1, <2>1, <2>2, SubmitKeyKeeps DEF FormAdmitted
  <1>6. QED
    BY <1>2, <1>3, <1>4, <1>5 DEF Choose

LEMMA EditorKeeps ==
  ASSUME DialogInv, UNCHANGED <<ask, timedOut, aborted, dialog, unasked>>,
         OpenComment \/ SaveEditor \/ CancelEditor \/ \E text \in BOOLEAN : Edit(text)
  PROVE  DialogInv'
  <1>1. /\ stage = "open" /\ ask.mode = "tui" /\ FormTyped /\ FormAdmitted
        /\ row \in 1..Rows /\ UNCHANGED row /\ Options \in Nat
    BY TypeParts, AskDialogAssumption
       DEF OpenComment, SaveEditor, CancelEditor, Edit, Tui, DialogInv, FormInv, RestTyped
  <1>2. CASE OpenComment \/ CancelEditor \/ \E text \in BOOLEAN : Edit(text)
    <2>1. CASE OpenComment
      <3>1. editor' \in 1..Options /\ draft' \in BOOLEAN /\ Type
            /\ UNCHANGED <<checked, comments, written, writtenChecked>>
        BY <1>1, <2>1 DEF OpenComment, OptionRows
      <3>2. editor' \in 0..(Options + 1) /\ editor' # Options + 1
        BY <1>1, <3>1
      <3>3. FormTyped' /\ FormAdmitted'
        BY <1>1, <3>1, <3>2 DEF FormTyped, FormAdmitted
      <3>4. QED
        BY <1>1, <3>1, <3>3, TypeKeeps
    <2>2. CASE CancelEditor
      <3>1. editor' = 0 /\ Type /\ UNCHANGED <<draft, checked, comments, written, writtenChecked>>
        BY <2>2 DEF CancelEditor, Choosing
      <3>2. editor' \in 0..(Options + 1) /\ editor' # Options + 1
        BY <1>1, <3>1
      <3>3. FormTyped' /\ FormAdmitted'
        BY <1>1, <3>1, <3>2 DEF FormTyped, FormAdmitted
      <3>4. QED
        BY <1>1, <3>1, <3>3, TypeKeeps
    <2>3. CASE \E text \in BOOLEAN : Edit(text)
      <3>1. draft' \in BOOLEAN /\ Type /\ UNCHANGED <<editor, checked, comments, written, writtenChecked>>
        BY <2>3 DEF Edit
      <3>2. FormTyped' /\ FormAdmitted'
        BY <1>1, <3>1 DEF FormTyped, FormAdmitted
      <3>3. QED
        BY <1>1, <3>1, <3>2, TypeKeeps
    <2>4. QED
      BY <1>2, <2>1, <2>2, <2>3
  <1>3. CASE SaveEditor
    <2>0. /\ editor' = 0 /\ editor # 0 /\ editor \in 0..(Options + 1)
          /\ UNCHANGED <<draft, checked>>
          /\ editor' # Options + 1 /\ editor' \in 0..(Options + 1)
          /\ editor \notin OptionRows => written' = draft
          /\ editor \in OptionRows => written' = written
      <3>1. editor' = 0 /\ editor # 0 /\ UNCHANGED <<draft, checked>>
        BY <1>3 DEF SaveEditor, Choosing
      <3>2. editor \notin OptionRows => written' = draft
        BY <1>3 DEF SaveEditor
      <3>3. editor \in OptionRows => written' = written
        BY <1>3 DEF SaveEditor
      <3>4. editor \in 0..(Options + 1) /\ 0 \in 0..(Options + 1) /\ 0 # Options + 1
        BY <1>1 DEF FormTyped
      <3>5. QED
        BY <3>1, <3>2, <3>3, <3>4
    <2>1. FormTyped'
      <3>1. comments' \subseteq OptionRows
        BY <1>1, <1>3 DEF SaveEditor, FormTyped
      <3>2. written' \in BOOLEAN /\ writtenChecked' \in BOOLEAN
        BY <1>1, <1>3 DEF SaveEditor, FormTyped
      <3>3. QED
        BY <1>1, <2>0, <3>1, <3>2 DEF FormTyped
    <2>2. editor \notin OptionRows => ask.allowFreeform
      BY <1>1, <2>0 DEF FormAdmitted, OptionRows
    <2>3. CASE editor \notin OptionRows /\ ~ask.allowMultiple /\ draft
      <3>1. Submit(checked, TRUE) /\ checked = {}
        BY <1>1, <1>3, <2>3 DEF SaveEditor, FormAdmitted
      <3>2. QED
        BY <1>1, <2>1, <2>2, <2>3, <3>1, SubmitKeyKeeps DEF SaveEditor
    <2>4. CASE ~(editor \notin OptionRows /\ ~ask.allowMultiple /\ draft)
      <3>1. Type
        BY <1>3, <2>4 DEF SaveEditor
      <3>2. FormAdmitted'
        BY <1>1, <2>0, <2>2, <2>4 DEF FormAdmitted
      <3>3. QED
        BY <1>1, <2>1, <3>1, <3>2, TypeKeeps
    <2>5. QED
      BY <2>3, <2>4
  <1>4. QED
    BY <1>2, <1>3

LEMMA KeyKeeps == ASSUME DialogInv, Key PROVE DialogInv'
  <1>1. UNCHANGED <<ask, timedOut, aborted, dialog, unasked>>
    BY DEF Key
  <1>2. CASE \E delta \in {-1, 1, -Pages, Pages, 1 - row, Rows - row} : Move(delta)
    <2>1. row \in Int /\ Rows \in Int /\ Pages \in Int
      BY AskTyped DEF DialogInv, DialogTypeOK
    <2>2. {-1, 1, -Pages, Pages, 1 - row, Rows - row} \subseteq Int
      BY <2>1
    <2>3. QED
      BY <1>1, <1>2, <2>2, MoveKeeps
  <1>3. CASE Choose
    BY <1>1, <1>3, ChooseKeeps
  <1>4. CASE OpenComment \/ SaveEditor \/ CancelEditor \/ \E text \in BOOLEAN : Edit(text)
    BY <1>1, <1>4, EditorKeeps
  <1>5. CASE Cancel
    <2>1. EndTyped' /\ ClockTyped' /\ End(NoAnswer, "cancel") /\ stage # "ended"
      BY <1>5, EndIsTyped, NoAnswerTyped DEF Cancel, Tui
    <2>2. FormTyped' /\ RestTyped'
      BY <1>1, <1>5, TypeParts, FormStays DEF Cancel, DialogInv, RestTyped, Rows, formVars
    <2>3. QED
      BY <1>1, <2>1, <2>2, TypeWhole, CancelKeeps
  <1>6. QED
    BY <1>2, <1>3, <1>4, <1>5 DEF Key
-----------------------------------------------------------------------------
(* collectComments() goes on with the options of which a comment is still  *)
(* to be asked for, or returns an answer that the ask admits.              *)
LEMMA AskCommentsKeeps ==
  ASSUME DialogInv, UNCHANGED <<ask, timedOut, aborted, row>>, stage = "open", ask.mode = "rpc",
         FormTyped', FormAdmitted', NEW left, NEW options, NEW texts, NEW text,
         AskComments(left, options, texts, text), Admitted(options, texts, text),
         left \subseteq OptionRows, left \subseteq checked', comments' \subseteq checked',
         ~ask.allowMultiple =>
           checked' = {} \/ (~written' /\ \E o \in OptionRows : checked' = {o})
  PROVE  DialogInv'
  <1>1. RestTyped'
    <2>1. dialog' \in {"none", "select", "numbers", "freeform", "comment"} /\ unasked' = left
      BY DEF AskComments, DialogInv, DialogTypeOK
    <2>2. QED
      BY <2>1, TypeParts DEF DialogInv, RestTyped, Rows
  <1>2. CASE left = {}
    <2> DEFINE result == [selections |-> options, comments |-> texts, freeform |-> text, given |-> TRUE]
    <2>1. End(result, "submit")
      BY <1>2 DEF AskComments
    <2>2. options \in SUBSET OptionRows /\ texts \in SUBSET OptionRows /\ text \in BOOLEAN
      BY DEF Admitted
    <2>3. result \in [selections : SUBSET OptionRows, comments : SUBSET OptionRows,
                      freeform : BOOLEAN, given : BOOLEAN]
      BY <2>2
    <2>4. EndTyped' /\ ClockTyped'
      BY <2>1, <2>3, EndIsTyped
    <2>5. QED
      BY <1>1, <2>1, <2>4, TypeWhole, SubmitKeeps
  <1>3. CASE left # {}
    <2>1. Stay /\ dialog' = "comment" /\ unasked' = left /\ UNCHANGED ticks
      BY <1>3 DEF AskComments
    <2>2. EndTyped' /\ ClockTyped'
      BY <2>1, TypeParts, StayTyped DEF DialogInv, ClockTyped
    <2>3. DialogsInOrder'
      BY <1>3, <2>1 DEF DialogsInOrder
    <2>4. QED
      BY <1>1, <2>1, <2>2, <2>3, TypeWhole, StayKeeps
  <1>4. QED
    BY <1>2, <1>3

LEMMA ReplyKeeps == ASSUME DialogInv, Reply PROVE DialogInv'
  <1>1. /\ UNCHANGED <<ask, timedOut, aborted, row, editor, draft, writtenChecked>>
        /\ FormTyped /\ unasked \subseteq OptionRows
    BY TypeParts DEF Reply, DialogInv, RestTyped
  <1>2. stage = "open" /\ ask.mode = "rpc" /\ FormAdmitted /\ DialogsInOrder
    BY DEF Reply, ReplySelect, ReplyNumbers, ReplyFreeform, ReplyComment, ReplyNothing, Rpc,
           DialogInv, FormInv, DialogsInOrder
  <1>3. ASSUME checked' \subseteq OptionRows, comments' \subseteq OptionRows, written' \in BOOLEAN,
               written' => ask.allowFreeform
        PROVE  FormTyped' /\ FormAdmitted'
    BY <1>1, <1>2, <1>3 DEF FormTyped, FormAdmitted
  <1>4. CASE ReplySelect
    <2>1. dialog = "select" /\ comments' = {} /\ comments = {} /\ written' = FALSE /\ checked = {}
      BY <1>1, <1>2, <1>4 DEF ReplySelect, Rpc, DialogsInOrder, FormTyped
    <2>2. CASE \E option \in OptionRows :
                 checked' = {option} /\ AskComments({option}, {option}, {}, FALSE)
      <3>1. PICK option \in OptionRows :
               checked' = {option} /\ AskComments({option}, {option}, {}, FALSE)
        BY <2>2
      <3>2. Admitted({option}, {}, FALSE)
        BY <1>2 DEF Admitted
      <3>3. FormTyped' /\ FormAdmitted'
        BY <1>3, <2>1, <3>1
      <3>4. QED
        BY <1>1, <1>2, <2>1, <3>1, <3>2, <3>3, AskCommentsKeeps
    <2>3. CASE /\ ask.allowFreeform /\ dialog' = "freeform"
               /\ UNCHANGED <<checked, unasked, stage, answer, outcome, cause, ticks>>
      <3>1. FormTyped' /\ FormAdmitted'
        BY <1>1, <1>3, <2>1, <2>3
      <3>2. EndTyped' /\ ClockTyped' /\ RestTyped'
        BY <1>1, <2>3, TypeParts DEF DialogInv, EndTyped, ClockTyped, RestTyped, Rows
      <3>3. DialogsInOrder'
        BY <1>1, <1>2, <2>1, <2>3 DEF DialogsInOrder
      <3>4. QED
        BY <1>1, <1>2, <2>3, <3>1, <3>2, <3>3, TypeWhole, StayKeeps DEF Stay
    <2>4. QED
      BY <1>4, <2>2, <2>3 DEF ReplySelect
  <1>5. CASE ReplyNumbers
    <2>1. /\ dialog = "numbers" /\ ask.allowMultiple /\ checked' \subseteq OptionRows
          /\ comments' = {} /\ comments = {} /\ written' = FALSE
      BY <1>1, <1>2, <1>5 DEF ReplyNumbers, Rpc, DialogsInOrder, FormTyped
    <2>2. FormTyped' /\ FormAdmitted'
      BY <1>3, <2>1
    <2>3. CASE ask.allowFreeform
      <3>1. dialog' = "freeform" /\ unasked' = checked' /\ Stay /\ UNCHANGED ticks
        BY <1>5, <2>3 DEF ReplyNumbers
      <3>2. EndTyped' /\ ClockTyped' /\ RestTyped'
        BY <1>1, <2>1, <3>1, TypeParts, StayTyped DEF DialogInv, ClockTyped, RestTyped, Rows
      <3>3. DialogsInOrder'
        BY <1>1, <1>2, <2>1, <2>3, <3>1 DEF DialogsInOrder
      <3>4. QED
        BY <1>1, <1>2, <2>2, <3>1, <3>2, <3>3, TypeWhole, StayKeeps
    <2>4. CASE ~ask.allowFreeform
      <3>1. AskComments(checked', checked', {}, FALSE)
        BY <1>5, <2>4 DEF ReplyNumbers
      <3>2. Admitted(checked', {}, FALSE)
        BY <2>1 DEF Admitted
      <3>3. QED
        BY <1>1, <1>2, <2>1, <2>2, <3>1, <3>2, AskCommentsKeeps
    <2>5. QED
      BY <2>3, <2>4
  <1>6. CASE ReplyFreeform
    <2>1. /\ dialog = "freeform" /\ ask.allowFreeform /\ (ask.allowMultiple \/ checked = {})
          /\ comments = {} /\ UNCHANGED <<checked, comments>> /\ written' \in BOOLEAN
          /\ checked \subseteq OptionRows /\ unasked \subseteq checked
      BY <1>1, <1>2, <1>6 DEF ReplyFreeform, Rpc, DialogsInOrder, FormTyped
    <2>2. FormTyped' /\ FormAdmitted'
      BY <1>3, <2>1
    <2>3. Admitted(checked, {}, written') /\ AskComments(unasked, checked, {}, written')
      BY <1>2, <1>6, <2>1 DEF Admitted, ReplyFreeform
    <2>4. QED
      BY <1>1, <1>2, <2>1, <2>2, <2>3, AskCommentsKeeps
  <1>7. CASE ReplyComment
    <2> DEFINE option == CHOOSE o \in unasked : \A p \in unasked : o <= p
    <2>1. option \in unasked
      <3>1. unasked # {} /\ unasked \subseteq Nat
        BY <1>1, <1>2, <1>7, AskDialogAssumption DEF ReplyComment, Rpc, DialogsInOrder, OptionRows
      <3>2. QED
        BY <3>1, LeastNumber
    <2>2. /\ comments' \in {comments, comments \cup {option}} /\ UNCHANGED <<checked, written>>
          /\ AskComments(unasked \ {option}, checked, comments', written)
      BY <1>7 DEF ReplyComment
    <2> HIDE DEF option
    <2>3. /\ checked \subseteq OptionRows /\ unasked \subseteq checked /\ comments' \subseteq checked
          /\ written \in BOOLEAN
      BY <1>1, <1>2, <2>1, <2>2 DEF DialogsInOrder, FormTyped
    <2>4. FormTyped' /\ FormAdmitted'
      BY <1>2, <1>3, <2>2, <2>3 DEF FormAdmitted
    <2>5. Admitted(checked, comments', written)
      BY <1>2, <2>3 DEF Admitted, FormAdmitted, DialogsInOrder
    <2>6. QED
      BY <1>1, <1>2, <2>2, <2>3, <2>4, <2>5, AskCommentsKeeps DEF DialogsInOrder
  <1>8. CASE ReplyNothing
    <2>1. End(NoAnswer, "cancel") /\ UNCHANGED <<checked, comments, written, dialog, unasked>>
      BY <1>8 DEF ReplyNothing
    <2>2. EndTyped' /\ ClockTyped'
      BY <2>1, EndIsTyped, NoAnswerTyped
    <2>3. FormTyped' /\ RestTyped'
      BY <1>1, <2>1, TypeParts, FormStays DEF DialogInv, RestTyped, Rows, formVars
    <2>4. QED
      BY <1>1, <1>2, <2>1, <2>2, <2>3, TypeWhole, CancelKeeps
  <1>9. QED
    BY <1>4, <1>5, <1>6, <1>7, <1>8 DEF Reply

-----------------------------------------------------------------------------
LEMMA DialogStutterKeeps == ASSUME DialogInv, UNCHANGED dialogVars PROVE DialogInv'
  BY DEF DialogInv, DialogTypeOK, FormInv, FormAdmitted, DialogsInOrder, Undecided, OutcomeNamesCause,
         AnswerMatchesAsk, dialogVars, deadlineVars, formVars, endVars, Rows, Asks

(* Where a question stands, in the terminal and in every dialog of RPC     *)
(* (Questionnaire, AskComponent, askWithRpc).                              *)
THEOREM DialogInvariance == DialogSpec => []DialogInv
  <1>1. DialogInit => DialogInv
    BY DialogInitInv
  <1>2. DialogInv /\ [DialogNext]_dialogVars => DialogInv'
    BY AskKeeps, ClockKeeps, KeyKeeps, ReplyKeeps, DialogStutterKeeps DEF DialogNext
  <1>3. QED
    BY <1>1, <1>2, PTL DEF DialogSpec

(* The question, its form, its deadline and its answer have their types,   *)
(* whatever the number of options, the timeout and the size of a page.     *)
THEOREM DialogTypeCorrect == DialogSpec => []DialogTypeOK
  <1>1. DialogInv => DialogTypeOK
    BY DEF DialogInv
  <1>2. QED
    BY <1>1, DialogInvariance, PTL

(* The status of the tool's result names the one thing that ended the      *)
(* question: a submission, the deadline, a cancellation or an abort, in    *)
(* the terminal as through an RPC client (execute() and deadline.ts).      *)
THEOREM OutcomeNamed == DialogSpec => []OutcomeNamesCause
  <1>1. DialogInv => OutcomeNamesCause
    BY DEF DialogInv
  <1>2. QED
    BY <1>1, DialogInvariance, PTL

(* The questionnaire of the terminal and the dialogs of RPC return only    *)
(* what the ask admits: comments on selected options, a response where one *)
(* is allowed, and of a single choice one option or the response.          *)
THEOREM AnswersMatch == DialogSpec => []AnswerMatchesAsk
  <1>1. DialogInv => AnswerMatchesAsk
    BY DEF DialogInv
  <1>2. QED
    BY <1>1, DialogInvariance, PTL
=============================================================================
