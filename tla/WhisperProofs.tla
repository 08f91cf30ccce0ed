---------------------------- MODULE WhisperProofs ----------------------------
(***************************************************************************)
(* Theorems about Whisper, for any finite or infinite set of processes,    *)
(* messages and calls: types, nothing that arrived is lost, and a reply    *)
(* that is acknowledged has settled its ask.                               *)
(***************************************************************************)
EXTENDS Whisper, SequenceTheorems, TLAPS

(* A message under way, or over, has a sender and a target. *)
Routed == \A m \in Messages : wire[m] # "none" => to[m] \in Agents /\ from[m] \in Agents

(* Of an ask that was not posted yet nobody knows anything. *)
Unposted ==
  \A r \in Asks : wire[r] = "none" =>
    ask[r] = "none" /\ r \notin pending /\ r \notin cancel /\ \A i \in Replies : reply[r][i] = "none"

(* Only a handled request is pending, and only a settled ask is withdrawn. *)
PendingHandled == \A r \in pending : wire[r] = "handled"
WithdrawnSettled == \A r \in cancel : ask[r] # "open"

(* A blocked call of `wait' waits in one place of one process. *)
Placed ==
  \A a, b \in Agents : \A i \in 1..Len(waiters[a]), j \in 1..Len(waiters[b]) :
    waiters[a][i] = waiters[b][j] => a = b /\ i = j
Blocked == \A a \in Agents : \A i \in 1..Len(waiters[a]) : waiting[waiters[a][i]] = "blocked"
Idle == \A a \in Agents : waiters[a] # <<>> => inbox[a] = <<>>

(* OwedUntilAnswered, in every stage before the process forgets.  A        *)
(* request may be handled as soon as the server listens, and up to the     *)
(* removal of the record.                                                  *)
Remembers(a) == status[a] \in {"new", "starting", "up", "leaving"}
Owed ==
  \A r \in Asks : ask[r] = "open" /\ wire[r] = "handled" /\ Remembers(to[r]) => r \in pending

WaitInv == Placed /\ Blocked /\ Idle
AskInv == Unposted /\ PendingHandled /\ WithdrawnSettled /\ Owed /\ ReplySettles
IInv == TypeOK /\ Routed /\ WaitInv /\ AskInv

-----------------------------------------------------------------------------
(* What is left of a queue without its i-th element.                       *)
LEMMA RemoveAtElements ==
  ASSUME NEW S, NEW q \in Seq(S), NEW i \in 1..Len(q)
  PROVE  /\ RemoveAt(q, i) \in Seq(S) /\ Len(RemoveAt(q, i)) = Len(q) - 1
         /\ \A j \in 1..(Len(q) - 1) : RemoveAt(q, i)[j] = IF j < i THEN q[j] ELSE q[j + 1]
  <1> DEFINE before == SubSeq(q, 1, i - 1)
             after == SubSeq(q, i + 1, Len(q))
  <1>1. Len(q) \in Nat /\ i \in Nat /\ 1 <= i /\ i <= Len(q)
    OBVIOUS
  <1>2. /\ before \in Seq(S) /\ Len(before) = i - 1
        /\ \A j \in 1..(i - 1) : before[j] = q[j]
    BY <1>1
  <1>3. /\ after \in Seq(S) /\ Len(after) = Len(q) - i
        /\ \A j \in 1..(Len(q) - i) : after[j] = q[i + j]
    BY <1>1
  <1>4. RemoveAt(q, i) = before \o after
    BY DEF RemoveAt
  <1> HIDE DEF before, after
  <1>5. RemoveAt(q, i) \in Seq(S) /\ Len(RemoveAt(q, i)) = Len(q) - 1
    BY <1>1, <1>2, <1>3, <1>4
  <1>6. ASSUME NEW j \in 1..(Len(q) - 1)
        PROVE  RemoveAt(q, i)[j] = IF j < i THEN q[j] ELSE q[j + 1]
    <2>1. CASE j < i
      BY <2>1, <1>1, <1>2, <1>3, <1>4
    <2>2. CASE ~(j < i)
      <3>1. j - (i - 1) \in 1..(Len(q) - i) /\ i + (j - (i - 1)) = j + 1
        BY <2>2, <1>1
      <3>2. RemoveAt(q, i)[j] = after[j - (i - 1)]
        BY <2>2, <3>1, <1>1, <1>2, <1>3, <1>4
      <3>3. QED
        BY <2>2, <3>1, <3>2, <1>3
    <2>3. QED
      BY <2>1, <2>2
  <1>7. QED
    BY <1>5, <1>6

LEMMA TailIsRemoval ==
  ASSUME NEW S, NEW q \in Seq(S), q # <<>>
  PROVE  /\ Tail(q) \in Seq(S) /\ Len(Tail(q)) = Len(q) - 1 /\ Len(q) \in Nat \ {0}
         /\ Head(q) = q[1]
         /\ \A j \in 1..(Len(q) - 1) : Tail(q)[j] = q[j + 1]
  OBVIOUS

(* One waiter leaves the queue of a, at position i. *)
LEMMA WaiterLeaves ==
  ASSUME TypeOK, WaitInv, NEW a \in Agents, NEW i \in 1..Len(waiters[a]), NEW q \in Seq(Waits),
         Len(q) = Len(waiters[a]) - 1,
         \A j \in 1..(Len(waiters[a]) - 1) :
           q[j] = IF j < i THEN waiters[a][j] ELSE waiters[a][j + 1],
         waiters' = [waiters EXCEPT ![a] = q],
         waiting' = [waiting EXCEPT ![waiters[a][i]] = "over"],
         UNCHANGED inbox
  PROVE  WaitInv'
  <1> DEFINE old(b, j) == IF b # a \/ j < i THEN j ELSE j + 1
  <1>1. waiters \in [Agents -> Seq(Waits)] /\ waiting \in [Waits -> {"none", "blocked", "over"}]
    BY DEF TypeOK
  <1>2. ASSUME NEW b \in Agents, NEW j \in 1..Len(waiters'[b])
        PROVE  /\ old(b, j) \in 1..Len(waiters[b]) /\ waiters'[b][j] = waiters[b][old(b, j)]
               /\ ~(b = a /\ old(b, j) = i)
    <2>1. CASE b = a
      BY <2>1, <1>1
    <2>2. CASE b # a
      BY <2>2, <1>1
    <2>3. QED
      BY <2>1, <2>2
  <1>3. Placed'
    <2> SUFFICES ASSUME NEW b \in Agents, NEW c \in Agents, NEW j \in 1..Len(waiters'[b]),
                        NEW k \in 1..Len(waiters'[c]), waiters'[b][j] = waiters'[c][k]
                 PROVE  b = c /\ j = k
      BY DEF Placed
    <2>1. b = c /\ old(b, j) = old(c, k)
      BY <1>2 DEF WaitInv, Placed
    <2>2. QED
      BY <2>1
  <1>4. Blocked'
    <2> SUFFICES ASSUME NEW b \in Agents, NEW j \in 1..Len(waiters'[b])
                 PROVE  waiting'[waiters'[b][j]] = "blocked"
      BY DEF Blocked
    <2>1. waiters[b][old(b, j)] # waiters[a][i]
      BY <1>2 DEF WaitInv, Placed
    <2>2. waiting[waiters[b][old(b, j)]] = "blocked" /\ waiters[b][old(b, j)] \in Waits
      BY <1>1, <1>2 DEF WaitInv, Blocked
    <2>3. QED
      BY <2>1, <2>2, <1>1, <1>2
  <1>5. Idle'
    <2>1. \A b \in Agents : waiters'[b] # <<>> => waiters[b] # <<>>
      BY <1>1
    <2>2. QED
      BY <2>1 DEF WaitInv, Idle
  <1>6. QED
    BY <1>3, <1>4, <1>5 DEF WaitInv

-----------------------------------------------------------------------------
(* The calls of `wait'.  The steps that touch neither them nor the inbox.  *)
LEMMA WaitsUntouched == WaitInv /\ UNCHANGED inboxVars => WaitInv'
  BY DEF WaitInv, Placed, Blocked, Idle, inboxVars

LEMMA EnqueueWaits ==
  ASSUME TypeOK, WaitInv, NEW a \in Agents, NEW m \in Messages, Enqueue(a, m)
  PROVE  WaitInv'
  <1>1. CASE waiters[a] # <<>>
    <2>1. waiters[a] \in Seq(Waits)
      BY DEF TypeOK
    <2>2. 1 \in 1..Len(waiters[a]) /\ Head(waiters[a]) = waiters[a][1]
      BY <1>1, <2>1, TailIsRemoval
    <2>3. /\ Tail(waiters[a]) \in Seq(Waits) /\ Len(Tail(waiters[a])) = Len(waiters[a]) - 1
          /\ \A j \in 1..(Len(waiters[a]) - 1) :
               Tail(waiters[a])[j] = IF j < 1 THEN waiters[a][j] ELSE waiters[a][j + 1]
      BY <1>1, <2>1, TailIsRemoval
    <2>4. /\ waiters' = [waiters EXCEPT ![a] = Tail(waiters[a])]
          /\ waiting' = [waiting EXCEPT ![waiters[a][1]] = "over"] /\ UNCHANGED inbox
      BY <1>1, <2>2 DEF Enqueue
    <2>5. QED
      BY <2>2, <2>3, <2>4, WaiterLeaves
  <1>2. CASE waiters[a] = <<>>
    <2>1. /\ UNCHANGED <<waiters, waiting>>
          /\ \A b \in Agents \ {a} : inbox'[b] = inbox[b]
      BY <1>2 DEF Enqueue, TypeOK
    <2>2. QED
      BY <1>2, <2>1 DEF WaitInv, Placed, Blocked, Idle
  <1>3. QED
    BY <1>1, <1>2

LEMMA WaitWaits ==
  ASSUME TypeOK, WaitInv, NEW a \in Agents, NEW w \in Waits, Wait(w, a)
  PROVE  WaitInv'
  <1>1. /\ waiters \in [Agents -> Seq(Waits)] /\ waiting \in [Waits -> {"none", "blocked", "over"}]
        /\ inbox \in [Agents -> Seq(Messages)]
    BY DEF TypeOK
  <1>2. CASE inbox[a] # <<>>
    <2>1. /\ UNCHANGED waiters /\ waiting' = [waiting EXCEPT ![w] = "over"]
          /\ inbox' = [inbox EXCEPT ![a] = <<>>] /\ waiting[w] = "none"
      BY <1>2 DEF Wait
    <2>2. QED
      BY <1>1, <2>1 DEF WaitInv, Placed, Blocked, Idle
  <1>3. CASE inbox[a] = <<>>
    <2>1. /\ waiters' = [waiters EXCEPT ![a] = Append(waiters[a], w)]
          /\ waiting' = [waiting EXCEPT ![w] = "blocked"] /\ UNCHANGED inbox /\ waiting[w] = "none"
      BY <1>3 DEF Wait
    <2>2. ASSUME NEW b \in Agents, NEW j \in 1..Len(waiters'[b])
          PROVE  \/ /\ b = a /\ j = Len(waiters[a]) + 1 /\ waiters'[b][j] = w
                 \/ /\ j \in 1..Len(waiters[b]) /\ waiters'[b][j] = waiters[b][j]
                    /\ waiters[b][j] # w /\ waiters[b][j] \in Waits
      BY <1>1, <2>1 DEF WaitInv, Blocked
    <2>3. Placed'
      <3> SUFFICES ASSUME NEW b \in Agents, NEW c \in Agents, NEW j \in 1..Len(waiters'[b]),
                          NEW k \in 1..Len(waiters'[c]), waiters'[b][j] = waiters'[c][k]
                   PROVE  b = c /\ j = k
        BY DEF Placed
      <3>1. \/ j \in 1..Len(waiters[b]) /\ waiters'[b][j] = waiters[b][j] /\ waiters[b][j] # w
            \/ b = a /\ j = Len(waiters[a]) + 1 /\ waiters'[b][j] = w
        BY <2>2
      <3>2. \/ k \in 1..Len(waiters[c]) /\ waiters'[c][k] = waiters[c][k] /\ waiters[c][k] # w
            \/ c = a /\ k = Len(waiters[a]) + 1 /\ waiters'[c][k] = w
        BY <2>2
      <3>3. QED
        BY <3>1, <3>2 DEF WaitInv, Placed
    <2>4. Blocked'
      BY <1>1, <2>1, <2>2 DEF WaitInv, Blocked
    <2>5. Idle'
      BY <1>1, <1>3, <2>1 DEF WaitInv, Idle
    <2>6. QED
      BY <2>3, <2>4, <2>5 DEF WaitInv
  <1>4. QED
    BY <1>2, <1>3

LEMMA WaitEndsWaits ==
  ASSUME TypeOK, WaitInv, NEW a \in Agents, NEW w \in Waits, WaitEnds(w, a)
  PROVE  WaitInv'
  <1>1. PICK i \in 1..Len(waiters[a]) :
          waiters[a][i] = w /\ waiters' = [waiters EXCEPT ![a] = RemoveAt(waiters[a], i)]
    BY DEF WaitEnds
  <1>2. waiters[a] \in Seq(Waits)
    BY DEF TypeOK
  <1>3. waiting' = [waiting EXCEPT ![waiters[a][i]] = "over"] /\ UNCHANGED inbox
    BY <1>1 DEF WaitEnds
  <1> DEFINE q == RemoveAt(waiters[a], i)
  <1>4. /\ q \in Seq(Waits) /\ Len(q) = Len(waiters[a]) - 1
        /\ \A j \in 1..(Len(waiters[a]) - 1) :
             q[j] = IF j < i THEN waiters[a][j] ELSE waiters[a][j + 1]
    BY <1>2, RemoveAtElements
  <1> HIDE DEF q
  <1>5. waiters' = [waiters EXCEPT ![a] = q]
    BY <1>1 DEF q
  <1>6. QED
    BY <1>3, <1>4, <1>5, WaiterLeaves

LEMMA ForgetWaits ==
  ASSUME TypeOK, WaitInv, NEW a \in Agents, Forget(a)
  PROVE  WaitInv'
  <1>1. /\ waiters \in [Agents -> Seq(Waits)] /\ waiting \in [Waits -> {"none", "blocked", "over"}]
        /\ inbox \in [Agents -> Seq(Messages)]
    BY DEF TypeOK
  <1>2. /\ waiters' = [waiters EXCEPT ![a] = <<>>] /\ inbox' = [inbox EXCEPT ![a] = <<>>]
        /\ \A w \in Waits : w \notin Range(waiters[a]) => waiting'[w] = waiting[w]
    BY DEF Forget
  <1>3. ASSUME NEW b \in Agents, NEW j \in 1..Len(waiters'[b])
        PROVE  b # a /\ waiters'[b] = waiters[b]
    BY <1>1, <1>2
  <1>4. Placed' /\ Idle'
    BY <1>1, <1>2, <1>3 DEF WaitInv, Placed, Idle
  <1>5. Blocked'
    <2> SUFFICES ASSUME NEW b \in Agents, NEW j \in 1..Len(waiters'[b])
                 PROVE  waiting'[waiters'[b][j]] = "blocked"
      BY DEF Blocked
    <2>1. waiters[b][j] \notin Range(waiters[a]) /\ waiters[b][j] \in Waits
      BY <1>1, <1>3 DEF WaitInv, Placed, Range
    <2>2. QED
      BY <2>1, <1>2, <1>3 DEF WaitInv, Blocked
  <1>6. QED
    BY <1>4, <1>5 DEF WaitInv

(* NoLostWakeup, as the invariant has it. *)
LEMMA WaitersServed == TypeOK /\ WaitInv => NoLostWakeup
  <1> SUFFICES ASSUME TypeOK, WaitInv, NEW a \in Agents, NEW w \in Range(waiters[a])
               PROVE  waiting[w] = "blocked"
    BY DEF NoLostWakeup, WaitInv, Idle
  <1>1. PICK i \in DOMAIN waiters[a] : w = waiters[a][i]
    BY DEF Range
  <1>2. DOMAIN waiters[a] = 1..Len(waiters[a])
    BY DEF TypeOK
  <1>3. QED
    BY <1>1, <1>2 DEF WaitInv, Blocked

(* No other step touches waits and inbox. *)
LEMMA NextWaits == TypeOK /\ Routed /\ WaitInv /\ [Next]_vars => WaitInv'
  <1> SUFFICES ASSUME TypeOK, Routed, WaitInv, [Next]_vars PROVE WaitInv'
    OBVIOUS
  <1>1. ASSUME NEW a \in Agents,
               Start(a) \/ WriteLands(a) \/ Expire(a) \/ ReadStale(a) \/ RemoveRead(a)
               \/ Shutdown(a) \/ Closed(a) \/ Beat(a)
        PROVE  WaitInv'
    BY <1>1, WaitsUntouched
       DEF Start, WriteLands, Expire, ReadStale, RemoveRead, Shutdown, Closed, Beat
  <1>2. ASSUME NEW a \in Agents, RecordRemoved(a) \/ Crash(a)
        PROVE  WaitInv'
    BY <1>2, ForgetWaits DEF RecordRemoved, Crash
  <1>3. ASSUME NEW a \in Agents, NEW w \in Waits, Wait(w, a) \/ WaitEnds(w, a)
        PROVE  WaitInv'
    BY <1>3, WaitWaits, WaitEndsWaits
  <1>4. ASSUME NEW m \in Messages, Deliver(m)
        PROVE  WaitInv'
    BY <1>4, EnqueueWaits DEF Deliver, Routed
  <1>5. ASSUME NEW m \in Messages, PostFails(m) \/ \E a, b \in Agents : Send(m, a, b) \/ Ask(m, a, b)
        PROVE  WaitInv'
    BY <1>5, WaitsUntouched DEF PostFails, Send, Ask
  <1>6. ASSUME NEW r \in Asks, AskTimesOut(r) \/ AskAborted(r) \/ Monitor(r) \/ CancelEnds(r)
        PROVE  WaitInv'
    BY <1>6, WaitsUntouched DEF AskTimesOut, AskAborted, GiveUp, Monitor, CancelEnds
  <1>7. ASSUME NEW r \in Asks, NEW i \in Replies,
               Reply(r, i) \/ DeliverReply(r, i) \/ ReplyFails(r, i) \/ ReplyAccepted(r, i)
        PROVE  WaitInv'
    BY <1>7, WaitsUntouched DEF Reply, DeliverReply, ReplyFails, ReplyAccepted
  <1>8. CASE UNCHANGED vars
    BY <1>8, WaitsUntouched DEF vars
  <1>9. QED
    BY <1>1, <1>2, <1>3, <1>4, <1>5, <1>6, <1>7, <1>8 DEF Next, Execute, Messages

-----------------------------------------------------------------------------
(* Types. *)
LEMMA EnqueueTyped ==
  ASSUME TypeOK, NEW a \in Agents, NEW m \in Messages, Enqueue(a, m)
  PROVE  /\ inbox' \in [Agents -> Seq(Messages)]
         /\ \A b \in Agents : Len(inbox'[b]) <= InboxCap
         /\ waiters' \in [Agents -> Seq(Waits)]
         /\ waiting' \in [Waits -> {"none", "blocked", "over"}]
  <1>1. /\ waiters \in [Agents -> Seq(Waits)] /\ waiting \in [Waits -> {"none", "blocked", "over"}]
        /\ inbox \in [Agents -> Seq(Messages)] /\ \A b \in Agents : Len(inbox[b]) <= InboxCap
    BY DEF TypeOK
  <1>2. CASE waiters[a] # <<>>
    <2>1. /\ waiting' = [waiting EXCEPT ![Head(waiters[a])] = "over"]
          /\ waiters' = [waiters EXCEPT ![a] = Tail(waiters[a])] /\ UNCHANGED inbox
      BY <1>2 DEF Enqueue
    <2>2. waiters[a] \in Seq(Waits)
      BY <1>1
    <2>3. Tail(waiters[a]) \in Seq(Waits)
      BY <1>2, <2>2, TailIsRemoval
    <2>4. QED
      BY <1>1, <2>1, <2>3
  <1>3. CASE waiters[a] = <<>>
    <2> DEFINE q == IF Len(inbox[a]) < InboxCap THEN Append(inbox[a], m) ELSE Append(Tail(inbox[a]), m)
    <2>1. inbox' = [inbox EXCEPT ![a] = q] /\ UNCHANGED <<waiters, waiting>>
      BY <1>3 DEF Enqueue
    <2>2. q \in Seq(Messages) /\ Len(q) <= InboxCap
      <3>1. inbox[a] \in Seq(Messages) /\ Len(inbox[a]) \in Nat /\ InboxCap \in Nat \ {0}
        BY <1>1, InboxAssumption
      <3>2. CASE Len(inbox[a]) < InboxCap
        BY <3>1, <3>2
      <3>3. CASE ~(Len(inbox[a]) < InboxCap)
        <4>1. Len(inbox[a]) = InboxCap /\ inbox[a] # <<>>
          BY <1>1, <3>1, <3>3
        <4>2. Tail(inbox[a]) \in Seq(Messages) /\ Len(Tail(inbox[a])) = InboxCap - 1
          BY <3>1, <4>1, TailIsRemoval
        <4>3. QED
          BY <3>1, <3>3, <4>2
      <3>4. QED
        BY <3>2, <3>3
    <2>3. QED
      BY <1>1, <2>1, <2>2
  <1>4. QED
    BY <1>2, <1>3

LEMMA RegistryTyped ==
  ASSUME TypeOK, NEW a \in Agents,
         Start(a) \/ Beat(a) \/ WriteLands(a) \/ Expire(a) \/ ReadStale(a) \/ RemoveRead(a)
         \/ Shutdown(a) \/ Closed(a)
  PROVE  TypeOK'
  <1> USE DEF TypeOK, Statuses, inboxVars, routeVars, askVars
  <1>1. CASE Start(a) \/ Beat(a)
    BY <1>1 DEF Start, Beat
  <1>2. CASE WriteLands(a)
    BY <1>2 DEF WriteLands
  <1>3. CASE Expire(a) \/ ReadStale(a) \/ RemoveRead(a)
    BY <1>3 DEF Expire, ReadStale, RemoveRead
  <1>4. CASE Shutdown(a) \/ Closed(a)
    BY <1>4 DEF Shutdown, Closed
  <1>5. QED
    BY <1>1, <1>2, <1>3, <1>4

LEMMA ForgetTyped ==
  ASSUME TypeOK, NEW a \in Agents, RecordRemoved(a) \/ Crash(a)
  PROVE  TypeOK'
  <1>1. /\ waiters' = [waiters EXCEPT ![a] = <<>>] /\ inbox' = [inbox EXCEPT ![a] = <<>>]
        /\ waiting' = [w \in Waits |-> IF w \in Range(waiters[a]) THEN "over" ELSE waiting[w]]
        /\ ask' = [r \in Asks |-> IF from[r] = a /\ ask[r] = "open" THEN "failed" ELSE ask[r]]
        /\ pending' = {r \in pending : to[r] # a}
        /\ UNCHANGED <<routeVars, wire, cancel, reply>>
    BY DEF RecordRemoved, Crash, Forget
  <1>2. /\ status' \in [Agents -> Statuses] /\ record' \in [Agents -> {"absent", "fresh", "stale"}]
        /\ writing' \subseteq Agents /\ doomed' \subseteq Agents
    BY DEF TypeOK, Statuses, RecordRemoved, Crash
  <1>3. /\ inbox' \in [Agents -> Seq(Messages)]
        /\ waiters' \in [Agents -> Seq(Waits)]
        /\ \A b \in Agents : Len(inbox'[b]) <= InboxCap
    BY <1>1, InboxAssumption DEF TypeOK
  <1>4. waiting' \in [Waits -> {"none", "blocked", "over"}]
    BY <1>1 DEF TypeOK
  <1>5. QED
    BY <1>1, <1>2, <1>3, <1>4 DEF TypeOK, routeVars

LEMMA WaitTyped ==
  ASSUME TypeOK, NEW a \in Agents, NEW w \in Waits, Wait(w, a) \/ WaitEnds(w, a)
  PROVE  TypeOK'
  <1>1. /\ waiters \in [Agents -> Seq(Waits)] /\ waiting \in [Waits -> {"none", "blocked", "over"}]
        /\ inbox \in [Agents -> Seq(Messages)] /\ \A b \in Agents : Len(inbox[b]) <= InboxCap
    BY DEF TypeOK
  <1>2. waiting' \in [Waits -> {"none", "blocked", "over"}]
    BY <1>1 DEF Wait, WaitEnds
  <1>3. inbox' \in [Agents -> Seq(Messages)] /\ \A b \in Agents : Len(inbox'[b]) <= InboxCap
    <2>1. inbox' = inbox \/ inbox' = [inbox EXCEPT ![a] = <<>>]
      BY DEF Wait, WaitEnds
    <2>2. <<>> \in Seq(Messages) /\ Len(<<>>) <= InboxCap
      BY InboxAssumption
    <2>3. QED
      BY <1>1, <2>1, <2>2
  <1>4. waiters' \in [Agents -> Seq(Waits)]
    <2>1. CASE Wait(w, a)
      <3>1. waiters' = waiters \/ waiters' = [waiters EXCEPT ![a] = Append(waiters[a], w)]
        BY <2>1 DEF Wait
      <3>2. Append(waiters[a], w) \in Seq(Waits)
        BY <1>1
      <3>3. QED
        BY <1>1, <3>1, <3>2
    <2>2. CASE WaitEnds(w, a)
      <3>1. PICK i \in 1..Len(waiters[a]) : waiters' = [waiters EXCEPT ![a] = RemoveAt(waiters[a], i)]
        BY <2>2 DEF WaitEnds
      <3>2. RemoveAt(waiters[a], i) \in Seq(Waits)
        BY <1>1, RemoveAtElements
      <3>3. QED
        BY <1>1, <3>1, <3>2
    <2>3. QED
      BY <2>1, <2>2
  <1>5. QED
    BY <1>2, <1>3, <1>4 DEF TypeOK, Wait, WaitEnds, registryVars, routeVars, askVars

LEMMA MessageTyped ==
  ASSUME TypeOK, Routed, NEW m \in Messages,
         \/ Deliver(m) \/ PostFails(m)
         \/ \E a, b \in Agents : Send(m, a, b) \/ (m \in Asks /\ Ask(m, a, b))
  PROVE  TypeOK'
  <1> USE DEF registryVars, inboxVars, routeVars, askVars
  <1>1. CASE Deliver(m)
    <2>1. to[m] \in Agents
      BY <1>1 DEF Deliver, Routed
    <2>2. /\ inbox' \in [Agents -> Seq(Messages)]
          /\ \A b \in Agents : Len(inbox'[b]) <= InboxCap
          /\ waiters' \in [Agents -> Seq(Waits)]
          /\ waiting' \in [Waits -> {"none", "blocked", "over"}]
      BY <1>1, <2>1, EnqueueTyped DEF Deliver
    <2>3. wire' \in [Messages -> {"none", "sent", "handled", "lost"}] /\ pending' \subseteq Asks
      BY <1>1 DEF Deliver, TypeOK
    <2>4. UNCHANGED <<registryVars, routeVars, ask, cancel, reply>>
      BY <1>1 DEF Deliver
    <2>5. QED
      BY <2>2, <2>3, <2>4 DEF TypeOK
  <1>2. CASE PostFails(m)
    BY <1>2 DEF PostFails, TypeOK
  <1>3. ASSUME NEW a \in Agents, NEW b \in Agents, Send(m, a, b)
        PROVE  TypeOK'
    BY <1>3 DEF Send, TypeOK
  <1>4. ASSUME NEW a \in Agents, NEW b \in Agents, m \in Asks, Ask(m, a, b)
        PROVE  TypeOK'
    BY <1>4 DEF Ask, TypeOK
  <1>5. QED
    BY <1>1, <1>2, <1>3, <1>4

LEMMA AskTyped ==
  ASSUME TypeOK, NEW r \in Asks,
         AskTimesOut(r) \/ AskAborted(r) \/ Monitor(r) \/ CancelEnds(r)
  PROVE  TypeOK'
  BY DEF AskTimesOut, AskAborted, GiveUp, Monitor, CancelEnds, TypeOK, Messages, registryVars,
         inboxVars, routeVars

LEMMA ReplyTyped ==
  ASSUME TypeOK, NEW r \in Asks, NEW i \in Replies,
         Reply(r, i) \/ DeliverReply(r, i) \/ ReplyFails(r, i) \/ ReplyAccepted(r, i)
  PROVE  TypeOK'
  <1> USE DEF registryVars, inboxVars, routeVars
  <1>1. PICK s \in {"posted", "late", "accepted", "over"} : reply' = [reply EXCEPT ![r][i] = s]
    BY DEF Reply, DeliverReply, ReplyFails, ReplyAccepted
  <1>2. reply' \in [Asks -> [Replies -> {"none", "posted", "late", "accepted", "over"}]]
    BY <1>1 DEF TypeOK
  <1>3. ask' \in [Asks -> {"none", "open", "answered", "failed"}] /\ pending' \subseteq Asks
    BY DEF Reply, DeliverReply, ReplyFails, ReplyAccepted, TypeOK
  <1>4. UNCHANGED <<registryVars, inboxVars, routeVars, wire, cancel>>
    BY DEF Reply, DeliverReply, ReplyFails, ReplyAccepted
  <1>5. QED
    BY <1>2, <1>3, <1>4 DEF TypeOK

LEMMA NextTyped == TypeOK /\ Routed /\ [Next]_vars => TypeOK'
  <1> SUFFICES ASSUME TypeOK, Routed, [Next]_vars PROVE TypeOK'
    OBVIOUS
  <1>1. CASE UNCHANGED vars
    BY <1>1 DEF vars, registryVars, inboxVars, routeVars, askVars, TypeOK
  <1>2. ASSUME NEW a \in Agents, Execute(a) PROVE TypeOK'
    BY <1>2, RegistryTyped, WaitTyped, MessageTyped, ReplyTyped DEF Execute, Messages
  <1>3. QED
    BY <1>1, <1>2, RegistryTyped, ForgetTyped, WaitTyped, MessageTyped, AskTyped, ReplyTyped DEF Next

-----------------------------------------------------------------------------
(* Asks.  What the steps of a process leave of them.                       *)
LEMMA AsksUntouched ==
  ASSUME Routed, AskInv, UNCHANGED <<routeVars, wire, askVars>>,
         \A a \in Agents : Remembers(a)' => Remembers(a)
  PROVE  Routed' /\ AskInv'
  <1>1. Routed' /\ Unposted' /\ PendingHandled' /\ WithdrawnSettled' /\ ReplySettles'
    BY DEF AskInv, Routed, Unposted, PendingHandled, WithdrawnSettled, ReplySettles, routeVars, askVars
  <1>2. Owed'
    BY DEF AskInv, Owed, Routed, Messages, routeVars, askVars
  <1>3. QED
    BY <1>1, <1>2 DEF AskInv

LEMMA RegistryAsks ==
  ASSUME TypeOK, Routed, AskInv, NEW a \in Agents,
         Start(a) \/ Beat(a) \/ WriteLands(a) \/ Expire(a) \/ ReadStale(a) \/ RemoveRead(a)
         \/ Shutdown(a) \/ Closed(a) \/ \E w \in Waits : Wait(w, a) \/ WaitEnds(w, a)
  PROVE  Routed' /\ AskInv'
  <1>1. UNCHANGED <<routeVars, wire, askVars>>
    BY DEF Start, Beat, WriteLands, Expire, ReadStale, RemoveRead, Shutdown, Closed, Wait, WaitEnds
  <1>2. \A b \in Agents : Remembers(b)' => Remembers(b)
    BY DEF Start, Beat, WriteLands, Expire, ReadStale, RemoveRead, Shutdown, Closed, Wait, WaitEnds,
           registryVars, Remembers, TypeOK
  <1>3. QED
    BY <1>1, <1>2, AsksUntouched

LEMMA ForgetAsks ==
  ASSUME TypeOK, Routed, AskInv, NEW a \in Agents, RecordRemoved(a) \/ Crash(a)
  PROVE  Routed' /\ AskInv'
  <1>1. /\ ask' = [r \in Asks |-> IF from[r] = a /\ ask[r] = "open" THEN "failed" ELSE ask[r]]
        /\ pending' = {r \in pending : to[r] # a}
        /\ UNCHANGED <<routeVars, wire, cancel, reply>>
        /\ ~Remembers(a)' /\ \A b \in Agents : Remembers(b)' => Remembers(b)
    BY DEF RecordRemoved, Crash, Forget, Listening, Remembers, TypeOK
  <1>2. Routed' /\ Unposted' /\ PendingHandled' /\ WithdrawnSettled' /\ ReplySettles'
    BY <1>1 DEF AskInv, Routed, Unposted, PendingHandled, WithdrawnSettled, ReplySettles, routeVars,
                TypeOK
  <1>3. Owed'
    BY <1>1 DEF AskInv, Owed, Routed, Messages, routeVars
  <1>4. QED
    BY <1>2, <1>3 DEF AskInv

LEMMA MessageAsks ==
  ASSUME TypeOK, Routed, AskInv, NEW m \in Messages,
         \/ Deliver(m) \/ PostFails(m)
         \/ \E a, b \in Agents : Send(m, a, b) \/ (m \in Asks /\ Ask(m, a, b))
  PROVE  Routed' /\ AskInv'
  <1> USE DEF AskInv, Routed, Unposted, PendingHandled, WithdrawnSettled, ReplySettles, Owed,
              Remembers, registryVars, routeVars, TypeOK, Messages
  <1>1. CASE Deliver(m)
    BY <1>1 DEF Deliver
  <1>2. CASE PostFails(m)
    BY <1>2 DEF PostFails
  <1>3. ASSUME NEW a \in Agents, NEW b \in Agents, Send(m, a, b)
        PROVE  Routed' /\ AskInv'
    BY <1>3 DEF Send, askVars
  <1>4. ASSUME NEW a \in Agents, NEW b \in Agents, m \in Asks, Ask(m, a, b)
        PROVE  Routed' /\ AskInv'
    BY <1>4 DEF Ask
  <1>5. QED
    BY <1>1, <1>2, <1>3, <1>4

LEMMA AskAsks ==
  ASSUME TypeOK, Routed, AskInv, NEW r \in Asks,
         AskTimesOut(r) \/ AskAborted(r) \/ Monitor(r) \/ CancelEnds(r)
  PROVE  Routed' /\ AskInv'
  <1> USE DEF AskInv, Routed, Unposted, PendingHandled, WithdrawnSettled, ReplySettles, Owed,
              Remembers, registryVars, routeVars, TypeOK, Messages
  <1>1. CASE AskTimesOut(r)
    BY <1>1 DEF AskTimesOut, GiveUp
  <1>2. CASE AskAborted(r)
    BY <1>2 DEF AskAborted, GiveUp
  <1>3. CASE Monitor(r)
    BY <1>3 DEF Monitor
  <1>4. CASE CancelEnds(r)
    BY <1>4 DEF CancelEnds
  <1>5. QED
    BY <1>1, <1>2, <1>3, <1>4

LEMMA ReplyAsks ==
  ASSUME TypeOK, Routed, AskInv, NEW r \in Asks, NEW i \in Replies,
         Reply(r, i) \/ DeliverReply(r, i) \/ ReplyFails(r, i) \/ ReplyAccepted(r, i)
  PROVE  Routed' /\ AskInv'
  <1> USE DEF AskInv, Routed, Unposted, PendingHandled, WithdrawnSettled, ReplySettles, Owed,
              Remembers, registryVars, routeVars, TypeOK, Messages
  <1>1. CASE Reply(r, i)
    BY <1>1 DEF Reply
  <1>2. CASE DeliverReply(r, i)
    BY <1>2 DEF DeliverReply
  <1>3. CASE ReplyFails(r, i)
    <2>1. PICK s \in {"late", "over"} : reply' = [reply EXCEPT ![r][i] = s]
      BY <1>3 DEF ReplyFails
    <2>2. wire[r] # "none" /\ UNCHANGED <<registryVars, routeVars, wire, ask, pending, cancel>>
      BY <1>3 DEF ReplyFails
    <2>3. QED
      BY <2>1, <2>2
  <1>4. CASE ReplyAccepted(r, i)
    BY <1>4 DEF ReplyAccepted
  <1>5. QED
    BY <1>1, <1>2, <1>3, <1>4

LEMMA NextAsks == TypeOK /\ Routed /\ AskInv /\ [Next]_vars => Routed' /\ AskInv'
  <1> SUFFICES ASSUME TypeOK, Routed, AskInv, [Next]_vars PROVE Routed' /\ AskInv'
    OBVIOUS
  <1>1. CASE UNCHANGED vars
    BY <1>1, AsksUntouched DEF vars, registryVars, Remembers
  <1>2. ASSUME NEW a \in Agents, Execute(a) PROVE Routed' /\ AskInv'
    BY <1>2, RegistryAsks, MessageAsks, ReplyAsks DEF Execute, Messages
  <1>3. QED
    BY <1>1, <1>2, RegistryAsks, ForgetAsks, MessageAsks, AskAsks, ReplyAsks DEF Next

-----------------------------------------------------------------------------
LEMMA InitInv == Init => IInv
  <1> SUFFICES ASSUME Init PROVE IInv
    OBVIOUS
  <1>1. TypeOK
    BY InboxAssumption DEF Init, TypeOK, Statuses
  <1>2. WaitInv
    BY DEF Init, WaitInv, Placed, Blocked, Idle
  <1>3. Routed /\ AskInv
    BY DEF Init, Routed, AskInv, Unposted, PendingHandled, WithdrawnSettled, Owed, ReplySettles
  <1>4. QED
    BY <1>1, <1>2, <1>3 DEF IInv

(* Where everybody and everything stands, at every moment.                 *)
THEOREM Invariance == Spec => []IInv
  <1>1. IInv /\ [Next]_vars => IInv'
    BY NextTyped, NextWaits, NextAsks DEF IInv
  <1>2. QED
    BY InitInv, <1>1, PTL DEF Spec

(* Records, queues, messages and calls keep their types, and no inbox      *)
(* outgrows its cap.                                                       *)
THEOREM TypeCorrect == Spec => []TypeOK
  <1>1. IInv => TypeOK
    BY DEF IInv
  <1>2. QED
    BY <1>1, Invariance, PTL

(* No wake-up of a blocked `wait' is lost, and no ask that is owed an      *)
(* answer is forgotten, whatever fails, times out or dies.                 *)
THEOREM ArrivalsKept == Spec => []NothingArrivedIsLost
  <1>1. IInv => NothingArrivedIsLost
    <2> SUFFICES ASSUME IInv PROVE NothingArrivedIsLost
      OBVIOUS
    <2>1. NoLostWakeup
      BY WaitersServed DEF IInv
    <2>2. OwedUntilAnswered
      BY DEF IInv, AskInv, Owed, OwedUntilAnswered, Remembers
    <2>3. QED
      BY <2>1, <2>2 DEF NothingArrivedIsLost
  <1>2. QED
    BY <1>1, Invariance, PTL

(* A reply is acknowledged to its sender only when the ask is settled.     *)
THEOREM AcknowledgedSettles == Spec => []ReplySettles
  <1>1. IInv => ReplySettles
    BY DEF IInv, AskInv
  <1>2. QED
    BY <1>1, Invariance, PTL
=============================================================================
