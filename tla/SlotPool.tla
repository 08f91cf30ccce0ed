------------------------------ MODULE SlotPool ------------------------------
(***************************************************************************)
(* What the execution queue of packages/subagent/src/scheduler.ts promises *)
(* its clients: a pool of at most `limit' slots that are handed out in the *)
(* order in which they were asked for.  A client holds a slot, waits for   *)
(* one, or neither.  Nothing is said of tasks, leases or counters.         *)
(***************************************************************************)
EXTENDS Integers, Sequences, FiniteSets, SequencesExt

CONSTANTS
  Clients,   \* who may hold a slot
  Limits     \* the sizes the pool may be given

VARIABLES
  holders,   \* the clients that hold a slot
  waiting,   \* the clients that wait for one, first come first
  limit      \* the size of the pool

poolVars == <<holders, waiting, limit>>

(* Hands out what is left of the pool, once h hold slots and q wait. *)
Grant(h, q) ==
  \E n \in 0..Len(q) :
    /\ n = 0 \/ Cardinality(h) + n <= limit
    /\ n = Len(q) \/ Cardinality(h) + n >= limit
    /\ holders' = h \cup {q[i] : i \in 1..n}
    /\ waiting' = SubSeq(q, n + 1, Len(q))
    /\ limit' = limit

Init ==
  /\ holders = {}
  /\ waiting = <<>>
  /\ limit \in Limits

Request(c) ==
  /\ c \notin holders \cup Range(waiting)
  /\ Grant(holders, Append(waiting, c))

Release(c) ==
  /\ c \in holders
  /\ Grant(holders \ {c}, waiting)

(* A waiting client gives up; nobody moves into a slot because of it. *)
Withdraw(c) ==
  /\ \E i \in 1..Len(waiting) : waiting[i] = c /\ waiting' = RemoveAt(waiting, i)
  /\ UNCHANGED <<holders, limit>>

(* The pool may be resized while slots are held, and it is not refilled    *)
(* until the next operation looks at it (Refill).                          *)
Resize(n) ==
  /\ limit' = n
  /\ UNCHANGED <<holders, waiting>>

Refill == Grant(holders, waiting)

Next ==
  \/ \E c \in Clients : Request(c) \/ Release(c) \/ Withdraw(c)
  \/ \E n \in Limits : Resize(n)
  \/ Refill

Spec == Init /\ [][Next]_poolVars
=============================================================================
