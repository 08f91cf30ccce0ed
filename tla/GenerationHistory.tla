-------------------------- MODULE GenerationHistory -------------------------
(***************************************************************************)
(* What a Conversation (packages/subagent/src/conversation.ts) promises to *)
(* those who hold a reference to one of its generations: the generations   *)
(* are numbered and appended one at a time, a generation goes from queued  *)
(* through running to one final outcome, and the next one starts only once *)
(* the result of the last was collected and nobody observes it any more.   *)
(* Nothing is said of executions, aborts, sessions or steering.            *)
(***************************************************************************)
EXTENDS Integers, FiniteSets

CONSTANTS
  MaxGenerations,   \* how many generations may be started
  Outcomes,         \* how a generation may end
  Observers         \* who may bind a generation

VARIABLES
  latest,     \* the number of the latest generation
  status,     \* of each generation
  joined,     \* the generations whose result was collected
  observes    \* the generation each observer is bound to, 0 when none

historyVars == <<latest, status, joined, observes>>

Init ==
  /\ latest = 1
  /\ status = [g \in 1..MaxGenerations |-> IF g = 1 THEN "queued" ELSE "absent"]
  /\ joined = {}
  /\ observes = [o \in Observers |-> 0]

Run ==
  /\ status[latest] = "queued"
  /\ status' = [status EXCEPT ![latest] = "running"]
  /\ UNCHANGED <<latest, joined, observes>>

End(outcome) ==
  /\ status[latest] \in {"queued", "running"}
  /\ status' = [status EXCEPT ![latest] = outcome]
  /\ UNCHANGED <<latest, joined, observes>>

Observe(o) ==
  /\ observes[o] = 0
  /\ observes' = [observes EXCEPT ![o] = latest]
  /\ UNCHANGED <<latest, status, joined>>

(* An observer leaves, with the result or without. *)
Leave(o) ==
  /\ observes[o] # 0
  /\ observes' = [observes EXCEPT ![o] = 0]
  /\ \/ joined' = joined
     \/ status[observes[o]] \in Outcomes /\ joined' = joined \cup {observes[o]}
  /\ UNCHANGED <<latest, status>>

Append ==
  /\ latest < MaxGenerations
  /\ status[latest] \in Outcomes /\ latest \in joined
  /\ \A o \in Observers : observes[o] # latest
  /\ latest' = latest + 1
  /\ status' = [status EXCEPT ![latest + 1] = "queued"]
  /\ UNCHANGED <<joined, observes>>

Next ==
  \/ Run \/ Append
  \/ \E outcome \in Outcomes : End(outcome)
  \/ \E o \in Observers : Observe(o) \/ Leave(o)

Spec == Init /\ [][Next]_historyVars
=============================================================================
