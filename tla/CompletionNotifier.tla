------------------------- MODULE CompletionNotifier -------------------------
(***************************************************************************)
(* CompletionNotifier of packages/subagent/src/notifications.ts: tells the *)
(* model of a finished generation, unless it saw the result already.       *)
(*                                                                         *)
(* It listens to the runtime, to the host's events and to the subagent     *)
(* tool, and works from one retry timer, one grace timer and the entries   *)
(* it leaves on the branch of the session.  A generation is announced when *)
(* flush() finds it finished and neither delivered, observed, claimed by a *)
(* tool call under way, in its grace period, joined nor being joined.      *)
(* Every handler runs to completion; only the promise of sendMessage() and *)
(* the two timers come back later, a promise even in a later session.      *)
(***************************************************************************)
EXTENDS Integers, FiniteSets

CONSTANTS
  Subagents,       \* the conversations of the runtime
  MaxGeneration,   \* bounds the resumes of each
  Calls,           \* the invocations of the subagent tool that may overlap
  Modes,           \* the values of the setting `notify'
  MaxFailures,     \* bounds the deliveries the host refuses
  MaxSessions      \* bounds the sessions of this process

ASSUME NotifierAssumption ==
  /\ Modes \subseteq {"auto", "steer", "none"}
  /\ MaxGeneration \in Nat \ {0} /\ MaxFailures \in Nat /\ MaxSessions \in Nat

(* generationKey(). *)
Keys == Subagents \X (1..MaxGeneration)

VARIABLES
  gen, state,       \* the latest generation of each subagent and its state
  joined,           \* was its result collected?
  observers,        \* the subagents whose result a join waits for
  mode, idle, ctx,  \* the setting; is the agent idle; is a session open?
  sessions,         \* the sessions opened so far
  armed,            \* is the retry timer set?
  toolOpportunity,  \* retryToolOpportunity
  graceArmed,       \* is the grace timer set?
  gracePending, delivered, observed, pendingDelivered, migrationPending,
  claims,           \* claimsByInvocation: the action and the keys of each call
  sent,             \* the promises of sendMessage() that are not settled
  failures,         \* the deliveries refused so far
  markers, migrated, indexed,  \* what the entries of the branch say
  announced,        \* history: the deliveries of each key, less those refused later
  forgotten,        \* history: those of them that no entry of the branch tells of
  seen              \* history: what `inspect' and `cancel' showed in this session

runtimeVars == <<gen, state, joined, observers>>
hostVars == <<mode, idle, ctx, sessions>>
timerVars == <<armed, toolOpportunity, graceArmed>>
branchVars == <<markers, migrated, indexed>>
markVars == <<gracePending, delivered, observed, pendingDelivered, migrationPending>>
sendVars == <<sent, failures, announced, forgotten>>
vars == <<runtimeVars, hostVars, timerVars, branchVars, markVars, claims, sendVars, seen>>

NoClaim == [action |-> "none", keys |-> {}]

(* "inspect" stands for `cancel' too: both show the result.                *)
Actions == {"inspect", "join"}

TypeOK ==
  /\ gen \in [Subagents -> 0..MaxGeneration]
  /\ state \in [Subagents -> {"none", "running", "done", "removed"}]
  /\ joined \subseteq Subagents /\ observers \subseteq Subagents
  /\ mode \in Modes /\ idle \in BOOLEAN /\ ctx \in BOOLEAN /\ sessions \in 0..MaxSessions
  /\ armed \in BOOLEAN /\ toolOpportunity \in BOOLEAN /\ graceArmed \in BOOLEAN
  /\ toolOpportunity => armed
  /\ gracePending \subseteq Keys /\ delivered \subseteq Keys /\ observed \subseteq Keys
  /\ pendingDelivered \subseteq Keys /\ migrationPending \in BOOLEAN
  /\ claims \in [Calls -> [action : Actions \cup {"none"}, keys : SUBSET Keys]]
  /\ sent \subseteq [keys : SUBSET Keys, session : 0..MaxSessions]
  /\ failures \in 0..MaxFailures
  /\ markers \subseteq Keys /\ migrated \in BOOLEAN /\ indexed \subseteq Keys
  /\ announced \in [Keys -> Int] /\ forgotten \in [Keys -> Int]
  /\ seen \subseteq Keys

Init ==
  /\ gen = [s \in Subagents |-> 0] /\ state = [s \in Subagents |-> "none"]
  /\ joined = {} /\ observers = {}
  /\ mode \in Modes /\ idle = TRUE /\ ctx = FALSE /\ sessions = 0
  /\ armed = FALSE /\ toolOpportunity = FALSE /\ graceArmed = FALSE
  /\ gracePending = {} /\ delivered = {} /\ observed = {}
  /\ pendingDelivered = {} /\ migrationPending = FALSE
  /\ claims = [c \in Calls |-> NoClaim]
  /\ sent = {} /\ failures = 0
  /\ markers = {} /\ migrated = FALSE /\ indexed = {}
  /\ announced = [k \in Keys |-> 0] /\ forgotten = [k \in Keys |-> 0] /\ seen = {}

(* The generation of s that the catalog shows. *)
Key(s) == <<s, gen[s]>>

Claimed(k) == \E c \in Calls : k \in claims[c].keys

(* The finished generations nobody has seen, is about to see, or is told.  *)
Candidates ==
  {Key(s) : s \in {s \in Subagents :
     /\ state[s] = "done" /\ s \notin joined \cup observers
     /\ Key(s) \notin observed /\ ~Claimed(Key(s))}}

(* arm(): a timer that is set stays set, but remembers the opportunity. *)
Arm(opportunity) ==
  /\ armed' = TRUE
  /\ toolOpportunity' = (toolOpportunity \/ opportunity)

(* flushPendingMarkers(): any append may fail, and what failed is kept;    *)
(* `earlier' were tried once already before the others were added.         *)
FlushMarkers(pd, earlier, migration) ==
  /\ \E kept \in SUBSET pd :
       /\ pendingDelivered' = kept
       /\ markers' = markers \cup (pd \ kept)
       /\ \E done \in {FALSE, migration /\ kept \cap earlier = {}} :
            /\ migrationPending' = (migration /\ ~done)
            /\ migrated' = (migrated \/ done)
  /\ UNCHANGED indexed

-----------------------------------------------------------------------------
(* The runtime: updates of conversations, as onUpdate() sees them.         *)

(* A generation is launched or resumed. *)
Begin(s) ==
  /\ ctx /\ state[s] \in {"none", "done"} /\ gen[s] < MaxGeneration
  /\ gen' = [gen EXCEPT ![s] = @ + 1]
  /\ state' = [state EXCEPT ![s] = "running"]
  /\ joined' = joined \ {s} /\ observers' = observers \ {s}
  /\ Arm(FALSE)
  /\ UNCHANGED <<hostVars, graceArmed, branchVars, markVars, claims, sendVars, seen>>

(* It finishes: its grace period begins, or joins the one under way. *)
Finish(s) ==
  /\ ctx /\ state[s] = "running"
  /\ state' = [state EXCEPT ![s] = "done"]
  /\ indexed' = indexed \cup {Key(s)}
  /\ IF Key(s) \in delivered \cup observed
     THEN UNCHANGED <<gracePending, graceArmed>>
     ELSE gracePending' = gracePending \cup {Key(s)} /\ graceArmed' = TRUE
  /\ Arm(FALSE)
  /\ UNCHANGED <<gen, joined, observers, hostVars, markers, migrated, delivered, observed,
                 pendingDelivered, migrationPending, claims, sendVars, seen>>

(* A join begins or ceases to wait for the result. *)
Observe(s) ==
  /\ ctx /\ state[s] \in {"running", "done"} /\ s \notin joined
  /\ observers' = IF s \in observers THEN observers \ {s} ELSE observers \cup {s}
  /\ Arm(FALSE)
  /\ UNCHANGED <<gen, state, joined, hostVars, graceArmed, branchVars, markVars, claims,
                 sendVars, seen>>

(* The result is collected, or the conversation removed. *)
Collect(s) ==
  /\ ctx /\ state[s] = "done"
  /\ \/ joined' = joined \cup {s} /\ UNCHANGED state
     \/ state' = [state EXCEPT ![s] = "removed"] /\ UNCHANGED joined
  /\ Arm(FALSE)
  /\ UNCHANGED <<gen, observers, hostVars, graceArmed, branchVars, markVars, claims,
                 sendVars, seen>>

-----------------------------------------------------------------------------
(* The subagent tool, of the session and of its children.                  *)

(* beginTool(): the call claims the current generation of its targets. *)
BeginTool(c, action, targets) ==
  /\ ctx /\ claims[c] = NoClaim /\ targets # {}
  /\ \A s \in targets : state[s] \in {"running", "done"}
  /\ claims' = [claims EXCEPT ![c] = [action |-> action, keys |-> {Key(s) : s \in targets}]]
  /\ UNCHANGED <<runtimeVars, hostVars, timerVars, branchVars, markVars, sendVars, seen>>

(* What the result of call c shows: the current generations of those       *)
(* subagents, among the ones it claimed, that are finished.                *)
Shown(c, targets) ==
  IF claims[c].action = "join" THEN {}
  ELSE {Key(s) : s \in {s \in targets : /\ \E k \in claims[c].keys : k[1] = s
                                        /\ state[s] = "done"}}

(* Mistake: only the claim ends, and what was shown is not recorded. *)
CompleteToolUnrecorded(c, targets) ==
  /\ ctx /\ claims[c] # NoClaim
  /\ seen' = seen \cup Shown(c, targets)
  /\ claims' = [claims EXCEPT ![c] = NoClaim]
  /\ Arm(FALSE)
  /\ UNCHANGED <<runtimeVars, hostVars, graceArmed, branchVars, markVars, sendVars>>

(* completeTool(). *)
CompleteTool(c, targets) ==
  /\ ctx /\ claims[c] # NoClaim
  /\ observed' = observed \cup Shown(c, targets)
  /\ seen' = seen \cup Shown(c, targets)
  /\ delivered' = delivered \cup {k \in claims[c].keys : k = Key(k[1]) /\ k[1] \in joined}
  /\ claims' = [claims EXCEPT ![c] = NoClaim]
  /\ Arm(FALSE)
  /\ UNCHANGED <<runtimeVars, hostVars, graceArmed, branchVars, gracePending,
                 pendingDelivered, migrationPending, sendVars>>

(* onToolStart() of a call that claims nothing and is not a `list'. *)
ToolStart ==
  /\ ctx
  /\ Arm(TRUE)
  /\ UNCHANGED <<runtimeVars, hostVars, graceArmed, branchVars, markVars, claims, sendVars,
                 seen>>

-----------------------------------------------------------------------------
(* Delivery.                                                               *)

(* The batch flush() sends now; empty if it has to wait. *)
Batch(opportunity) ==
  IF \/ ~ctx \/ mode = "none"
     \/ mode = "auto" /\ ~idle
     \/ mode = "steer" /\ ~opportunity /\ ~idle
  THEN {} ELSE Candidates \ (delivered \cup gracePending)

(* sendMessage() hands back a promise. *)
SentLater(E) ==
  /\ sent' = sent \cup {[keys |-> E, session |-> sessions]}
  /\ delivered' = delivered \cup E
  /\ announced' = [k \in Keys |-> IF k \in E THEN announced[k] + 1 ELSE announced[k]]
  /\ UNCHANGED <<failures, forgotten>>

(* sendMessage() returns. *)
SentAtOnce(E) ==
  /\ delivered' = delivered \cup E
  /\ announced' = [k \in Keys |-> IF k \in E THEN announced[k] + 1 ELSE announced[k]]
  /\ UNCHANGED <<sent, failures, forgotten>>

(* sendMessage() throws. *)
Refused(E) ==
  /\ failures < MaxFailures
  /\ failures' = failures + 1
  /\ delivered' = delivered \ E
  /\ UNCHANGED <<sent, announced, forgotten>>

(* flush(), when `on' and `opp' are what its caller left of the timer: the *)
(* pending entries are appended, then what is due is sent, and the timer   *)
(* is set again for what could not be done.                                *)
Flush(opportunity, on, opp) ==
  LET E == Batch(opportunity)
      busy == mode = "auto" /\ ~idle /\ ctx /\ Candidates \ (delivered \cup gracePending) # {}
      earlier == pendingDelivered # {} \/ migrationPending
      unsaved == pendingDelivered' # {} \/ migrationPending'
  IN  /\ IF E = {}
         THEN /\ FlushMarkers(pendingDelivered, pendingDelivered, migrationPending)
              /\ armed' = (unsaved \/ busy \/ (on /\ mode # "none"))
              /\ toolOpportunity' = (opp /\ armed')
              /\ UNCHANGED <<delivered, sendVars>>
         ELSE \/ /\ SentAtOnce(E)
                 /\ FlushMarkers(pendingDelivered \cup E, pendingDelivered, migrationPending)
                 /\ armed' \in {unsaved \/ on, unsaved \/ on \/ earlier}
                 /\ toolOpportunity' = opp
              \/ /\ SentLater(E)
                 /\ FlushMarkers(pendingDelivered, pendingDelivered, migrationPending)
                 /\ armed' = (unsaved \/ on) /\ toolOpportunity' = opp
              \/ /\ Refused(E)
                 /\ FlushMarkers(pendingDelivered, pendingDelivered, migrationPending)
                 /\ armed' = TRUE /\ toolOpportunity' = (opp \/ (mode = "steer" /\ ~idle))
      /\ UNCHANGED <<runtimeVars, hostVars, graceArmed, gracePending, observed, claims, seen>>

(* Mistake: the retry timer leaves the opportunity of a tool call set. *)
RetryUnconsumed == armed /\ Flush(toolOpportunity, FALSE, toolOpportunity)

(* The retry timer. *)
Retry == armed /\ Flush(toolOpportunity, FALSE, FALSE)

(* opportunity(): a turn or the agent's run ends. *)
Opportunity == ctx /\ Flush(FALSE, armed, toolOpportunity)

(* Mistake: the end of the grace period does not set the retry timer. *)
GraceEndsUnarmed ==
  /\ graceArmed
  /\ graceArmed' = FALSE /\ gracePending' = {}
  /\ UNCHANGED <<runtimeVars, hostVars, armed, toolOpportunity, branchVars, delivered,
                 observed, pendingDelivered, migrationPending, claims, sendVars, seen>>

(* The grace timer: one for all the generations that finished since. *)
GraceEnds ==
  /\ graceArmed
  /\ graceArmed' = FALSE /\ gracePending' = {}
  /\ Arm(FALSE)
  /\ UNCHANGED <<runtimeVars, hostVars, branchVars, delivered, observed, pendingDelivered,
                 migrationPending, claims, sendVars, seen>>

(* Was the batch sent in the session that is open? *)
Current(p) == ctx /\ p.session = sessions

(* The promise resolves: persistDelivered(), unless the session changed. *)
SendResolves(p) ==
  /\ sent' = sent \ {p}
  /\ IF Current(p)
     THEN /\ FlushMarkers(pendingDelivered \cup p.keys, pendingDelivered \cup p.keys,
                          migrationPending)
          /\ IF pendingDelivered' # {} \/ migrationPending'
             THEN Arm(FALSE) ELSE UNCHANGED <<armed, toolOpportunity>>
     ELSE UNCHANGED <<branchVars, pendingDelivered, migrationPending, armed, toolOpportunity>>
  /\ UNCHANGED <<runtimeVars, hostVars, graceArmed, gracePending, delivered, observed, claims,
                 failures, announced, forgotten, seen>>

(* The promise rejects: in whatever session, the batch counts as not told. *)
SendRejects(p) ==
  /\ failures < MaxFailures
  /\ failures' = failures + 1
  /\ sent' = sent \ {p}
  /\ delivered' = delivered \ p.keys
  /\ announced' = [k \in Keys |-> IF k \in p.keys THEN announced[k] - 1 ELSE announced[k]]
  /\ \E opportunity \in {FALSE, mode = "steer"} : Arm(opportunity)
  /\ UNCHANGED <<runtimeVars, hostVars, graceArmed, branchVars, gracePending, observed,
                 pendingDelivered, migrationPending, claims, forgotten, seen>>

-----------------------------------------------------------------------------
(* The session.                                                            *)

(* Mistake: a session starts without reading the markers of its branch. *)
SessionStartBlank ==
  /\ ~ctx /\ sessions < MaxSessions
  /\ ctx' = TRUE /\ sessions' = sessions + 1
  /\ delivered' = {}
  /\ FlushMarkers({}, {}, ~migrated)
  /\ Arm(FALSE)
  /\ UNCHANGED <<runtimeVars, mode, idle, graceArmed, gracePending, observed, claims,
                 sendVars, seen>>

(* session_start: what the branch marks as delivered is restored; a branch *)
(* older than the markers counts all it has indexed as delivered.          *)
SessionStart ==
  LET historical == IF migrated THEN {} ELSE indexed
  IN  /\ ~ctx /\ sessions < MaxSessions
      /\ ctx' = TRUE /\ sessions' = sessions + 1
      /\ delivered' = markers \cup historical
      /\ FlushMarkers(historical, historical, ~migrated)
      /\ Arm(FALSE)
      /\ UNCHANGED <<runtimeVars, mode, idle, graceArmed, gracePending, observed, claims,
                     sendVars, seen>>

(* session_shutdown: timers, claims and marks go; the runtime ends the     *)
(* work of the session and the next one restores what is finished.         *)
SessionShutdown ==
  /\ ctx /\ ctx' = FALSE
  /\ armed' = FALSE /\ toolOpportunity' = FALSE /\ graceArmed' = FALSE
  /\ claims' = [c \in Calls |-> NoClaim]
  /\ gracePending' = {} /\ delivered' = {} /\ observed' = {}
  /\ pendingDelivered' = {} /\ migrationPending' = FALSE
  /\ observers' = {} /\ seen' = {}
  /\ state' = [s \in Subagents |-> IF state[s] = "running" THEN "removed"
                                    ELSE state[s]]
  /\ forgotten' = [k \in Keys |-> IF k \in markers THEN forgotten[k] ELSE announced[k]]
  /\ UNCHANGED <<gen, joined, mode, idle, sessions, branchVars, sent, failures, announced>>

(* The agent starts or ends a run. *)
ToggleIdle ==
  /\ ctx
  /\ idle' = ~idle
  /\ UNCHANGED <<runtimeVars, mode, ctx, sessions, timerVars, branchVars, markVars, claims,
                 sendVars, seen>>

-----------------------------------------------------------------------------
Next ==
  \/ \E s \in Subagents : Begin(s) \/ Finish(s) \/ Observe(s) \/ Collect(s)
  \/ \E c \in Calls, targets \in SUBSET Subagents :
       \/ \E a \in Actions : BeginTool(c, a, targets)
       \/ CompleteTool(c, targets)
  \/ ToolStart \/ Retry \/ Opportunity \/ GraceEnds
  \/ \E p \in sent : SendResolves(p) \/ SendRejects(p)
  \/ SessionStart \/ SessionShutdown \/ ToggleIdle

(* The agent's runs end, and the timers fire: the retry timer, which is    *)
(* set again while the agent is busy, also finds it idle if it is so again *)
(* and again.  MaxFailures bounds the batches that are refused.            *)
Fairness ==
  /\ WF_vars(~idle /\ ToggleIdle)
  /\ WF_vars(GraceEnds)
  /\ SF_vars(idle /\ Retry)

Spec == Init /\ [][Next]_vars /\ Fairness

-----------------------------------------------------------------------------
(* Nothing that is kept for later is forgotten: generations in their grace *)
(* period have the grace timer to end it, and entries that could not be    *)
(* appended have the retry timer, after every failure and every event.     *)
PendingWorkIsArmed ==
  /\ gracePending # {} => graceArmed
  /\ ctx /\ (pendingDelivered # {} \/ migrationPending) => armed

(* A generation is announced once over all sessions of the branch, but for *)
(* what a session leaves behind without an entry for it on the branch: the *)
(* append failed, or the promise was still open.  What was announced and   *)
(* not marked when the session ended is announced once more, and a promise *)
(* of it refused only then takes its count back, but also un-marks, and so *)
(* repeats, what the later session announced.                              *)
AnnouncedOnce == \A k \in Keys : announced[k] <= forgotten[k] + 1

(* A result that inspect or cancel showed the model is not announced to it *)
(* in the same session any more, refused batches and late promises or not. *)
SeenStaysQuiet ==
  [][\A k \in Keys :
       k \in seen /\ ctx /\ ctx' => announced'[k] <= announced[k]]_vars

(* In mode `auto' a finished generation that does not count as announced   *)
(* is so in the end, unless it is seen, claimed, collected, resumed or     *)
(* removed first or the session is over: whatever the order of timers,     *)
(* claims, joins and refusals.                                             *)
EventuallyAnnounced ==
  \A k \in Keys :
    (mode = "auto" /\ ctx /\ k \in Candidates \ delivered)
      ~> (k \in delivered \/ k \notin Candidates \/ ~ctx)
=============================================================================
