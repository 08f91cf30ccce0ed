------------------------------- MODULE Whisper -------------------------------
(***************************************************************************)
(* packages/whisper/src/index.ts: messages between the pi processes of one *)
(* machine.  Every process publishes a record in a shared directory, keeps *)
(* it fresh with a heartbeat, and is found there by its peers; messages go *)
(* directly to its HTTP server.  An ask blocks its caller until a reply is *)
(* delivered, its deadline passes, the call is aborted, or the record of   *)
(* the target is no longer listed.                                         *)
(*                                                                         *)
(* A process may stop or crash at any time, a request may be refused, time *)
(* out and be handled all the same, and requests of one process overtake   *)
(* each other, since each has a connection of its own.  A lookup in the    *)
(* directory is one step with the request it is made for.                  *)
(***************************************************************************)
EXTENDS Integers, Sequences, FiniteSets, SequencesExt

CONSTANTS
  Agents,     \* the processes, each with an id of its own
  Routes,     \* the pairs <<a, b>> such that a may write to b
  Asks,       \* the requests of `ask'
  Sends,      \* the messages of `send'
  Waits,      \* the calls of `wait'
  Replies,    \* the calls of `reply' that may be made for each ask
  InboxCap,   \* INBOX_CAP
  NoAgent     \* the sender of a message that is not sent yet

ASSUME RoutesAssumption == Routes \subseteq Agents \X Agents
ASSUME InboxAssumption == InboxCap \in Nat \ {0}

Messages == Asks \cup Sends

VARIABLES
  status,     \* where the extension of each process stands
  record,     \* the process's file in the registry directory
  writing,    \* the processes with a writeRecord() under way
  doomed,     \* the files read as stale that their reader is about to remove
  from, to,   \* who sends each message, and to whom
  wire,       \* the request that carries each message
  inbox,      \* the envelopes each process holds for `wait'
  waiters,    \* the calls of `wait' that are blocked, oldest first
  waiting,    \* where each call of `wait' stands
  ask,        \* the promise of askAgent(); open while in pendingOutboundAsks
  pending,    \* the asks in the pendingInboundAsks of their target
  cancel,     \* the asks with an `error' request under way that withdraws them
  reply       \* where each call of replyToAsk() stands

registryVars == <<status, record, writing, doomed>>
inboxVars == <<inbox, waiters, waiting>>
routeVars == <<from, to>>
askVars == <<ask, pending, cancel, reply>>
vars == <<registryVars, inboxVars, routeVars, wire, askVars>>

Statuses == {"new", "starting", "up", "leaving", "closing", "stopped", "crashed"}

TypeOK ==
  /\ status \in [Agents -> Statuses]
  /\ record \in [Agents -> {"absent", "fresh", "stale"}]
  /\ writing \subseteq Agents /\ doomed \subseteq Agents
  /\ from \in [Messages -> Agents \cup {NoAgent}] /\ to \in [Messages -> Agents \cup {NoAgent}]
  /\ wire \in [Messages -> {"none", "sent", "handled", "lost"}]
  /\ inbox \in [Agents -> Seq(Messages)] /\ \A a \in Agents : Len(inbox[a]) <= InboxCap
  /\ waiters \in [Agents -> Seq(Waits)]
  /\ waiting \in [Waits -> {"none", "blocked", "over"}]
  /\ ask \in [Asks -> {"none", "open", "answered", "failed"}]
  /\ pending \subseteq Asks /\ cancel \subseteq Asks
  /\ reply \in [Asks -> [Replies -> {"none", "posted", "late", "accepted", "over"}]]

Init ==
  /\ status = [a \in Agents |-> "new"]
  /\ record = [a \in Agents |-> "absent"]
  /\ writing = {} /\ doomed = {}
  /\ from = [m \in Messages |-> NoAgent] /\ to = [m \in Messages |-> NoAgent]
  /\ wire = [m \in Messages |-> "none"]
  /\ inbox = [a \in Agents |-> <<>>]
  /\ waiters = [a \in Agents |-> <<>>]
  /\ waiting = [w \in Waits |-> "none"]
  /\ ask = [r \in Asks |-> "none"]
  /\ pending = {} /\ cancel = {}
  /\ reply = [r \in Asks |-> [i \in Replies |-> "none"]]

(* The server accepts connections, or still serves those it accepted. *)
Listening(a) == status[a] \in {"starting", "up", "leaving", "closing"}

(* The process will never refresh its record again. *)
Gone(a) == status[a] \in {"stopped", "crashed"}

(* Mistake: isActiveRecord() does not look at updatedAt. *)
ListedAtAnyAge(a) == record[a] # "absent"

(* Does listActiveAgents() return the record of a? *)
Listed(a) == record[a] = "fresh"

-----------------------------------------------------------------------------
(* The registry.                                                           *)

(* session_start: the server listens, publish() writes the first record. *)
Start(a) ==
  /\ status[a] = "new"
  /\ status' = [status EXCEPT ![a] = "starting"]
  /\ writing' = writing \cup {a}
  /\ UNCHANGED <<record, doomed, inboxVars, routeVars, wire, askVars>>

(* The heartbeat (or `update') begins to write the record. *)
Beat(a) ==
  /\ status[a] = "up" /\ a \notin writing
  /\ writing' = writing \cup {a}
  /\ UNCHANGED <<status, record, doomed, inboxVars, routeVars, wire, askVars>>

(* The rename of writeJsonAtomic(), in whatever state the process now is;  *)
(* after the first one the heartbeat is set up.                            *)
WriteLands(a) ==
  /\ a \in writing
  /\ writing' = writing \ {a}
  /\ record' = [record EXCEPT ![a] = "fresh"]
  /\ status' = [status EXCEPT ![a] = IF @ = "starting" THEN "up" ELSE @]
  /\ UNCHANGED <<doomed, inboxVars, routeVars, wire, askVars>>

(* STALE_AFTER_MS pass without a write: the process is gone, or it was     *)
(* suspended for as long.                                                  *)
Expire(a) ==
  /\ record[a] = "fresh"
  /\ record' = [record EXCEPT ![a] = "stale"]
  /\ UNCHANGED <<status, writing, doomed, inboxVars, routeVars, wire, askVars>>

(* listActiveAgents() of any process reads a record it does not list ...   *)
ReadStale(a) ==
  /\ record[a] # "absent" /\ ~Listed(a) /\ a \notin doomed
  /\ doomed' = doomed \cup {a}
  /\ UNCHANGED <<status, record, writing, inboxVars, routeVars, wire, askVars>>

(* ... and removes the file, which may have been written anew since.       *)
RemoveRead(a) ==
  /\ a \in doomed
  /\ doomed' = doomed \ {a}
  /\ record' = [record EXCEPT ![a] = "absent"]
  /\ UNCHANGED <<status, writing, inboxVars, routeVars, wire, askVars>>

-----------------------------------------------------------------------------
(* Messages and the inbox.                                                 *)

(* sendToAgent(). *)
Send(s, a, b) ==
  /\ status[a] = "up" /\ Listed(b) /\ wire[s] = "none"
  /\ from' = [from EXCEPT ![s] = a] /\ to' = [to EXCEPT ![s] = b]
  /\ wire' = [wire EXCEPT ![s] = "sent"]
  /\ UNCHANGED <<registryVars, inboxVars, askVars>>

(* askAgent(): the ask is entered as outbound and posted. *)
Ask(r, a, b) ==
  /\ status[a] = "up" /\ Listed(b) /\ wire[r] = "none"
  /\ from' = [from EXCEPT ![r] = a] /\ to' = [to EXCEPT ![r] = b]
  /\ wire' = [wire EXCEPT ![r] = "sent"]
  /\ ask' = [ask EXCEPT ![r] = "open"]
  /\ UNCHANGED <<registryVars, inboxVars, pending, cancel, reply>>

(* Mistake: enqueueInbound() drops nothing. *)
EnqueueUncapped(a, m) ==
  IF waiters[a] # <<>>
  THEN /\ waiting' = [waiting EXCEPT ![Head(waiters[a])] = "over"]
       /\ waiters' = [waiters EXCEPT ![a] = Tail(@)]
       /\ UNCHANGED inbox
  ELSE inbox' = [inbox EXCEPT ![a] = Append(@, m)] /\ UNCHANGED <<waiters, waiting>>

(* enqueueInbound(): the oldest waiter gets the envelope, or the inbox,    *)
(* which drops its oldest beyond the cap.                                  *)
Enqueue(a, m) ==
  IF waiters[a] # <<>>
  THEN /\ waiting' = [waiting EXCEPT ![Head(waiters[a])] = "over"]
       /\ waiters' = [waiters EXCEPT ![a] = Tail(@)]
       /\ UNCHANGED inbox
  ELSE /\ inbox' = [inbox EXCEPT ![a] = IF Len(@) < InboxCap THEN Append(@, m)
                                        ELSE Append(Tail(@), m)]
       /\ UNCHANGED <<waiters, waiting>>

(* handleIncoming() of a `send' or an `ask'. *)
Deliver(m) ==
  /\ wire[m] = "sent" /\ Listening(to[m])
  /\ wire' = [wire EXCEPT ![m] = "handled"]
  /\ pending' = pending \cup ({m} \cap Asks)
  /\ Enqueue(to[m], m)
  /\ UNCHANGED <<registryVars, routeVars, ask, cancel, reply>>

(* postJson() of a message rejects: refused, reset, or timed out while the *)
(* request may still be handled.                                           *)
PostFails(m) ==
  /\ wire[m] = "sent"
  /\ wire' \in {[wire EXCEPT ![m] = w] :
                  w \in IF Listening(to[m]) THEN {"sent", "lost"} ELSE {"lost"}}
  /\ ask' = [r \in Asks |-> IF r = m /\ ask[r] = "open" THEN "failed" ELSE ask[r]]
  /\ wire' # wire \/ ask' # ask
  /\ UNCHANGED <<registryVars, inboxVars, routeVars, pending, cancel, reply>>

(* waitForInbox(): drains the inbox or blocks. *)
Wait(w, a) ==
  /\ status[a] = "up" /\ waiting[w] = "none"
  /\ IF inbox[a] # <<>>
     THEN /\ waiting' = [waiting EXCEPT ![w] = "over"]
          /\ inbox' = [inbox EXCEPT ![a] = <<>>]
          /\ UNCHANGED waiters
     ELSE /\ waiting' = [waiting EXCEPT ![w] = "blocked"]
          /\ waiters' = [waiters EXCEPT ![a] = Append(@, w)]
          /\ UNCHANGED inbox
  /\ UNCHANGED <<registryVars, routeVars, wire, askVars>>

(* The timer or the abort of a blocked wait. *)
WaitEnds(w, a) ==
  /\ waiting[w] = "blocked"
  /\ waiting' = [waiting EXCEPT ![w] = "over"]
  /\ \E i \in 1..Len(waiters[a]) :
       waiters[a][i] = w /\ waiters' = [waiters EXCEPT ![a] = RemoveAt(@, i)]
  /\ UNCHANGED <<registryVars, routeVars, wire, inbox, askVars>>

-----------------------------------------------------------------------------
(* Asks and replies.                                                       *)

(* settleReject() together with sendCancellation(). *)
GiveUp(r) ==
  /\ ask[r] = "open"
  /\ ask' = [ask EXCEPT ![r] = "failed"]
  /\ cancel' = cancel \cup {r}
  /\ UNCHANGED <<registryVars, inboxVars, routeVars, pending, reply>>

(* The timeoutMs of the ask pass, if it has one. *)
AskTimesOut(r) == GiveUp(r) /\ UNCHANGED wire

(* The tool call is aborted, and with it a request under way. *)
AskAborted(r) ==
  /\ GiveUp(r)
  /\ wire' \in {wire, [wire EXCEPT ![r] = IF @ = "sent" THEN "lost" ELSE @]}

(* The poll of the registry does not find the target. *)
Monitor(r) ==
  /\ ask[r] = "open" /\ ~Listed(to[r])
  /\ ask' = [ask EXCEPT ![r] = "failed"]
  /\ UNCHANGED <<registryVars, inboxVars, routeVars, wire, pending, cancel, reply>>

(* The cancellation arrives, or does not; nobody waits for its outcome. *)
CancelEnds(r) ==
  /\ r \in cancel
  /\ cancel' = cancel \ {r}
  /\ pending' \in IF Listening(to[r]) THEN {pending, pending \ {r}} ELSE {pending}
  /\ UNCHANGED <<registryVars, inboxVars, routeVars, wire, ask, reply>>

(* Mistake: replyToAsk() takes the ask out before the reply is delivered. *)
ReplyForgetting(r, i) ==
  /\ r \in pending /\ status[to[r]] = "up" /\ Listed(from[r]) /\ reply[r][i] = "none"
  /\ reply' = [reply EXCEPT ![r][i] = "posted"]
  /\ pending' = pending \ {r}
  /\ UNCHANGED <<registryVars, inboxVars, routeVars, wire, ask, cancel>>

(* replyToAsk() posts the reply; the ask stays pending meanwhile. *)
Reply(r, i) ==
  /\ r \in pending /\ status[to[r]] = "up" /\ Listed(from[r]) /\ reply[r][i] = "none"
  /\ reply' = [reply EXCEPT ![r][i] = "posted"]
  /\ UNCHANGED <<registryVars, inboxVars, routeVars, wire, ask, pending, cancel>>

(* Mistake: a reply is acknowledged without settling the ask. *)
DeliverReplyUnread(r, i) ==
  /\ reply[r][i] \in {"posted", "late"} /\ Listening(from[r])
  /\ reply' = [reply EXCEPT ![r][i] = IF @ = "posted" THEN "accepted" ELSE "over"]
  /\ UNCHANGED <<registryVars, inboxVars, routeVars, wire, ask, pending, cancel>>

(* handleIncoming() of a `reply' at the asker: settles an ask still open. *)
DeliverReply(r, i) ==
  /\ reply[r][i] \in {"posted", "late"} /\ Listening(from[r])
  /\ reply' = [reply EXCEPT ![r][i] = IF @ = "posted" THEN "accepted" ELSE "over"]
  /\ ask' = [ask EXCEPT ![r] = IF @ = "open" THEN "answered" ELSE @]
  /\ UNCHANGED <<registryVars, inboxVars, routeVars, wire, pending, cancel>>

(* The post of the reply fails; handled all the same if it only timed out. *)
ReplyFails(r, i) ==
  /\ reply[r][i] \in {"posted", "late"}
  /\ reply' \in {[reply EXCEPT ![r][i] = s] :
                   s \in IF reply[r][i] = "posted" THEN {"late", "over"} ELSE {"over"}}
  /\ UNCHANGED <<registryVars, inboxVars, routeVars, wire, ask, pending, cancel>>

(* The replier has the response: only now the ask stops being pending. *)
ReplyAccepted(r, i) ==
  /\ reply[r][i] = "accepted" /\ ~Gone(to[r])
  /\ reply' = [reply EXCEPT ![r][i] = "over"]
  /\ pending' = pending \ {r}
  /\ UNCHANGED <<registryVars, inboxVars, routeVars, wire, ask, cancel>>

-----------------------------------------------------------------------------
(* The end of a process.                                                   *)

(* session_shutdown stops the heartbeat and begins to remove the record.   *)
Shutdown(a) ==
  /\ status[a] \in {"starting", "up"}
  /\ status' = [status EXCEPT ![a] = "leaving"]
  /\ UNCHANGED <<record, writing, doomed, inboxVars, routeVars, wire, askVars>>

(* What a process knew is forgotten, and whoever waits in it is told so.   *)
Forget(a) ==
  /\ waiting' = [w \in Waits |-> IF w \in Range(waiters[a]) THEN "over" ELSE waiting[w]]
  /\ waiters' = [waiters EXCEPT ![a] = <<>>]
  /\ inbox' = [inbox EXCEPT ![a] = <<>>]
  /\ ask' = [r \in Asks |-> IF from[r] = a /\ ask[r] = "open" THEN "failed" ELSE ask[r]]
  /\ pending' = {r \in pending : to[r] # a}
  /\ UNCHANGED <<routeVars, wire, cancel, reply>>

(* The record is removed: waits and asks are rejected, the server closes.  *)
RecordRemoved(a) ==
  /\ status[a] = "leaving"
  /\ status' = [status EXCEPT ![a] = "closing"]
  /\ record' = [record EXCEPT ![a] = "absent"]
  /\ Forget(a)
  /\ UNCHANGED <<writing, doomed>>

(* closeServer() is over. *)
Closed(a) ==
  /\ status[a] = "closing"
  /\ status' = [status EXCEPT ![a] = "stopped"]
  /\ UNCHANGED <<record, writing, doomed, inboxVars, routeVars, wire, askVars>>

(* The process dies, its record stays. *)
Crash(a) ==
  /\ Listening(a)
  /\ status' = [status EXCEPT ![a] = "crashed"]
  /\ writing' = writing \ {a}
  /\ Forget(a)
  /\ UNCHANGED <<record, doomed>>

-----------------------------------------------------------------------------
(* execute() of the tool, up to the await of each action.  `update' writes  *)
(* the record like the heartbeat, `me' and `list' read the registry like   *)
(* every lookup, and `pending' changes nothing.                            *)
Execute(a) ==
  \/ Beat(a)
  \/ \E w \in Waits : Wait(w, a)
  \/ \E b \in Agents :
       /\ <<a, b>> \in Routes
       /\ (\E s \in Sends : Send(s, a, b)) \/ (\E r \in Asks : Ask(r, a, b))
  \/ \E r \in Asks, i \in Replies : to[r] = a /\ Reply(r, i)

Next ==
  \/ \E a \in Agents :
       \/ Start(a) \/ WriteLands(a) \/ Expire(a) \/ ReadStale(a) \/ RemoveRead(a)
       \/ Shutdown(a) \/ RecordRemoved(a) \/ Closed(a) \/ Crash(a)
       \/ Execute(a)
       \/ \E w \in Waits : WaitEnds(w, a)
  \/ \E m \in Messages : Deliver(m) \/ PostFails(m)
  \/ \E r \in Asks : AskTimesOut(r) \/ AskAborted(r) \/ Monitor(r) \/ CancelEnds(r)
  \/ \E r \in Asks, i \in Replies :
       DeliverReply(r, i) \/ ReplyFails(r, i) \/ ReplyAccepted(r, i)

(* The heartbeat timer runs while a process is up, file operations end, a  *)
(* record nobody refreshes gets old, and every ask polls the registry.     *)
Fairness ==
  /\ \A a \in Agents :
       /\ WF_vars(Beat(a)) /\ WF_vars(WriteLands(a))
       /\ WF_vars(Gone(a) /\ Expire(a))
  /\ \A r \in Asks : WF_vars(Monitor(r))

Spec == Init /\ [][Next]_vars /\ Fairness

-----------------------------------------------------------------------------
(* Who waits in `wait' would be served at once by anything that arrives,   *)
(* and nothing that arrived lies in the inbox meanwhile.                   *)
NoLostWakeup ==
  \A a \in Agents :
    /\ waiters[a] # <<>> => inbox[a] = <<>>
    /\ \A w \in Range(waiters[a]) : waiting[w] = "blocked"

(* An ask whose caller still waits and that reached a target that is still *)
(* up can still be replied to there, whatever happened to the inbox, to    *)
(* earlier replies and to the cancellations of others.                     *)
OwedUntilAnswered ==
  \A r \in Asks :
    ask[r] = "open" /\ wire[r] = "handled" /\ status[to[r]] = "up" => r \in pending

(* What a process received and did not answer or read is never lost to a   *)
(* call that waits for it: not to a blocked `wait', not to a later reply.  *)
NothingArrivedIsLost == NoLostWakeup /\ OwedUntilAnswered

(* The tool call of `reply' reports success only once the asker's call is  *)
(* over: a caller that still waits was never told to stop expecting one.   *)
ReplySettles ==
  \A r \in Asks : (\E i \in Replies : reply[r][i] = "accepted") => ask[r] # "open"

(* The caller of an ask whose target stops or dies does not wait for ever, *)
(* even without a timeout and even if the request had been handled.        *)
GoneTargetFailsAsk ==
  \A r \in Asks : (ask[r] = "open" /\ Gone(to[r])) ~> ask[r] # "open"

(* A process that is up is found again after every loss of its record: to  *)
(* its own stall, or to a peer that removes what it read as stale.         *)
LiveAgentListed ==
  \A a \in Agents : status[a] = "up" ~> (Listed(a) \/ status[a] # "up")

(* In the end the directory tells who is there, and the asks follow it.    *)
RegistryConverges == GoneTargetFailsAsk /\ LiveAgentListed

(* DESIGN.md: an ask remains pending "until the receiver calls reply, the  *)
(* sender aborts, or the ask times out": once its caller has given up, the *)
(* target no longer lists it, unless the cancellation is on its way.       *)
PendingAskIsWanted ==
  \A r \in pending : ask[r] = "failed" => r \in cancel
=============================================================================
