--------------------------- MODULE SubagentRecovery ---------------------------
(***************************************************************************)
(* What survives of the subagent catalog when the process ends, and what   *)
(* recoverPersistedConversations makes of it at the next session_start.    *)
(* registerSubagentMetadataPersistence appends to the session branch a     *)
(* lease when a generation runs in a pane, and an index entry when it is   *)
(* done and again when it is joined.  Panes, their child processes and the *)
(* files they write outlive the process.                                   *)
(*                                                                         *)
(* A crash falls between two synchronous stretches, and an append that     *)
(* fails is left out.  Cancels are those of Conversation and left out.     *)
(***************************************************************************)
EXTENDS Integers, Sequences, FiniteSets, FiniteSetsExt, SequencesExt

CONSTANTS
  Ids,             \* conversations, each spawned once in all
  Root,            \* stands for the root agent as a parent
  Parent,          \* who spawns each conversation
  Limits,          \* values the settings may give both limits at a start
  MaxGenerations,  \* bound: generations per conversation
  Resumed,         \* bound: conversations that may be resumed
  MaxStarts        \* bound: starts of the process

ASSUME RecoveryAssumption ==
  /\ IsFiniteSet(Ids) /\ Root \notin Ids
  /\ Parent \in [Ids -> Ids \cup {Root}]
  /\ Limits \subseteq Nat \ {0}
  /\ MaxGenerations \in Nat \ {0}
  /\ Resumed \subseteq Ids /\ MaxStarts \in Nat

VARIABLES
  index,     \* branch: the last index entry of each generation, or NoEntry
  leases,    \* branch: the lease of each generation no entry voids, or NoLease
  ended,     \* branch: conversations with an entry, by their last completion
  panes,     \* surfaces that are open, with the generation launched in them
  working,   \* those whose child process is alive
  sidecars,  \* session files with a completion sidecar
  starts,    \* how often the process started
  spawned,   \* identifiers drawn so far
  removed,   \* conversations removed by the user (history variable)
  phase,     \* of the process
  limit,     \* maximumConversations
  catalog,   \* SubagentRuntime.conversations
  latest,    \* number of the latest generation
  status,    \* its status
  joined,    \* conversations whose latest generation is joined
  file,      \* generation in the name of retainedSessionFile, 0 when unset
  pane,      \* surface of the latest generation, NoPane when unset
  recovery   \* locals of recoverPersistedConversations

branchVars == <<index, leases, ended>>
worldVars == <<panes, working, sidecars>>
processVars == <<starts, phase, limit, recovery>>
historyVars == <<spawned, removed>>
catalogVars == <<catalog, latest, status, joined, file, pane>>
vars == <<branchVars, worldVars, processVars, historyVars, catalogVars>>

-----------------------------------------------------------------------------
Generations == 1..MaxGenerations

Panes == [conversation : Ids, generation : Generations, start : 0..MaxStarts]
NoPane == [conversation |-> Root, generation |-> 0, start |-> 0]

(* Session files are named after the generation that opened them.  A       *)
(* generation whose outcome is no basis for a resume counts as one that    *)
(* retained no file.                                                       *)
Files == Ids \X Generations

Entry == [joined : BOOLEAN, file : 0..MaxGenerations]
NoEntry == [joined |-> FALSE, file |-> -1]

Lease == [pane : Panes, file : 0..MaxGenerations]
NoLease == [pane |-> NoPane, file |-> 0]

(* pending: active candidates not tried yet; batch: those ready in this    *)
(* round; ended: those of the batch whose sidecar was there; at: the one   *)
(* whose rebinding is awaited; stuck: no progress, leave the loop.         *)
Recoveries ==
  [candidates : SUBSET Ids, pending : SUBSET Ids, batch : SUBSET Ids, ended : SUBSET Ids,
   at : Ids \cup {Root}, progressed : BOOLEAN, stuck : BOOLEAN, cap : Nat, terminals : Nat,
   refused : SUBSET Ids]
NoRecovery == [candidates |-> {}, pending |-> {}, batch |-> {}, ended |-> {}, at |-> Root,
               progressed |-> FALSE, stuck |-> FALSE, cap |-> 0, terminals |-> 0, refused |-> {}]

(* Every variable has its type; a joined conversation is in the catalog, a *)
(* working child in a pane that is open.                                   *)
TypeOK ==
  /\ index \in [Files -> Entry \cup {NoEntry}]
  /\ leases \in [Files -> Lease \cup {NoLease}]
  /\ ended \in Seq(Ids)
  /\ panes \in SUBSET Panes /\ working \in SUBSET panes /\ sidecars \in SUBSET Files
  /\ starts \in 0..MaxStarts /\ phase \in {"down", "recovering", "rebinding", "up"}
  /\ limit \in Limits \cup {0}
  /\ spawned \in SUBSET Ids /\ removed \in SUBSET Ids
  /\ catalog \in SUBSET spawned
  /\ latest \in [Ids -> Generations]
  /\ status \in [Ids -> {"queued", "running", "done"}]
  /\ joined \in SUBSET catalog
  /\ file \in [Ids -> 0..MaxGenerations]
  /\ pane \in [Ids -> Panes \cup {NoPane}]
  /\ recovery \in Recoveries

Init ==
  /\ index = [e \in Files |-> NoEntry] /\ leases = [e \in Files |-> NoLease]
  /\ ended = <<>>
  /\ panes = {} /\ working = {} /\ sidecars = {}
  /\ starts = 0 /\ phase = "down" /\ limit = 0
  /\ spawned = {} /\ removed = {}
  /\ catalog = {} /\ joined = {}
  /\ latest = [c \in Ids |-> 1]
  /\ status = [c \in Ids |-> "queued"]
  /\ file = [c \in Ids |-> 0]
  /\ pane = [c \in Ids |-> NoPane]
  /\ recovery = NoRecovery

-----------------------------------------------------------------------------
(* The tree.                                                               *)

(* c and its ancestors: the least set with c closed under Parent. *)
Lineage(c) ==
  {d \in Ids : \A S \in SUBSET Ids :
     (c \in S /\ \A e \in S : Parent[e] # Root => Parent[e] \in S) => d \in S}

HasParent(c, among) == Parent[c] = Root \/ Parent[c] \in among
IsDone(c) == status[c] = "done"
Subtree(c) == {d \in catalog : c \in Lineage(d)}

-----------------------------------------------------------------------------
(* The branch as the readers fold it.                                      *)

Indexed(c) == {g \in Generations : index[<<c, g>>] # NoEntry}
LastIndexed(c) == CHOOSE n \in Generations : Indexed(c) = 1..n

(* restoreTerminalConversations takes generations 1..n without a gap. *)
Recoverable == {c \in Ids \ catalog : \E n \in Generations : Indexed(c) = 1..n}

(* sanitizeRecoveredIndex: the file is kept when it is named after the     *)
(* generation of the entry.                                                *)
RecoveredFile(c) ==
  LET g == LastIndexed(c) IN IF index[<<c, g>>].file = g THEN g ELSE 0

(* readActivePaneGenerationLeases: a lease is rejected when the session    *)
(* file it names is not that of its own generation.                        *)
ActiveLeases == {e \in Files : leases[e] # NoLease /\ leases[e].file = e[2]}

LeasedGeneration(c) == Min({g \in Generations : <<c, g>> \in ActiveLeases})

(* Mistake: an entry does not void the lease of its generation. *)
AppendIndexKeepingLease(c, g, entry) ==
  /\ index' = [index EXCEPT ![<<c, g>>] = entry]
  /\ ended' = IF index[<<c, g>>] = NoEntry THEN Append(RemoveFirst(ended, c), c) ELSE ended
  /\ leases' = leases

(* An entry for generation g of c voids the leases of that generation,     *)
(* wherever they stand on the branch.                                      *)
AppendIndex(c, g, entry) ==
  /\ index' = [index EXCEPT ![<<c, g>>] = entry]
  /\ ended' = IF index[<<c, g>>] = NoEntry THEN Append(RemoveFirst(ended, c), c) ELSE ended
  /\ leases' = [leases EXCEPT ![<<c, g>>] = NoLease]

AppendLease(c, g, lease) ==
  leases' = IF index[<<c, g>>] = NoEntry THEN [leases EXCEPT ![<<c, g>>] = lease] ELSE leases

-----------------------------------------------------------------------------
(* Which terminal conversations are restored, from a set R of them.        *)

Chain(c) == Lineage(c) \ catalog

(* Mistake: the first chain that does not fit ends the selection. *)
SelectedUntilFull(R, budget) ==
  LET take(c, s) ==
        LET more == s.chosen \cup Chain(c)
        IN  IF c \in R /\ ~s.full /\ Chain(c) \subseteq R /\ Cardinality(more) <= budget
            THEN [s EXCEPT !.chosen = more] ELSE [s EXCEPT !.full = @ \/ c \in R]
  IN  FoldRight(take, ended, [chosen |-> {}, full |-> FALSE]).chosen

(* The newest completion first, each with the ancestors it needs, as long  *)
(* as the budget allows; what does not fit is passed over.                 *)
Selected(R, budget) ==
  LET take(c, chosen) ==
        LET more == chosen \cup Chain(c)
        IN  IF c \in R /\ Chain(c) \subseteq R /\ Cardinality(more) <= budget
            THEN more ELSE chosen
  IN  FoldRight(take, ended, {})

(* Of those, parents go before their children. *)
Restorable(R, budget) ==
  LET chosen == R \cap Selected(R, budget) IN {c \in chosen : Chain(c) \subseteq chosen}

(* The fields of the conversations T as their entries have them. *)
Restore(T) ==
  /\ catalog' = catalog \cup T
  /\ latest' = [c \in Ids |-> IF c \in T THEN LastIndexed(c) ELSE latest[c]]
  /\ status' = [c \in Ids |-> IF c \in T THEN "done" ELSE status[c]]
  /\ joined' = joined \cup {c \in T : index[<<c, LastIndexed(c)>>].joined}
  /\ file' = [c \in Ids |-> IF c \in T THEN RecoveredFile(c) ELSE file[c]]
  /\ pane' = [c \in Ids |-> IF c \in T THEN NoPane ELSE pane[c]]

(* activeTerminalAncestors: from the parent of a candidate upwards, until  *)
(* an ancestor has no entry.                                               *)
TerminalAncestors(candidates) ==
  {d \in Ids : \E c \in candidates :
     /\ d \in Lineage(c) \ {c}
     /\ \A e \in Lineage(c) \ {c} : d \in Lineage(e) => Indexed(e) # {}}

PriorityBudget(r) ==
  Min({r.cap - r.terminals, limit - Cardinality(catalog) - Cardinality(r.pending)})

-----------------------------------------------------------------------------
(* Recovery, from one await to the next.  A step that is not at an await   *)
(* is followed by the next one of recovery: the phase is "recovering".     *)

(* session_start: the branch is read, the settings give the limits. *)
Start ==
  /\ phase = "down" /\ starts < MaxStarts
  /\ starts' = starts + 1
  /\ phase' = "recovering"
  /\ \E n, m \in Limits :
       /\ limit' = n
       /\ LET candidates == {e[1] : e \in ActiveLeases}
          IN  recovery' = [NoRecovery EXCEPT !.candidates = candidates, !.pending = candidates,
                                             !.cap = Min({m, n})]
  /\ UNCHANGED <<branchVars, worldVars, historyVars, catalogVars>>

(* Mistake: a parent that is a candidate itself counts as restored. *)
ReadyEarly(pending, among) == {c \in pending : HasParent(c, among \cup pending)}

Ready(pending, among) == {c \in pending : HasParent(c, among)}

(* A round of the loop: ancestors that are terminal, then the candidates   *)
(* whose parent is there.                                                  *)
BeginRound ==
  LET r == recovery
      T == Restorable(Recoverable \cap TerminalAncestors(r.candidates), PriorityBudget(r))
      ready == Ready(r.pending, catalog \cup T)
  IN  /\ phase = "recovering" /\ r.pending # {} /\ r.batch = {} /\ ~r.stuck
      /\ Restore(T)
      /\ recovery' = [r EXCEPT !.terminals = @ + Cardinality(T), !.batch = ready,
           !.progressed = T # {}, !.stuck = ready = {} /\ T = {},
           !.ended = {c \in ready : <<c, LeasedGeneration(c)>> \in sidecars}]
      /\ UNCHANGED <<branchVars, worldVars, starts, phase, limit, historyVars>>

(* The candidate c is over, restored when ok is TRUE. *)
CandidateOver(c, ok, refusal) ==
  LET r == recovery
      last == r.batch = {c}
  IN  recovery' = [r EXCEPT !.pending = @ \ {c}, !.batch = @ \ {c}, !.at = Root,
        !.refused = @ \cup refusal, !.progressed = @ \/ ok,
        !.stuck = last /\ ~(r.progressed \/ ok)]

(* restoreActive: the conversation runs the generation of its lease. *)
Insert(c, newStatus, newFile) ==
  LET g == LeasedGeneration(c)
  IN  /\ catalog' = catalog \cup {c}
      /\ latest' = [latest EXCEPT ![c] = g]
      /\ status' = [status EXCEPT ![c] = newStatus]
      /\ joined' = joined \ {c}
      /\ file' = [file EXCEPT ![c] = newFile]

Refuse(c) ==
  /\ phase = "recovering" /\ c \in recovery.batch
  /\ Cardinality(catalog) >= limit
  /\ CandidateOver(c, FALSE, {c})
  /\ UNCHANGED <<branchVars, worldVars, starts, phase, limit, historyVars, catalogVars>>

(* The child had finished already: its completion is recorded right away. *)
RestoreFinished(c, newFile) ==
  LET g == LeasedGeneration(c)
  IN  /\ phase = "recovering" /\ c \in recovery.batch \cap recovery.ended
      /\ Cardinality(catalog) < limit
      /\ newFile \in {leases[<<c, g>>].file, 0}
      /\ Insert(c, "done", newFile)
      /\ pane' = [pane EXCEPT ![c] = NoPane]
      /\ AppendIndex(c, g, [joined |-> FALSE, file |-> newFile])
      /\ CandidateOver(c, TRUE, {})
      /\ UNCHANGED <<worldVars, starts, phase, limit, historyVars>>

AwaitRebinding(c) ==
  /\ phase = "recovering" /\ c \in recovery.batch \ recovery.ended
  /\ Cardinality(catalog) < limit
  /\ phase' = "rebinding"
  /\ recovery' = [recovery EXCEPT !.at = c]
  /\ UNCHANGED <<branchVars, worldVars, starts, limit, historyVars, catalogVars>>

(* The surface was found; its child, which may have finished meanwhile, is *)
(* observed from now on.                                                   *)
Rebound ==
  LET c == recovery.at
      lease == leases[<<c, LeasedGeneration(c)>>]
  IN  /\ phase = "rebinding" /\ lease.pane \in panes
      /\ phase' = "recovering"
      /\ Insert(c, "running", lease.file)
      /\ pane' = [pane EXCEPT ![c] = lease.pane]
      /\ CandidateOver(c, TRUE, {})
      /\ UNCHANGED <<branchVars, worldVars, starts, limit, historyVars>>

(* The surface is gone, or the multiplexer cannot tell. *)
RebindFails ==
  /\ phase = "rebinding"
  /\ phase' = "recovering"
  /\ CandidateOver(recovery.at, FALSE, {})
  /\ UNCHANGED <<branchVars, worldVars, starts, limit, historyVars, catalogVars>>

(* The rest of the history fills what is left. *)
EndRecovery ==
  LET r == recovery
      budget == Min({r.cap - r.terminals, limit - Cardinality(catalog)})
      T == Restorable(Recoverable, budget)
  IN  /\ phase = "recovering" /\ r.batch = {} /\ (r.pending = {} \/ r.stuck)
      /\ phase' = "up"
      /\ Restore(T)
      /\ recovery' = NoRecovery
      /\ UNCHANGED <<branchVars, worldVars, starts, limit, historyVars>>

-----------------------------------------------------------------------------
(* The catalog at work.                                                    *)

Spawn(c) ==
  /\ phase = "up" /\ c \notin spawned /\ starts < MaxStarts
  /\ HasParent(c, {d \in catalog : status[d] = "running"})
  /\ Cardinality(catalog) < limit
  /\ catalog' = catalog \cup {c}
  /\ spawned' = spawned \cup {c}
  /\ UNCHANGED <<branchVars, worldVars, processVars, removed,
                 latest, status, joined, file, pane>>

(* executePaneGeneration up to its observation of the pane: the sidecar of *)
(* the session file is cleared, and with bindControl the lease is written. *)
Launch(c) ==
  LET g == latest[c]
      f == IF g = 1 THEN 1 ELSE file[c]
      p == [conversation |-> c, generation |-> g, start |-> starts]
  IN  /\ phase = "up" /\ c \in catalog /\ status[c] = "queued"
      /\ status' = [status EXCEPT ![c] = "running"]
      /\ file' = [file EXCEPT ![c] = f]
      /\ pane' = [pane EXCEPT ![c] = p]
      /\ panes' = panes \cup {p} /\ working' = working \cup {p}
      /\ sidecars' = sidecars \ {<<c, f>>}
      /\ AppendLease(c, g, [pane |-> p, file |-> f])
      /\ UNCHANGED <<index, ended, processVars, historyVars, catalog, latest, joined>>

(* The latest generation of c ends: settled, recorded, its pane closed. *)
Settle(c, newFile) ==
  /\ status' = [status EXCEPT ![c] = "done"]
  /\ file' = [file EXCEPT ![c] = newFile]
  /\ AppendIndex(c, latest[c], [joined |-> FALSE, file |-> newFile])
  /\ panes' = panes \ {pane[c]} /\ working' = working \ {pane[c]}
  /\ pane' = [pane EXCEPT ![c] = NoPane]
  /\ UNCHANGED <<sidecars, processVars, historyVars, catalog, latest, joined>>

LaunchFails(c) ==
  /\ phase = "up" /\ c \in catalog /\ status[c] = "queued"
  /\ Settle(c, 0)

(* pollForExit sees the sidecar, or that the surface is gone. *)
NoticeExit(c, newFile) ==
  /\ phase \in {"up", "rebinding"} /\ c \in catalog /\ status[c] = "running"
  /\ \/ <<c, file[c]>> \in sidecars /\ newFile \in {file[c], 0}
     \/ pane[c] \notin panes /\ newFile = 0
  /\ Settle(c, newFile)

Join(c) ==
  /\ phase = "up" /\ c \in catalog \ joined /\ IsDone(c)
  /\ joined' = joined \cup {c}
  /\ AppendIndex(c, latest[c], [joined |-> TRUE, file |-> file[c]])
  /\ UNCHANGED <<worldVars, processVars, historyVars, catalog, latest, status, file, pane>>

Resume(c) ==
  /\ phase = "up" /\ c \in catalog \cap joined /\ IsDone(c) /\ file[c] # 0
  /\ c \in Resumed /\ latest[c] < MaxGenerations
  /\ latest' = [latest EXCEPT ![c] = @ + 1]
  /\ status' = [status EXCEPT ![c] = "queued"]
  /\ joined' = joined \ {c}
  /\ UNCHANGED <<branchVars, worldVars, processVars, historyVars, catalog, file, pane>>

(* Mistake: of the subtree, only its root is forgotten as joined. *)
RemoveSubtreeShallow(c) ==
  LET gone == Subtree(c)
  IN  /\ phase = "up" /\ c \in catalog /\ \A d \in gone : IsDone(d)
      /\ catalog' = catalog \ gone /\ joined' = joined \ {c}
      /\ latest' = [d \in Ids |-> IF d \in gone THEN 1 ELSE latest[d]]
      /\ status' = [d \in Ids |-> IF d \in gone THEN "queued" ELSE status[d]]
      /\ file' = [d \in Ids |-> IF d \in gone THEN 0 ELSE file[d]]
      /\ removed' = removed \cup gone
      /\ UNCHANGED <<branchVars, worldVars, processVars, spawned, pane>>

(* The removal of a subtree writes nothing to the branch. *)
RemoveSubtree(c) ==
  LET gone == Subtree(c)
  IN  /\ phase = "up" /\ c \in catalog /\ \A d \in gone : IsDone(d)
      /\ catalog' = catalog \ gone /\ joined' = joined \ gone
      /\ latest' = [d \in Ids |-> IF d \in gone THEN 1 ELSE latest[d]]
      /\ status' = [d \in Ids |-> IF d \in gone THEN "queued" ELSE status[d]]
      /\ file' = [d \in Ids |-> IF d \in gone THEN 0 ELSE file[d]]
      /\ removed' = removed \cup gone
      /\ UNCHANGED <<branchVars, worldVars, processVars, spawned, pane>>

-----------------------------------------------------------------------------
(* The world: children finish or panes vanish whether or not anybody looks *)
(* and the process ends at any time.  What a sidecar says is read later:   *)
(* both outcomes are possible then.                                        *)

ChildFinishes(p) ==
  /\ p \in working
  /\ working' = working \ {p}
  /\ sidecars' = sidecars \cup {<<p.conversation, 1>>}
  /\ UNCHANGED <<branchVars, panes, processVars, historyVars, catalogVars>>

PaneVanishes(p) ==
  /\ p \in panes
  /\ panes' = panes \ {p} /\ working' = working \ {p}
  /\ UNCHANGED <<branchVars, sidecars, processVars, historyVars, catalogVars>>

Crash ==
  /\ phase # "down"
  /\ phase' = "down" /\ limit' = 0 /\ recovery' = NoRecovery
  /\ catalog' = {} /\ joined' = {}
  /\ latest' = [c \in Ids |-> 1]
  /\ status' = [c \in Ids |-> "queued"]
  /\ file' = [c \in Ids |-> 0]
  /\ pane' = [c \in Ids |-> NoPane]
  /\ UNCHANGED <<branchVars, worldVars, starts, historyVars>>

RecoveryStep ==
  \/ Start \/ BeginRound \/ Rebound \/ RebindFails \/ EndRecovery
  \/ \E c \in Ids : Refuse(c) \/ AwaitRebinding(c)
  \/ \E c \in Ids, f \in 0..MaxGenerations : RestoreFinished(c, f)

ConversationStep(c) ==
  \/ Spawn(c) \/ Launch(c) \/ LaunchFails(c)
  \/ \E f \in 0..MaxGenerations : NoticeExit(c, f)
  \/ Join(c) \/ Resume(c) \/ RemoveSubtree(c)

Next ==
  \/ RecoveryStep \/ Crash
  \/ \E c \in Ids : ConversationStep(c)
  \/ \E p \in panes : ChildFinishes(p) \/ PaneVanishes(p)

Spec == Init /\ [][Next]_vars

-----------------------------------------------------------------------------
(* Also half-way through a recovery, no conversation is in the catalog     *)
(* without its parent.                                                     *)
RecoveredForest == \A c \in catalog : HasParent(c, catalog)

(* A result that was collected stays collected: no crash, no lease that    *)
(* was left behind and no sidecar makes a recorded result new again.       *)
JoinedStays ==
  [][\A e \in Files : index[e].joined => index'[e].joined]_vars

(* "Active leases reserve capacity first": a candidate is turned away for  *)
(* lack of room only when there are more candidates than room.             *)
LeasesReserveCapacity ==
  recovery.refused # {} => Cardinality(recovery.candidates) > limit

(* A recovery leaves room only when nothing fits there: running panes come *)
(* first, and no terminal conversation is left out that would fit with the *)
(* ancestors it needs.                                                     *)
RecoveryFills ==
  /\ []LeasesReserveCapacity
  /\ [][phase = "recovering" /\ phase' = "up" =>
         \A c \in Recoverable \ catalog' :
           LET missing == Lineage(c) \ catalog'
           IN  \/ ~(missing \subseteq Recoverable)
               \/ Cardinality(catalog' \cup missing) > limit
               \/ recovery.terminals + Cardinality((catalog' \cup missing) \ catalog) > recovery.cap]_vars

(* "Removal [...] permanently deletes an inactive subagent and all of its  *)
(* descendants."                                                           *)
RemovedStaysRemoved == removed \cap catalog = {}

(* "Automatic terminal-pane closure": a surface is not left open once the  *)
(* generation launched in it is done.                                      *)
DonePanesClosed ==
  \A p \in panes : p.conversation \in catalog /\ p.generation = latest[p.conversation] =>
    ~IsDone(p.conversation)

(* "Once its result has been joined, Pi can resume it": what is resumed is *)
(* the latest generation that was ever launched.                           *)
ResumesJoinedResult ==
  [][\A c \in catalog \cap catalog' : latest'[c] > latest[c] =>
       \A g \in Generations : leases[<<c, g>>] # NoLease => g <= latest[c]]_vars
=============================================================================
