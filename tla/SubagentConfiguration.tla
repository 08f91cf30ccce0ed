------------------------ MODULE SubagentConfiguration ------------------------
(***************************************************************************)
(* Settings and agent definitions of packages/subagent: settings.json, the *)
(* markdown files that define agents, and who reads and writes them.       *)
(* Every tool call of the root agent, the start of a session and the       *)
(* command `/subagents' prepare the runtime: they read the settings,       *)
(* configure the limits and load the agent registry anew, with an await at *)
(* every file.  The settings page of the overlay changes settings at once  *)
(* and writes them one after the other; the overlay may be closed and      *)
(* opened again meanwhile.  Other processes and editors change the files   *)
(* at any time, and the process may die in the middle of a write.          *)
(*                                                                         *)
(* Settings are reduced to a limit of the runtime, entered as a number, a  *)
(* mode that is cycled, and what agentDiscovery, which only the file has,  *)
(* says of the sources of agents: which are read, which of them wins and   *)
(* which files count.  The other fields are read, checked and written like *)
(* one of these.                                                           *)
(***************************************************************************)
EXTENDS Integers, Sequences, FiniteSets, SequencesExt

CONSTANTS
  Calls,       \* tool calls of the root agent that may overlap
  Overlays,    \* runs of the `/subagents' command that may overlap
  Startup,     \* the session_start handler
  Names,       \* names of agents
  Extensions,  \* extensions of file names
  ExtensionOf, \* that of the file that defines an agent, by source and name
  Limits,      \* values of maxConcurrentSubagents
  Modes,       \* values of completionNotify, in the order the page cycles them
  Defaults,    \* createDefaultSubagentSettings()
  Written,     \* contents others may write into settings.json
  Given,       \* the definitions there may be at first
  Torn,        \* what a write that is under way, or died, leaves: no JSON
  Nothing,     \* no such thing
  MaxChanges,  \* bound: changes made in the overlay
  MaxEdits     \* bound: changes others make to the files, and restarts

Users == Calls \cup Overlays \cup {Startup}
Policies == {"projectOverridesUser", "userOverridesProject"}
Sources == {"package", "user", "project"}
Switched == {"user", "project"}   \* the sources a setting can switch off

(* What buildAgentDefinition makes of the file that should define an agent: *)
(* one without a valid definition is skipped, and as good as none.         *)
Definitions == {"none", "valid"}

(* includeProjectAgents and projectAgentsStrategy switch off one source. *)
Settings ==
  [limit : Limits, notify : Range(Modes), policy : Policies,
   included : SUBSET Switched, extensions : SUBSET Extensions]

(* A file's fields may be anything; there may be no file. *)
Contents ==
  [limit : Limits \cup {Nothing}, notify : Range(Modes) \cup {Nothing},
   policy : Policies \cup {Nothing}, included : (SUBSET Switched) \cup {Nothing},
   extensions : (SUBSET Extensions) \cup {Nothing}]
    \cup {Torn, Nothing}

ASSUME ConfigurationAssumption ==
  /\ Modes \in Seq(Range(Modes)) /\ Nothing \notin Sources
  /\ Defaults \in Settings /\ Written \subseteq Contents
  /\ Given \subseteq [Sources -> [Names -> Definitions]]
  /\ ExtensionOf \in [Sources -> [Names -> Extensions]]
  /\ MaxChanges \in Nat /\ MaxEdits \in Nat

VARIABLES
  file,      \* settings.json
  agents,    \* the definitions in the directories of each source
  edits,     \* number of changes of others to these, and of restarts
  limit,     \* the limit the runtime is configured with
  current,   \* currentSettings
  registry,  \* AgentRegistry.agents: the source of each agent that is known
  offered,   \* the names in the schema of the registered tool
  prep,      \* prepareSubagentRuntime() for each of its users
  page,      \* the overlay of each command: closed, open, or open with its editor
  shown,     \* the settings it holds
  queue,     \* the settings its saveQueue still has to write, the current one first
  writing,   \* where writeFile() of the head stands
  changes,   \* number of changes made in overlays
  owed,      \* history: the settings that should be in the file once all is written
  quiet,     \* history: preparations with nothing changed since they began
  touched    \* history: agents whose files were changed, or that the settings hid

diskVars == <<file, agents, edits>>
runtimeVars == <<limit, current, registry, offered>>
overlayVars == <<page, shown, queue, writing, changes>>
historyVars == <<owed, quiet, touched>>
vars == <<diskVars, runtimeVars, prep, overlayVars, historyVars>>

-----------------------------------------------------------------------------
NoAgents == [n \in Names |-> Nothing]
Idle == [phase |-> "idle", settings |-> Defaults, todo |-> <<>>, found |-> NoAgents]

TypeOK ==
  /\ file \in Contents /\ agents \in [Sources -> [Names -> Definitions]] /\ edits \in 0..MaxEdits
  /\ limit \in Limits /\ current \in Settings
  /\ registry \in [Names -> Sources \cup {Nothing}] /\ offered \in SUBSET Names
  /\ prep \in [Users -> [phase : {"idle", "reading", "loading", "ready", "over"}, settings : Settings,
                         todo : Seq(Sources), found : [Names -> Sources \cup {Nothing}]]]
  /\ page \in [Overlays -> {"closed", "open", "editing"}]
  /\ shown \in [Overlays -> Settings] /\ queue \in [Overlays -> Seq(Settings)]
  /\ writing \in [Overlays -> {"no", "alone", "among"}] /\ changes \in 0..MaxChanges
  /\ owed \in Settings \cup {Nothing} /\ quiet \subseteq Users /\ touched \subseteq Names

(* Mistake: the contents are spread over the defaults unchecked. *)
NormalizedSpread(c) == c

(* normalizeSettings: a field that is not valid has its default. *)
Normalized(c) ==
  [f \in DOMAIN Defaults |-> IF c[f] = Nothing THEN Defaults[f] ELSE c[f]]

(* load(): no file and no JSON give the defaults, the latter with a warning. *)
Load(c) == IF c \in {Torn, Nothing} THEN Defaults ELSE Normalized(c)

(* A source that is switched off, or a file with another extension, is not *)
(* read; packages cannot be switched off.                                  *)
Visible(settings, s, n) ==
  /\ s \in Switched => s \in settings.included
  /\ ExtensionOf[s][n] \in settings.extensions

(* The sources that define n, of those the settings admit. *)
Holders(defs, settings, n) ==
  {s \in Sources : Visible(settings, s, n) /\ defs[s][n] = "valid"}

(* History: the agents nobody would find who reads these files now. *)
Hidden(contents, defs) == {n \in Names : Holders(defs, Load(contents), n) = {}}

(* The extension is loaded; the registry is empty until the session starts. *)
Init ==
  /\ file \in Written /\ agents \in Given /\ edits = 0
  /\ limit = Defaults.limit /\ current = Defaults
  /\ registry = NoAgents /\ offered = {}
  /\ prep = [u \in Users |-> Idle]
  /\ page = [o \in Overlays |-> "closed"]
  /\ shown = [o \in Overlays |-> Defaults]
  /\ queue = [o \in Overlays |-> <<>>]
  /\ writing = [o \in Overlays |-> "no"] /\ changes = 0
  /\ owed = Nothing /\ quiet = {} /\ touched = Hidden(file, agents)

(* Mistake: the preferred source is read first and overwritten. *)
LoadOrderReversed(policy) ==
  IF policy = "userOverridesProject" THEN <<"package", "user", "project">>
                                     ELSE <<"package", "project", "user">>

(* The order in which reload() goes through the sources, those switched    *)
(* off included, of which it reads nothing; later ones overwrite.          *)
LoadOrder(policy) ==
  IF policy = "userOverridesProject" THEN <<"package", "project", "user">>
                                     ELSE <<"package", "user", "project">>

Saving == {o \in Overlays : queue[o] # <<>>}
Active(u) == prep[u].phase \notin {"idle", "over"}

(* The host handles input once the session_start handlers are over. *)
Started == prep[Startup].phase = "over"

-----------------------------------------------------------------------------
(* prepareSubagentRuntime.                                                 *)

(* The settings file is opened; the preparation is a quiet one if nothing  *)
(* is changing and no older one may bring back what it read before.        *)
Begin(u) ==
  /\ prep[u].phase = "idle"
  /\ prep' = [prep EXCEPT ![u].phase = "reading"]
  /\ quiet' = IF Saving = {} /\ \A v \in Users \ {u} : Active(v) => v \in quiet
              THEN quiet \cup {u} ELSE quiet \ {u}
  /\ UNCHANGED <<diskVars, runtimeVars, overlayVars, owed, touched>>

(* execute() of the root agent's tool. *)
InvokeTool(i) == Started /\ Begin(i)

(* session_start. *)
SessionStart == Begin(Startup)

(* The command, when no overlay has the keyboard. *)
OpenOverlay(o) ==
  /\ Started /\ queue[o] = <<>>
  /\ \A p \in Overlays : page[p] = "closed" /\ ~Active(p)
  /\ Begin(o)

(* Mistake: the registry is cleared before the files are read. *)
ReadSettingsClearing(u) ==
  /\ prep[u].phase = "reading"
  /\ LET s == Load(file)
     IN  /\ prep' = [prep EXCEPT ![u] = [phase |-> "loading", settings |-> s,
                                         todo |-> LoadOrder(s.policy), found |-> NoAgents]]
         /\ limit' = s.limit
  /\ registry' = NoAgents
  /\ UNCHANGED <<diskVars, current, offered, overlayVars, historyVars>>

(* The file is read: configure() takes its limits, reload() begins. *)
ReadSettings(u) ==
  /\ prep[u].phase = "reading"
  /\ LET s == Load(file)
     IN  /\ prep' = [prep EXCEPT ![u] = [phase |-> "loading", settings |-> s,
                                         todo |-> LoadOrder(s.policy), found |-> NoAgents]]
         /\ limit' = s.limit
  /\ UNCHANGED <<diskVars, current, registry, offered, overlayVars, historyVars>>

(* loadAgents() of the next source: of the files with one of the           *)
(* extensions, those without a valid definition are skipped.               *)
ReadSource(u) ==
  /\ prep[u].todo # <<>>
  /\ LET s == Head(prep[u].todo)
     IN  prep' = [prep EXCEPT
           ![u].todo = Tail(@),
           ![u].found = [n \in Names |->
              IF s \in Holders(agents, prep[u].settings, n) THEN s ELSE @[n]]]
  /\ UNCHANGED <<diskVars, runtimeVars, overlayVars, historyVars>>

(* The directories of the packages that are configured come first: those   *)
(* of a package whose manifest names none, or cannot be read, are none.    *)
ReadPackages(u) ==
  /\ prep[u].phase = "loading"
  /\ Len(prep[u].todo) = Cardinality(Sources)
  /\ ReadSource(u)

(* The directories of the user and of the project. *)
ReadDirectory(u) ==
  /\ prep[u].phase = "loading"
  /\ Len(prep[u].todo) < Cardinality(Sources)
  /\ ReadSource(u)

(* What a user is after its preparation: session_start comes only once. *)
Past(u) == [Idle EXCEPT !.phase = IF u = Startup THEN "over" ELSE "idle"]

(* A directory that is not switched off cannot be looked at, or goes       *)
(* between existsSync() and readdir(): the caller fails.  What cannot be   *)
(* read of a package is skipped.                                           *)
PrepareFails(u) ==
  /\ prep[u].phase = "loading"
  /\ Range(prep[u].todo) \cap prep[u].settings.included # {}
  /\ prep' = [prep EXCEPT ![u] = Past(u)]
  /\ quiet' = quiet \ {u}
  /\ UNCHANGED <<diskVars, runtimeVars, overlayVars, owed, touched>>

(* All is read: the registry changes hands, currentSettings follows, and   *)
(* the command shows its overlay.                                          *)
Prepared(u) ==
  /\ prep[u].phase = "loading" /\ prep[u].todo = <<>>
  /\ registry' = prep[u].found
  /\ current' = prep[u].settings
  /\ IF u \in Overlays
     THEN /\ page' = [page EXCEPT ![u] = "open"]
          /\ shown' = [shown EXCEPT ![u] = prep[u].settings]
          /\ prep' = [prep EXCEPT ![u] = Past(u)]
          /\ quiet' = quiet \ {u}
     ELSE prep' = [prep EXCEPT ![u] = [Idle EXCEPT !.phase = "ready"]] /\ UNCHANGED <<page, shown, quiet>>
  /\ UNCHANGED <<diskVars, limit, offered, queue, writing, changes, owed, touched>>

(* A tool call goes on with the settings and the registry as they are. *)
Act(i) ==
  /\ prep[i].phase = "ready"
  /\ prep' = [prep EXCEPT ![i] = Past(i)]
  /\ quiet' = quiet \ {i}
  /\ UNCHANGED <<diskVars, runtimeVars, overlayVars, owed, touched>>

(* session_start goes on after the recovery: the tool is registered anew,  *)
(* with the agents that are known by then.                                 *)
RegisterTool ==
  /\ prep[Startup].phase = "ready"
  /\ offered' = {n \in Names : registry[n] # Nothing}
  /\ prep' = [prep EXCEPT ![Startup] = Past(Startup)]
  /\ quiet' = quiet \ {Startup}
  /\ UNCHANGED <<diskVars, limit, current, registry, overlayVars, owed, touched>>

-----------------------------------------------------------------------------
(* The settings page.                                                      *)

(* onSettingsChange: s is in force at once, and is queued to be written.   *)
Change(o, s) ==
  /\ changes < MaxChanges /\ changes' = changes + 1
  /\ shown' = [shown EXCEPT ![o] = s]
  /\ limit' = s.limit /\ current' = s
  /\ queue' = [queue EXCEPT ![o] = Append(@, s)]
  /\ owed' = IF Saving \subseteq {o} THEN s ELSE Nothing
  /\ quiet' = {}
  /\ UNCHANGED <<diskVars, registry, offered, prep, writing, touched>>

(* Enter on a setting with fixed values: the next one, around the end. *)
CycleMode(o) ==
  /\ page[o] = "open"
  /\ \E k \in 1..Len(Modes) :
       /\ Modes[k] = shown[o].notify
       /\ Change(o, [shown[o] EXCEPT !.notify = Modes[(k % Len(Modes)) + 1]])
  /\ UNCHANGED page

(* Enter on a number opens an editor, which has the keyboard until ... *)
EditNumber(o) ==
  /\ page[o] = "open"
  /\ page' = [page EXCEPT ![o] = "editing"]
  /\ UNCHANGED <<diskVars, runtimeVars, prep, shown, queue, writing, changes, historyVars>>

(* ... a positive whole number is submitted, ... *)
CommitNumber(o, n) ==
  /\ page[o] = "editing"
  /\ page' = [page EXCEPT ![o] = "open"]
  /\ Change(o, [shown[o] EXCEPT !.limit = n])

(* ... or escape is pressed. *)
CancelEditing(o) ==
  /\ page[o] = "editing"
  /\ page' = [page EXCEPT ![o] = "open"]
  /\ UNCHANGED <<diskVars, runtimeVars, prep, shown, queue, writing, changes, historyVars>>

(* The overlay is left; its command waits for saveQueue. *)
Close(o) ==
  /\ page[o] = "open"
  /\ page' = [page EXCEPT ![o] = "closed"]
  /\ shown' = [shown EXCEPT ![o] = Defaults]
  /\ UNCHANGED <<diskVars, runtimeVars, prep, queue, writing, changes, historyVars>>

(* History: what the settings hide from now on. *)
NoteHidden == touched' = touched \cup Hidden(file', agents)

(* writeFile() empties the file, whoever else is writing it. *)
SaveStarts(o) ==
  /\ queue[o] # <<>> /\ writing[o] = "no"
  /\ file' = Torn
  /\ LET others == {p \in Overlays : writing[p] # "no"}
     IN  writing' = [p \in Overlays |->
           IF p \in others THEN "among" ELSE IF p # o THEN "no"
           ELSE IF others = {} THEN "alone" ELSE "among"]
  /\ NoteHidden
  /\ UNCHANGED <<agents, edits, runtimeVars, prep, page, shown, queue, changes, owed, quiet>>

(* Mistake: saves are not chained, and end in any order. *)
SaveEndsUnchained(o) ==
  /\ writing[o] # "no"
  /\ \E k \in 1..Len(queue[o]) :
       /\ file' \in {queue[o][k]} \cup (IF writing[o] = "among" THEN {Torn} ELSE {})
       /\ queue' = [queue EXCEPT ![o] = RemoveAt(@, k)]
  /\ writing' = [writing EXCEPT ![o] = "no"]
  /\ NoteHidden
  /\ UNCHANGED <<agents, edits, runtimeVars, prep, page, shown, changes, owed, quiet>>

(* The write is over; two that overlapped may have left a mixture. *)
SaveEnds(o) ==
  /\ writing[o] # "no"
  /\ file' \in {Head(queue[o])} \cup (IF writing[o] = "among" THEN {Torn} ELSE {})
  /\ queue' = [queue EXCEPT ![o] = Tail(@)]
  /\ writing' = [writing EXCEPT ![o] = "no"]
  /\ NoteHidden
  /\ UNCHANGED <<agents, edits, runtimeVars, prep, page, shown, changes, owed, quiet>>

(* save() rejects, before or after the file was emptied; the user is told  *)
(* and the next one is written.                                            *)
SaveFails(o) ==
  /\ queue[o] # <<>>
  /\ queue' = [queue EXCEPT ![o] = Tail(@)]
  /\ writing' = [writing EXCEPT ![o] = "no"]
  /\ owed' = IF Len(queue[o]) = 1 THEN Nothing ELSE owed
  /\ quiet' = {}
  /\ UNCHANGED <<diskVars, runtimeVars, prep, page, shown, changes, touched>>

-----------------------------------------------------------------------------
(* The world.                                                              *)

(* Another process, or the user, writes settings.json. *)
EditSettings(c) ==
  /\ edits < MaxEdits /\ edits' = edits + 1
  /\ file' = c /\ file' # file
  /\ owed' = Nothing /\ quiet' = {}
  /\ NoteHidden
  /\ UNCHANGED <<agents, runtimeVars, prep, overlayVars>>

(* A definition is written or made valid; or it is removed, invalid or     *)
(* unreadable, or its package is no longer configured.                     *)
EditAgent(s, n, d) ==
  /\ edits < MaxEdits /\ edits' = edits + 1
  /\ agents[s][n] # d
  /\ agents' = [agents EXCEPT ![s][n] = d]
  /\ quiet' = {} /\ touched' = touched \cup {n}
  /\ UNCHANGED <<file, runtimeVars, prep, overlayVars, owed>>

(* The process dies and the next one loads the extension. *)
Restart ==
  /\ Started
  /\ edits < MaxEdits /\ edits' = edits + 1
  /\ limit' = Defaults.limit /\ current' = Defaults
  /\ registry' = NoAgents /\ offered' = {}
  /\ prep' = [u \in Users |-> Idle]
  /\ page' = [o \in Overlays |-> "closed"]
  /\ shown' = [o \in Overlays |-> Defaults]
  /\ queue' = [o \in Overlays |-> <<>>]
  /\ writing' = [o \in Overlays |-> "no"]
  /\ owed' = IF Saving = {} THEN owed ELSE Nothing
  /\ quiet' = {} /\ touched' = Hidden(file, agents)
  /\ UNCHANGED <<file, agents, changes>>

-----------------------------------------------------------------------------
PreparationStep(u) ==
  ReadSettings(u) \/ ReadPackages(u) \/ ReadDirectory(u) \/ PrepareFails(u) \/ Prepared(u)

OverlayStep(o) ==
  \/ OpenOverlay(o) \/ CycleMode(o) \/ EditNumber(o) \/ CancelEditing(o) \/ Close(o)
  \/ \E n \in Limits : CommitNumber(o, n)
  \/ SaveStarts(o) \/ SaveEnds(o) \/ SaveFails(o)

Next ==
  \/ \E u \in Users : PreparationStep(u)
  \/ \E i \in Calls : InvokeTool(i) \/ Act(i)
  \/ SessionStart \/ RegisterTool
  \/ \E o \in Overlays : OverlayStep(o)
  \/ \E c \in Written : EditSettings(c)
  \/ \E s \in Sources, n \in Names, d \in Definitions : EditAgent(s, n, d)
  \/ Restart

Spec == Init /\ [][Next]_vars

-----------------------------------------------------------------------------
(* Once everything is written, the file holds the last choice of the user, *)
(* whatever order the writes ended in and whatever failed before: unless   *)
(* its own write failed, another process wrote the file since, or it was   *)
(* made while an earlier overlay was still writing.                        *)
LastChangeSaved == owed # Nothing /\ Saving = {} => file = owed

(* The definition an agent should have: of the preferred source that has   *)
(* one the settings admit, whatever the order the sources are read in.     *)
Resolved(settings, n) ==
  LET preferred == IF settings.policy = "userOverridesProject" THEN "user" ELSE "project"
      holders == Holders(agents, settings, n)
  IN  CASE holders = {} -> Nothing
        [] preferred \in holders -> preferred
        [] holders = {"package"} -> "package"
        [] OTHER -> CHOOSE s \in holders \ {"package"} : TRUE

(* A caller whose preparation nothing disturbed acts on what the files     *)
(* say: limits, settings and registry agree with them and with each other, *)
(* also when several of them prepare next to each other.                   *)
PreparedIsCurrent ==
  \A u \in quiet : prep[u].phase = "ready" =>
    /\ limit = Load(file).limit /\ current = Load(file)
    /\ \A n \in Names : registry[n] = Resolved(Load(file), n)

(* An agent the tool offers is known whenever a call looks for it, also    *)
(* while others load the registry anew: unless since the process started   *)
(* its files were changed, or settings.json admitted none of them for a    *)
(* moment: one in which the sources or extensions were others, or a save   *)
(* had emptied the file and the defaults, which hide it, were in force.    *)
OfferedIsKnown ==
  \A n \in offered : registry[n] # Nothing \/ n \in touched

(* What the user chose last is in force once everything is written and     *)
(* every preparation is over.                                              *)
ChoiceInForce ==
  owed # Nothing /\ Saving = {} /\ (\A u \in Users : ~Active(u)) => limit = owed.limit
=============================================================================
