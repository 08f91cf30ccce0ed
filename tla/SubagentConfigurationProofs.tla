--------------------- MODULE SubagentConfigurationProofs ---------------------
(***************************************************************************)
(* Settings and agent definitions, for any number of calls, overlays,      *)
(* names, limits, modes and changes.                                       *)
(***************************************************************************)
EXTENDS SubagentConfiguration, TLAPS

USE ConfigurationAssumption

-----------------------------------------------------------------------------
(* Types.                                                                  *)

(* Whatever a file holds gives valid settings. *)
LEMMA LoadType == ASSUME NEW c \in Contents PROVE Load(c) \in Settings
<1>1. CASE c \in {Torn, Nothing}
  BY <1>1 DEF Load
<1>2. CASE c \notin {Torn, Nothing}
  <2>1. c.limit \in Limits \cup {Nothing} /\ c.notify \in Range(Modes) \cup {Nothing}
        /\ c.policy \in Policies \cup {Nothing}
        /\ c.included \in (SUBSET Switched) \cup {Nothing}
        /\ c.extensions \in (SUBSET Extensions) \cup {Nothing}
    BY <1>2 DEF Contents
  <2>2. Defaults.limit \in Limits /\ Defaults.notify \in Range(Modes) /\ Defaults.policy \in Policies
        /\ Defaults.included \in SUBSET Switched /\ Defaults.extensions \in SUBSET Extensions
        /\ DOMAIN Defaults = {"limit", "notify", "policy", "included", "extensions"}
    BY DEF Settings
  <2>3. Normalized(c) = [limit |-> Normalized(c).limit, notify |-> Normalized(c).notify,
                         policy |-> Normalized(c).policy, included |-> Normalized(c).included,
                         extensions |-> Normalized(c).extensions]
    BY <2>2 DEF Normalized
  <2>4. Normalized(c).limit \in Limits /\ Normalized(c).notify \in Range(Modes)
        /\ Normalized(c).policy \in Policies
    BY <2>1, <2>2 DEF Normalized
  <2>5. Normalized(c).included \in SUBSET Switched
        /\ Normalized(c).extensions \in SUBSET Extensions
    <3>1. Normalized(c).included = IF c.included = Nothing THEN Defaults.included ELSE c.included
      BY <2>2 DEF Normalized
    <3>2. Normalized(c).extensions
            = IF c.extensions = Nothing THEN Defaults.extensions ELSE c.extensions
      BY <2>2 DEF Normalized
    <3> QED BY <2>1, <2>2, <3>1, <3>2, Zenon
  <2> HIDE DEF Normalized
  <2>6. Normalized(c) \in Settings
    BY <2>3, <2>4, <2>5 DEF Settings
  <2> QED BY <1>2, <2>6 DEF Load
<1> QED BY <1>1, <1>2

(* Settings may be written into the file. *)
LEMMA SettingsAreContents == Settings \subseteq Contents /\ Torn \in Contents
BY DEF Settings, Contents

LEMMA LoadOrderType ==
  ASSUME NEW policy
  PROVE  /\ LoadOrder(policy) \in Seq(Sources)
         /\ Len(LoadOrder(policy)) = 3
         /\ \A s \in Sources : \E i \in 1..3 : LoadOrder(policy)[i] = s
<1> DEFINE o == LoadOrder(policy)
<1>1. \/ o = <<"package", "project", "user">>
      \/ o = <<"package", "user", "project">>
  BY DEF LoadOrder
<1> HIDE DEF o
<1>2. /\ o \in Seq(Sources) /\ Len(o) = 3 /\ o[1] = "package"
      /\ \/ o[2] = "user" /\ o[3] = "project"
         \/ o[2] = "project" /\ o[3] = "user"
  <2>1. CASE o = <<"package", "project", "user">>
    BY <2>1 DEF Sources
  <2>2. CASE o = <<"package", "user", "project">>
    BY <2>2 DEF Sources
  <2> QED BY <1>1, <2>1, <2>2
<1>3. ASSUME NEW s \in Sources PROVE o[1] = s \/ o[2] = s \/ o[3] = s
  BY <1>2 DEF Sources
<1> QED BY <1>2, <1>3 DEF o

LEMMA PastType ==
  ASSUME NEW u \in Users
  PROVE  /\ Past(u) \in [phase : {"idle", "over"}, settings : Settings, todo : Seq(Sources),
                         found : [Names -> Sources \cup {Nothing}]]
         /\ Past(u).found = NoAgents /\ Idle.found = NoAgents
         /\ Idle \in [phase : {"idle"}, settings : Settings, todo : Seq(Sources),
                      found : [Names -> Sources \cup {Nothing}]]
<1>1. <<>> \in Seq(Sources) /\ NoAgents \in [Names -> Sources \cup {Nothing}]
  BY DEF NoAgents
<1> QED BY <1>1 DEF Past, Idle

-----------------------------------------------------------------------------
Preparation == [phase : {"idle", "reading", "loading", "ready", "over"}, settings : Settings,
                todo : Seq(Sources), found : [Names -> Sources \cup {Nothing}]]

LEMMA InitType == Init => TypeOK
<1> SUFFICES ASSUME Init PROVE TypeOK
  OBVIOUS
<1>1. /\ NoAgents \in [Names -> Sources \cup {Nothing}]
      /\ <<>> \in Seq(Sources) /\ <<>> \in Seq(Settings)
  BY DEF NoAgents
<1>2. Idle \in Preparation
  BY <1>1 DEF Idle, Preparation
<1>3. Defaults.limit \in Limits
  BY DEF Settings
<1>4. Hidden(file, agents) \subseteq Names
  BY DEF Hidden
<1> QED BY <1>1, <1>2, <1>3, <1>4 DEF Init, TypeOK, Preparation

(* The preparations as records. *)
LEMMA PreparationsTyped == TypeOK => prep \in [Users -> Preparation]
BY DEF TypeOK, Preparation

LEMMA BeginType == ASSUME TypeOK, NEW u \in Users, Begin(u) PROVE TypeOK'
<1>1. prep' \in [Users -> Preparation]
  <2>1. [prep[u] EXCEPT !.phase = "reading"] \in Preparation
    BY PreparationsTyped DEF Preparation
  <2> QED BY <2>1, PreparationsTyped DEF Begin
<1>2. quiet' \subseteq Users
  BY DEF Begin, TypeOK
<1> QED BY <1>1, <1>2 DEF Begin, TypeOK, Preparation, diskVars, runtimeVars, overlayVars

LEMMA ReadSettingsType == ASSUME TypeOK, NEW u \in Users, ReadSettings(u) PROVE TypeOK'
<1> DEFINE s == Load(file)
           r == [phase |-> "loading", settings |-> s, todo |-> LoadOrder(s.policy),
                 found |-> NoAgents]
<1>1. s \in Settings
  BY LoadType DEF TypeOK
<1>2. s.limit \in Limits
  BY <1>1 DEF Settings
<1>3. r \in Preparation
  BY <1>1, LoadOrderType DEF Preparation, NoAgents
<1>4. prep' = [prep EXCEPT ![u] = r] /\ limit' = s.limit
      /\ UNCHANGED <<diskVars, current, registry, offered, overlayVars, historyVars>>
  BY DEF ReadSettings
<1> HIDE DEF s, r
<1>5. prep' \in [Users -> Preparation]
  BY <1>3, <1>4, PreparationsTyped
<1> QED BY <1>2, <1>4, <1>5 DEF TypeOK, Preparation, diskVars, overlayVars, historyVars

LEMMA ReadSourceType == ASSUME TypeOK, NEW u \in Users, ReadSource(u) PROVE TypeOK'
<1> DEFINE s == Head(prep[u].todo)
           found == [n \in Names |->
             IF s \in Holders(agents, prep[u].settings, n) THEN s ELSE prep[u].found[n]]
<1>1. prep[u] \in Preparation
  BY PreparationsTyped
<1>2. prep[u].todo \in Seq(Sources) /\ prep[u].todo # <<>>
  BY <1>1 DEF ReadSource, Preparation
<1>3. s \in Sources /\ Tail(prep[u].todo) \in Seq(Sources)
  BY <1>2
<1>4. prep[u].found \in [Names -> Sources \cup {Nothing}]
  BY <1>1 DEF Preparation
<1>5. found \in [Names -> Sources \cup {Nothing}]
  BY <1>3, <1>4
<1>6. /\ prep' = [prep EXCEPT ![u].todo = Tail(prep[u].todo), ![u].found = found]
      /\ UNCHANGED <<diskVars, runtimeVars, overlayVars, historyVars>>
  BY DEF ReadSource
<1> HIDE DEF s, found
<1>7. [prep[u] EXCEPT !.todo = Tail(prep[u].todo), !.found = found] \in Preparation
  BY <1>1, <1>3, <1>5 DEF Preparation
<1>8. prep' \in [Users -> Preparation]
  BY <1>6, <1>7, PreparationsTyped
<1> QED BY <1>6, <1>8 DEF TypeOK, Preparation, diskVars, runtimeVars, overlayVars, historyVars

LEMMA PrepareFailsType == ASSUME TypeOK, NEW u \in Users, PrepareFails(u) PROVE TypeOK'
<1>1. Past(u) \in Preparation
  BY PastType DEF Preparation
<1>2. prep' \in [Users -> Preparation]
  BY <1>1, PreparationsTyped DEF PrepareFails
<1> QED BY <1>2 DEF PrepareFails, TypeOK, Preparation, diskVars, runtimeVars, overlayVars

LEMMA PreparedType == ASSUME TypeOK, NEW u \in Users, Prepared(u) PROVE TypeOK'
<1>1. [Idle EXCEPT !.phase = "ready"] \in Preparation /\ Past(u) \in Preparation
  BY PastType DEF Preparation
<1>2. prep' \in [Users -> Preparation]
  BY <1>1, PreparationsTyped DEF Prepared
<1>3. prep[u].found \in [Names -> Sources \cup {Nothing}] /\ prep[u].settings \in Settings
  BY PreparationsTyped DEF Preparation
<1>4. page' \in [Overlays -> {"closed", "open", "editing"}]
      /\ shown' \in [Overlays -> Settings] /\ quiet' \subseteq Users
  BY <1>3 DEF Prepared, TypeOK
<1> QED BY <1>2, <1>3, <1>4 DEF Prepared, TypeOK, Preparation, diskVars

LEMMA ActType ==
  ASSUME TypeOK, NEW u \in Users, Act(u) \/ (u = Startup /\ RegisterTool) PROVE TypeOK'
<1>1. Past(u) \in Preparation
  BY PastType DEF Preparation
<1>2. prep' \in [Users -> Preparation]
  BY <1>1, PreparationsTyped DEF Act, RegisterTool
<1> QED BY <1>2 DEF Act, RegisterTool, TypeOK, Preparation, diskVars, runtimeVars, overlayVars

(* A change in an overlay, whichever setting it is of. *)
LEMMA ChangeType ==
  ASSUME TypeOK, NEW o \in Overlays, NEW s \in Settings, Change(o, s),
         page' \in [Overlays -> {"closed", "open", "editing"}]
  PROVE  TypeOK'
<1>1. s.limit \in Limits
  BY DEF Settings
<1>2. Append(queue[o], s) \in Seq(Settings)
  BY DEF TypeOK
<1>3. queue' \in [Overlays -> Seq(Settings)]
  BY <1>2 DEF Change, TypeOK
<1> QED BY <1>1, <1>3 DEF Change, TypeOK, diskVars

LEMMA CycleModeType == ASSUME TypeOK, NEW o \in Overlays, CycleMode(o) PROVE TypeOK'
<1>1. PICK k \in 1..Len(Modes) : Change(o, [shown[o] EXCEPT !.notify = Modes[(k % Len(Modes)) + 1]])
  BY DEF CycleMode
<1>2. (k % Len(Modes)) + 1 \in 1..Len(Modes)
  OBVIOUS
<1>3. Modes[(k % Len(Modes)) + 1] \in Range(Modes)
  BY <1>2
<1>4. [shown[o] EXCEPT !.notify = Modes[(k % Len(Modes)) + 1]] \in Settings
  BY <1>3 DEF Settings, TypeOK
<1> QED BY <1>1, <1>4, ChangeType DEF CycleMode, TypeOK

LEMMA CommitNumberType ==
  ASSUME TypeOK, NEW o \in Overlays, NEW n \in Limits, CommitNumber(o, n) PROVE TypeOK'
<1>1. [shown[o] EXCEPT !.limit = n] \in Settings
  BY DEF Settings, TypeOK
<1>2. page' \in [Overlays -> {"closed", "open", "editing"}]
  BY DEF CommitNumber, TypeOK
<1> QED BY <1>1, <1>2, ChangeType DEF CommitNumber

LEMMA PageType ==
  ASSUME TypeOK, NEW o \in Overlays, EditNumber(o) \/ CancelEditing(o) \/ Close(o) PROVE TypeOK'
<1>1. /\ page' \in [Overlays -> {"closed", "open", "editing"}]
      /\ shown' \in [Overlays -> Settings]
  <2>1. CASE EditNumber(o) \/ CancelEditing(o)
    BY <2>1 DEF EditNumber, CancelEditing, TypeOK
  <2>2. CASE Close(o)
    BY <2>2 DEF Close, TypeOK
  <2> QED BY <2>1, <2>2
<1>2. UNCHANGED <<diskVars, runtimeVars, prep, queue, writing, changes, historyVars>>
  BY DEF EditNumber, CancelEditing, Close
<1> QED BY <1>1, <1>2 DEF TypeOK, diskVars, runtimeVars, historyVars

(* What the settings hide is a set of names. *)
LEMMA NoteType == ASSUME touched \subseteq Names, NoteHidden PROVE touched' \subseteq Names
BY DEF NoteHidden, Hidden

LEMMA SaveStartsType == ASSUME TypeOK, NEW o \in Overlays, SaveStarts(o) PROVE TypeOK'
<1>1. file' \in Contents
  BY SettingsAreContents DEF SaveStarts
<1>2. writing' \in [Overlays -> {"no", "alone", "among"}]
  BY DEF SaveStarts
<1>3. touched' \subseteq Names
  BY NoteType DEF SaveStarts, TypeOK
<1> QED BY <1>1, <1>2, <1>3 DEF SaveStarts, TypeOK, runtimeVars

(* What is queued behind the write that ends. *)
LEMMA QueueTail ==
  ASSUME TypeOK, NEW o \in Overlays, queue[o] # <<>>
  PROVE  Head(queue[o]) \in Settings /\ Tail(queue[o]) \in Seq(Settings)
BY DEF TypeOK

LEMMA SaveEndsType ==
  ASSUME TypeOK, NEW o \in Overlays, SaveEnds(o), queue[o] # <<>> PROVE TypeOK'
<1>1. file' \in Contents
  BY QueueTail, SettingsAreContents DEF SaveEnds
<1>2. queue' \in [Overlays -> Seq(Settings)]
  BY QueueTail DEF SaveEnds, TypeOK
<1>3. touched' \subseteq Names
  BY NoteType DEF SaveEnds, TypeOK
<1> QED BY <1>1, <1>2, <1>3 DEF SaveEnds, TypeOK, runtimeVars

LEMMA SaveFailsType == ASSUME TypeOK, NEW o \in Overlays, SaveFails(o) PROVE TypeOK'
<1>1. queue' \in [Overlays -> Seq(Settings)]
  BY QueueTail DEF SaveFails, TypeOK
<1> QED BY <1>1 DEF SaveFails, TypeOK, diskVars, runtimeVars

LEMMA EditSettingsType == ASSUME TypeOK, NEW c \in Written, EditSettings(c) PROVE TypeOK'
<1>1. touched' \subseteq Names
  BY NoteType DEF EditSettings, TypeOK
<1> QED BY <1>1 DEF EditSettings, TypeOK, runtimeVars, overlayVars

LEMMA EditAgentType ==
  ASSUME TypeOK, NEW s \in Sources, NEW n \in Names, NEW d \in Definitions, EditAgent(s, n, d)
  PROVE  TypeOK'
BY DEF EditAgent, TypeOK, runtimeVars, overlayVars

LEMMA RestartType == ASSUME TypeOK, Restart PROVE TypeOK'
<1>1. Idle \in Preparation /\ <<>> \in Seq(Settings) /\ Defaults.limit \in Limits
      /\ NoAgents \in [Names -> Sources \cup {Nothing}]
  <2>1. Startup \in Users
    BY DEF Users
  <2> QED BY <2>1, PastType DEF Preparation, NoAgents, Settings
<1>2. Hidden(file, agents) \subseteq Names
  BY DEF Hidden
<1> QED BY <1>1, <1>2 DEF Restart, TypeOK, Preparation

-----------------------------------------------------------------------------
(* The file.                                                               *)

(* What is being written is queued. *)
WritesQueued == \A o \in Overlays : writing[o] # "no" => queue[o] # <<>>

(* The choice that is owed is in the file, or it is the last one of the    *)
(* only queue there is, and no other write will be mixed up with its own.  *)
OwedIsComing ==
  owed # Nothing =>
    \/ Saving = {} /\ file = owed
    \/ \E o \in Overlays :
         /\ Saving = {o} /\ queue[o][Len(queue[o])] = owed
         /\ Len(queue[o]) = 1 => writing[o] # "among"

SaveInv == TypeOK /\ WritesQueued /\ OwedIsComing

LEMMA ChangeSaves ==
  ASSUME SaveInv, NEW o \in Overlays, NEW s, Change(o, s)
  PROVE  WritesQueued' /\ OwedIsComing'
<1>1. queue \in [Overlays -> Seq(Settings)]
  BY DEF SaveInv, TypeOK
<1>2. queue' = [queue EXCEPT ![o] = Append(queue[o], s)] /\ UNCHANGED writing
      /\ owed' = IF Saving \subseteq {o} THEN s ELSE Nothing
  BY DEF Change
<1>3. /\ Len(Append(queue[o], s)) = Len(queue[o]) + 1 /\ Len(queue[o]) \in Nat
      /\ Append(queue[o], s)[Len(queue[o]) + 1] = s
      /\ Append(queue[o], s) # <<>>
  BY <1>1
<1>4. WritesQueued'
  BY <1>1, <1>2, <1>3 DEF SaveInv, WritesQueued
<1>5. CASE Saving \subseteq {o}
  <2>1. Saving' = {o}
    BY <1>1, <1>2, <1>3, <1>5 DEF Saving
  <2>2. queue'[o][Len(queue'[o])] = owed'
    BY <1>1, <1>2, <1>3, <1>5
  <2>3. Len(queue'[o]) = 1 => writing'[o] # "among"
    <3>1. Len(queue'[o]) = 1 => queue[o] = <<>>
      BY <1>1, <1>2, <1>3
    <3> QED BY <1>2, <3>1 DEF SaveInv, WritesQueued
  <2> QED BY <1>4, <2>1, <2>2, <2>3 DEF OwedIsComing
<1>6. CASE ~(Saving \subseteq {o})
  BY <1>2, <1>4, <1>6 DEF OwedIsComing
<1> QED BY <1>5, <1>6

LEMMA SaveStartsSaves ==
  ASSUME SaveInv, NEW o \in Overlays, SaveStarts(o)
  PROVE  WritesQueued' /\ OwedIsComing'
<1> USE DEF SaveInv
<1>1. UNCHANGED <<queue, owed>> /\ queue[o] # <<>>
  BY DEF SaveStarts
<1>2. \A p \in Overlays : writing'[p] # "no" => p = o \/ writing[p] # "no"
  BY DEF SaveStarts
<1>3. WritesQueued'
  BY <1>1, <1>2 DEF WritesQueued
<1>4. ASSUME owed # Nothing PROVE Saving = {o} /\ writing'[o] = "alone"
  <2>1. Saving = {o}
    BY <1>1, <1>4 DEF OwedIsComing, Saving
  <2>2. {p \in Overlays : writing[p] # "no"} = {}
    BY <2>1 DEF WritesQueued, Saving, SaveStarts
  <2> QED BY <2>1, <2>2 DEF SaveStarts
<1>5. OwedIsComing'
  BY <1>1, <1>4 DEF OwedIsComing, Saving
<1> QED BY <1>3, <1>5

(* What is left of a queue whose head has been dealt with. *)
LEMMA QueueRest ==
  ASSUME TypeOK, NEW o \in Overlays, queue[o] # <<>>
  PROVE  /\ Len(queue[o]) \in Nat \ {0} /\ Len(Tail(queue[o])) = Len(queue[o]) - 1
         /\ Len(queue[o]) = 1 => Tail(queue[o]) = <<>> /\ Head(queue[o]) = queue[o][Len(queue[o])]
         /\ Len(queue[o]) # 1 =>
              /\ Tail(queue[o]) # <<>>
              /\ Tail(queue[o])[Len(Tail(queue[o]))] = queue[o][Len(queue[o])]
<1>1. PICK q \in Seq(Settings) : q = queue[o]
  BY DEF TypeOK
<1>2. Len(q) \in Nat \ {0} /\ Len(Tail(q)) = Len(q) - 1 /\ Tail(q) \in Seq(Settings)
  BY <1>1
<1>3. \A i \in 1..Len(q) - 1 : Tail(q)[i] = q[i + 1]
  BY <1>1
<1>4. Head(q) = q[1]
  BY <1>1
<1>5. Len(q) = 1 => Tail(q) = <<>>
  <2>1. \A r \in Seq(Settings) : Len(r) = 0 => r = <<>>
    OBVIOUS
  <2>2. Len(q) = 1 => Len(Tail(q)) = 0
    BY <1>2
  <2> QED BY <1>2, <2>1, <2>2, Zenon
<1>6. Len(q) # 1 => Len(q) - 1 \in 1..Len(q) - 1 /\ Tail(q) # <<>>
  <2>1. Len(q) # 1 => Len(Tail(q)) # 0 /\ Len(q) - 1 \in 1..Len(q) - 1
    BY <1>2
  <2> QED BY <2>1
<1> QED BY <1>1, <1>2, <1>3, <1>4, <1>5, <1>6

LEMMA SaveEndsSaves ==
  ASSUME SaveInv, NEW o \in Overlays, SaveEnds(o)
  PROVE  WritesQueued' /\ OwedIsComing'
<1> USE DEF SaveInv
<1>1. /\ writing[o] # "no" /\ queue[o] # <<>> /\ UNCHANGED owed
      /\ queue' = [queue EXCEPT ![o] = Tail(queue[o])]
      /\ writing' = [writing EXCEPT ![o] = "no"]
      /\ file' \in {Head(queue[o])} \cup (IF writing[o] = "among" THEN {Torn} ELSE {})
  BY DEF SaveEnds, WritesQueued
<1>2. queue \in [Overlays -> Seq(Settings)] /\ writing \in [Overlays -> {"no", "alone", "among"}]
  BY DEF TypeOK
<1>3. WritesQueued'
  BY <1>1, <1>2 DEF WritesQueued
<1>4. ASSUME owed # Nothing PROVE OwedIsComing'
  <2>1. /\ Saving = {o} /\ queue[o][Len(queue[o])] = owed
        /\ Len(queue[o]) = 1 => writing[o] # "among"
    BY <1>1, <1>4 DEF OwedIsComing, Saving
  <2>2. CASE Len(queue[o]) = 1
    <3>1. Saving' = {}
      BY <1>1, <1>2, <2>1, <2>2, QueueRest DEF Saving
    <3>2. file' = owed'
      BY <1>1, <2>1, <2>2, QueueRest
    <3> QED BY <3>1, <3>2 DEF OwedIsComing
  <2>3. CASE Len(queue[o]) # 1
    <3>1. Saving' = {o}
      BY <1>1, <1>2, <2>1, <2>3, QueueRest DEF Saving
    <3>2. queue'[o][Len(queue'[o])] = owed' /\ writing'[o] = "no"
      BY <1>1, <1>2, <2>1, <2>3, QueueRest
    <3> QED BY <3>1, <3>2 DEF OwedIsComing
  <2> QED BY <2>2, <2>3
<1> QED BY <1>1, <1>3, <1>4 DEF OwedIsComing

LEMMA SaveFailsSaves ==
  ASSUME SaveInv, NEW o \in Overlays, SaveFails(o)
  PROVE  WritesQueued' /\ OwedIsComing'
<1> USE DEF SaveInv
<1>1. /\ queue[o] # <<>> /\ owed' = IF Len(queue[o]) = 1 THEN Nothing ELSE owed
      /\ queue' = [queue EXCEPT ![o] = Tail(queue[o])]
      /\ writing' = [writing EXCEPT ![o] = "no"]
  BY DEF SaveFails
<1>2. queue \in [Overlays -> Seq(Settings)] /\ writing \in [Overlays -> {"no", "alone", "among"}]
  BY DEF TypeOK
<1>3. WritesQueued'
  BY <1>1, <1>2 DEF WritesQueued
<1>4. ASSUME owed' # Nothing PROVE OwedIsComing'
  <2>1. Len(queue[o]) # 1 /\ owed' = owed /\ Saving = {o} /\ queue[o][Len(queue[o])] = owed
    BY <1>1, <1>4 DEF OwedIsComing, Saving
  <2>2. Saving' = {o}
    BY <1>1, <1>2, <2>1, QueueRest DEF Saving
  <2>3. queue'[o][Len(queue'[o])] = owed' /\ writing'[o] = "no"
    BY <1>1, <1>2, <2>1, QueueRest
  <2> QED BY <2>2, <2>3 DEF OwedIsComing
<1> QED BY <1>3, <1>4 DEF OwedIsComing

LEMMA RestartSaves == ASSUME SaveInv, Restart PROVE WritesQueued' /\ OwedIsComing'
<1>1. Saving' = {}
  BY DEF Restart, Saving
<1>2. WritesQueued'
  BY DEF Restart, WritesQueued
<1>3. owed' # Nothing => file' = owed'
  BY DEF Restart, SaveInv, OwedIsComing
<1> QED BY <1>1, <1>2, <1>3 DEF OwedIsComing

(* The other steps leave the queues alone. *)
LEMMA OthersSave ==
  ASSUME SaveInv, UNCHANGED <<queue, writing>>,
         UNCHANGED <<file, owed>> \/ owed' = Nothing
  PROVE  WritesQueued' /\ OwedIsComing'
BY DEF SaveInv, WritesQueued, OwedIsComing, Saving

-----------------------------------------------------------------------------
(* The agents the tool offers.                                             *)

(* A preparation that reads the directories has met a definition of an     *)
(* agent, or is still to meet one that its settings admit.                 *)
WillFind(u, n) ==
  \/ prep[u].found[n] # Nothing
  \/ \E i \in 1..Len(prep[u].todo) : prep[u].todo[i] \in Holders(agents, prep[u].settings, n)

(* While the files are as they were and the settings admit one of them,    *)
(* every preparation finds the agent, and what is offered is known.        *)
KnownStaysKnown ==
  /\ Hidden(file, agents) \subseteq touched
  /\ \A n \in Names \ touched :
       /\ n \in offered => registry[n] # Nothing
       /\ \A u \in Users : prep[u].phase = "loading" => WillFind(u, n)

LEMMA ReadSettingsKnows ==
  ASSUME TypeOK, KnownStaysKnown, NEW u \in Users, ReadSettings(u) PROVE KnownStaysKnown'
<1> DEFINE o == LoadOrder(Load(file).policy)
<1>1. /\ prep' = [prep EXCEPT ![u] = [phase |-> "loading", settings |-> Load(file),
                                      todo |-> o, found |-> NoAgents]]
      /\ UNCHANGED <<file, agents, registry, offered, touched>>
  BY DEF ReadSettings, diskVars, historyVars
<1>2. Len(o) = 3 /\ \A s \in Sources : \E i \in 1..3 : o[i] = s
  BY LoadOrderType
<1> HIDE DEF o
<1>3. /\ \A v \in Users \ {u} : prep'[v] = prep[v]
      /\ prep'[u].settings = Load(file) /\ prep'[u].todo = o
  BY <1>1, PreparationsTyped
<1>4. ASSUME NEW n \in Names \ touched PROVE WillFind(u, n)'
  <2>1. Holders(agents, Load(file), n) # {}
    BY DEF KnownStaysKnown, Hidden
  <2>2. PICK s \in Sources : s \in Holders(agents, Load(file), n)
    BY <2>1 DEF Holders
  <2>3. PICK i \in 1..3 : o[i] = s
    BY <1>2
  <2>4. i \in 1..Len(prep'[u].todo)
        /\ prep'[u].todo[i] \in Holders(agents', prep'[u].settings, n)
    BY <1>1, <1>2, <1>3, <2>2, <2>3
  <2> QED BY <2>4 DEF WillFind
<1>5. ASSUME NEW n \in Names, NEW v \in Users \ {u} PROVE WillFind(v, n)' <=> WillFind(v, n)
  BY <1>1, <1>3 DEF WillFind
<1> QED BY <1>1, <1>3, <1>4, <1>5 DEF KnownStaysKnown

LEMMA ReadSourceKnows ==
  ASSUME TypeOK, KnownStaysKnown, NEW u \in Users, prep[u].phase = "loading", ReadSource(u)
  PROVE  KnownStaysKnown'
<1> DEFINE s == Head(prep[u].todo)
           found == [n \in Names |->
             IF s \in Holders(agents, prep[u].settings, n) THEN s ELSE prep[u].found[n]]
<1>1. prep[u] \in Preparation
  BY PreparationsTyped
<1>2. PICK q \in Seq(Sources) : q = prep[u].todo
  BY <1>1 DEF Preparation
<1>3. q # <<>> /\ s = q[1] /\ s \in Sources /\ Len(Tail(q)) = Len(q) - 1
      /\ Len(q) \in Nat \ {0} /\ \A i \in 1..Len(q) - 1 : Tail(q)[i] = q[i + 1]
  BY <1>2 DEF ReadSource
<1>4. /\ prep' = [prep EXCEPT ![u].todo = Tail(q), ![u].found = found]
      /\ UNCHANGED <<file, agents, registry, offered, touched>>
  BY <1>2 DEF ReadSource, diskVars, runtimeVars, historyVars
<1>5. /\ \A v \in Users \ {u} : prep'[v] = prep[v]
      /\ prep'[u].found = found /\ prep'[u].todo = Tail(q)
      /\ prep'[u].phase = prep[u].phase /\ prep'[u].settings = prep[u].settings
  BY <1>1, <1>4, PreparationsTyped DEF Preparation
<1>6. s # Nothing
  BY <1>3
<1> HIDE DEF s
<1>7. ASSUME NEW n \in Names, WillFind(u, n) PROVE WillFind(u, n)'
  <2>1. CASE found[n] # Nothing
    BY <1>5, <2>1 DEF WillFind
  <2>2. CASE found[n] = Nothing
    <3>1. s \notin Holders(agents, prep[u].settings, n) /\ prep[u].found[n] = Nothing
      BY <1>6, <2>2
    <3>2. PICK i \in 1..Len(q) : q[i] \in Holders(agents, prep[u].settings, n)
      BY <1>2, <1>7, <3>1 DEF WillFind
    <3>3. i # 1 /\ i - 1 \in 1..Len(q) - 1 /\ Tail(q)[i - 1] = q[i]
      BY <1>3, <3>1, <3>2
    <3>4. i - 1 \in 1..Len(Tail(q))
          /\ Tail(q)[i - 1] \in Holders(agents', prep'[u].settings, n)
      BY <1>3, <1>4, <1>5, <3>2, <3>3
    <3> QED BY <1>5, <3>4 DEF WillFind
  <2> QED BY <2>1, <2>2
<1> HIDE DEF found
<1>8. ASSUME NEW n \in Names, NEW v \in Users \ {u} PROVE WillFind(v, n)' <=> WillFind(v, n)
  BY <1>4, <1>5 DEF WillFind
<1> QED BY <1>4, <1>5, <1>7, <1>8 DEF KnownStaysKnown

LEMMA PreparedKnows ==
  ASSUME TypeOK, KnownStaysKnown, NEW u \in Users, Prepared(u) PROVE KnownStaysKnown'
<1>1. /\ prep[u].phase = "loading" /\ prep[u].todo = <<>> /\ registry' = prep[u].found
      /\ UNCHANGED <<file, agents, offered, touched>>
  BY DEF Prepared, diskVars
<1>2. /\ \A v \in Users \ {u} : prep'[v] = prep[v]
      /\ prep'[u].phase # "loading"
  BY PreparationsTyped DEF Prepared, Past, Idle
<1>3. \A n \in Names : WillFind(u, n) => registry'[n] # Nothing
  BY <1>1 DEF WillFind
<1> QED BY <1>1, <1>2, <1>3 DEF KnownStaysKnown, WillFind

(* A user whose preparation begins, fails, or is done with. *)
LEMMA EndKnows ==
  ASSUME TypeOK, KnownStaysKnown, NEW u \in Users,
         Begin(u) \/ PrepareFails(u) \/ Act(u) \/ (u = Startup /\ RegisterTool)
  PROVE  KnownStaysKnown'
<1>1. /\ \A v \in Users \ {u} : prep'[v] = prep[v]
      /\ prep'[u].phase # "loading"
  <2>1. CASE Begin(u)
    BY <2>1, PreparationsTyped DEF Begin, Preparation
  <2>2. CASE ~Begin(u)
    <3>1. prep' = [prep EXCEPT ![u] = Past(u)]
      BY <2>2 DEF PrepareFails, Act, RegisterTool
    <3>2. Past(u).phase # "loading"
      BY DEF Past, Idle
    <3> QED BY <3>1, <3>2, PreparationsTyped
  <2> QED BY <2>1, <2>2
<1>2. /\ UNCHANGED <<file, agents, registry, touched>>
      /\ offered' \in {offered, {n \in Names : registry[n] # Nothing}}
  BY DEF Begin, PrepareFails, Act, RegisterTool, diskVars, runtimeVars
<1> QED BY <1>1, <1>2 DEF KnownStaysKnown, WillFind

LEMMA EditAgentKnows ==
  ASSUME TypeOK, KnownStaysKnown,
         NEW s \in Sources, NEW n \in Names, NEW d \in Definitions, EditAgent(s, n, d)
  PROVE  KnownStaysKnown'
<1>1. /\ touched' = touched \cup {n} /\ UNCHANGED <<file, registry, offered, prep>>
      /\ agents' = [agents EXCEPT ![s][n] = d] /\ agents \in [Sources -> [Names -> Definitions]]
  BY DEF EditAgent, TypeOK, runtimeVars
<1>2. ASSUME NEW r \in Sources, NEW m \in Names \ {n} PROVE agents'[r][m] = agents[r][m]
  BY <1>1
<1>3. ASSUME NEW m \in Names \ {n}, NEW settings
      PROVE  Holders(agents', settings, m) = Holders(agents, settings, m)
  BY <1>2 DEF Holders
<1>4. Hidden(file', agents') \subseteq touched'
  BY <1>1, <1>3 DEF KnownStaysKnown, Hidden
<1>5. ASSUME NEW m \in Names \ {n}, NEW u \in Users PROVE WillFind(u, m)' <=> WillFind(u, m)
  BY <1>1, <1>3 DEF WillFind
<1> QED BY <1>1, <1>4, <1>5 DEF KnownStaysKnown

LEMMA RestartKnows == ASSUME Restart PROVE KnownStaysKnown'
<1>1. /\ \A u \in Users : prep'[u] = Idle
      /\ offered' = {} /\ Hidden(file', agents') \subseteq touched'
  BY DEF Restart
<1>2. Idle.phase = "idle"
  BY DEF Idle
<1> QED BY <1>1, <1>2 DEF KnownStaysKnown

(* The other steps leave the registry and the preparations alone, and note *)
(* what a change of the settings hides.                                    *)
LEMMA OthersKnow ==
  ASSUME KnownStaysKnown, UNCHANGED <<agents, registry, offered, prep>>,
         UNCHANGED <<file, touched>> \/ NoteHidden
  PROVE  KnownStaysKnown'
<1>1. \A n, u : WillFind(u, n)' <=> WillFind(u, n)
  BY DEF WillFind
<1>2. touched \subseteq touched' /\ Hidden(file', agents') \subseteq touched'
  BY DEF KnownStaysKnown, NoteHidden
<1> QED BY <1>1, <1>2 DEF KnownStaysKnown

-----------------------------------------------------------------------------
(* Preparations that nothing disturbs.                                     *)

(* The last of the first k sources of an order that define an agent. *)
BestOf(holders, order, k) ==
  IF k >= 3 /\ order[3] \in holders THEN order[3]
  ELSE IF k >= 2 /\ order[2] \in holders THEN order[2]
  ELSE IF k >= 1 /\ order[1] \in holders THEN order[1]
  ELSE Nothing

(* Reading all in order, later sources overwriting, gives every agent the  *)
(* definition it should have.                                              *)
LEMMA BestIsResolved ==
  ASSUME NEW settings, NEW n \in Names
  PROVE  BestOf(Holders(agents, settings, n), LoadOrder(settings.policy), 3)
           = Resolved(settings, n)
<1> DEFINE policy == settings.policy
           holders == Holders(agents, settings, n)
<1>0. holders \subseteq Sources
  BY DEF Holders
<1>1. ASSUME NEW a \in {"user", "project"}, NEW b \in {"user", "project"} \ {a},
             LoadOrder(policy) = <<"package", b, a>>,
             a = IF policy = "userOverridesProject" THEN "user" ELSE "project"
      PROVE  BestOf(holders, LoadOrder(policy), 3) = Resolved(settings, n)
  <2>1. BestOf(holders, LoadOrder(policy), 3) =
          IF a \in holders THEN a ELSE IF b \in holders THEN b
          ELSE IF "package" \in holders THEN "package" ELSE Nothing
    BY <1>1 DEF BestOf
  <2>2. Resolved(settings, n) =
          CASE holders = {} -> Nothing
            [] a \in holders -> a
            [] holders = {"package"} -> "package"
            [] OTHER -> CHOOSE s \in holders \ {"package"} : TRUE
    BY <1>1 DEF Resolved
  <2> HIDE DEF holders
  <2>3. holders \subseteq {"package", a, b}
    BY <1>0, <1>1 DEF Sources
  <2>4. CASE a \in holders
    BY <2>1, <2>2, <2>4
  <2>5. CASE a \notin holders /\ b \in holders
    <3>1. holders \ {"package"} = {b} /\ holders # {} /\ holders # {"package"}
      BY <1>1, <2>3, <2>5
    <3>2. (CHOOSE s \in {b} : TRUE) = b
      OBVIOUS
    <3> QED BY <2>1, <2>2, <2>5, <3>1, <3>2
  <2>6. CASE a \notin holders /\ b \notin holders
    <3>1. holders = {} \/ holders = {"package"}
      BY <2>3, <2>6
    <3> QED BY <2>1, <2>2, <2>6, <3>1
  <2> QED BY <2>4, <2>5, <2>6
<1>2. CASE policy = "userOverridesProject"
  <2>1. LoadOrder(policy) = <<"package", "project", "user">>
    BY <1>2 DEF LoadOrder
  <2> QED BY <1>1, <1>2, <2>1
<1>3. CASE policy # "userOverridesProject"
  <2>1. LoadOrder(policy) = <<"package", "user", "project">>
    BY <1>3 DEF LoadOrder
  <2> QED BY <1>1, <1>3, <2>1
<1> QED BY <1>2, <1>3

(* A preparation has read the sources in the order of the policy in the    *)
(* file.                                                                   *)
FoundSoFar(u) ==
  LET o == LoadOrder(prep[u].settings.policy)
      k == 3 - Len(prep[u].todo)
  IN  /\ k \in 0..3
      /\ \A i \in 1..Len(prep[u].todo) : prep[u].todo[i] = o[k + i]
      /\ \A n \in Names :
           prep[u].found[n] = BestOf(Holders(agents, prep[u].settings, n), o, k)

(* The definition a preparation that has read the file should find. *)
Best(n) == BestOf(Holders(agents, Load(file), n), LoadOrder(Load(file).policy), 3)

(* What a preparation has done so far agrees with the files. *)
Agrees(u) ==
  /\ prep[u].phase \in {"loading", "ready"} => limit = Load(file).limit
  /\ prep[u].phase = "loading" => prep[u].settings = Load(file) /\ FoundSoFar(u)
  /\ prep[u].phase = "ready" =>
       /\ current = Load(file)
       /\ \A n \in Names : registry[n] = Best(n)

(* While a preparation is quiet, so is every other, and nothing is saved. *)
QuietAgree ==
  quiet # {} =>
    /\ Saving = {}
    /\ \A u \in Users : Active(u) => u \in quiet /\ Agrees(u)

(* What a preparation has found depends on it and on the files. *)
LEMMA FoundSoFarFrame ==
  ASSUME NEW u \in Users, prep'[u] = prep[u], UNCHANGED agents
  PROVE  FoundSoFar(u)' <=> FoundSoFar(u)
BY DEF FoundSoFar

LEMMA BeginAgrees ==
  ASSUME TypeOK, QuietAgree, NEW u \in Users, Begin(u) PROVE QuietAgree'
<1>1. /\ prep' = [prep EXCEPT ![u].phase = "reading"] /\ prep[u].phase = "idle"
      /\ UNCHANGED <<file, agents, limit, current, registry, queue>>
      /\ quiet' = IF Saving = {} /\ \A v \in Users \ {u} : Active(v) => v \in quiet
                  THEN quiet \cup {u} ELSE quiet \ {u}
  BY DEF Begin, diskVars, runtimeVars, overlayVars
<1>2. /\ \A v \in Users \ {u} : prep'[v] = prep[v]
      /\ prep'[u].phase = "reading"
  BY <1>1, PreparationsTyped DEF Preparation
<1>3. Agrees(u)' /\ \A v \in Users \ {u} : (Active(v)' <=> Active(v)) /\ (Agrees(v)' <=> Agrees(v))
  BY <1>1, <1>2 DEF Agrees, Active, FoundSoFar, Best
<1>4. CASE quiet = {}
  BY <1>1, <1>3, <1>4 DEF QuietAgree, Saving
<1>5. CASE quiet # {}
  BY <1>1, <1>3, <1>5 DEF QuietAgree, Saving
<1> QED BY <1>4, <1>5

LEMMA ReadSettingsAgrees ==
  ASSUME TypeOK, QuietAgree, NEW u \in Users, ReadSettings(u) PROVE QuietAgree'
<1> DEFINE o == LoadOrder(Load(file).policy)
<1>1. /\ prep' = [prep EXCEPT ![u] = [phase |-> "loading", settings |-> Load(file),
                                      todo |-> o, found |-> NoAgents]]
      /\ prep[u].phase = "reading" /\ limit' = Load(file).limit
      /\ UNCHANGED <<file, agents, current, registry, queue, quiet>>
  BY DEF ReadSettings, diskVars, overlayVars, historyVars
<1>2. Len(o) = 3
  BY LoadOrderType
<1> HIDE DEF o
<1>3. /\ \A v \in Users \ {u} : prep'[v] = prep[v]
      /\ prep'[u].settings = Load(file) /\ prep'[u].todo = o /\ prep'[u].phase = "loading"
      /\ \A n \in Names : prep'[u].found[n] = Nothing
  BY <1>1, PreparationsTyped DEF NoAgents
<1>5. FoundSoFar(u)'
  <2>1. LoadOrder(prep'[u].settings.policy) = o /\ Len(prep'[u].todo) = 3
    BY <1>2, <1>3 DEF o
  <2>2. 3 - 3 = 0 /\ 0 \in 0..3 /\ \A i \in 1..3 : 0 + i = i
    OBVIOUS
  <2>3. \A i \in 1..3 : prep'[u].todo[i] = o[0 + i]
    BY <1>3, <2>2
  <2>4. ASSUME NEW n \in Names PROVE prep'[u].found[n] = BestOf(Holders(agents', prep'[u].settings, n), o, 0)
    BY <1>3 DEF BestOf
  <2> QED BY <2>1, <2>2, <2>3, <2>4 DEF FoundSoFar
<1>6. Agrees(u)'
  BY <1>1, <1>3, <1>5 DEF Agrees
<1>7. ASSUME NEW v \in Users \ {u}
      PROVE  (Active(v)' <=> Active(v)) /\ (Agrees(v) => Agrees(v)')
  <2>1. FoundSoFar(v)' <=> FoundSoFar(v)
    BY <1>1, <1>3, FoundSoFarFrame
  <2>2. prep'[v] = prep[v]
    BY <1>3
  <2> QED BY <1>1, <2>1, <2>2 DEF Agrees, Active, Best
<1>8. Active(u)
  BY <1>1 DEF Active
<1> QED BY <1>1, <1>6, <1>7, <1>8 DEF QuietAgree, Saving

LEMMA ReadSourceAgrees ==
  ASSUME TypeOK, QuietAgree, NEW u \in Users, prep[u].phase = "loading", ReadSource(u)
  PROVE  QuietAgree'
<1> DEFINE s == Head(prep[u].todo)
           found == [n \in Names |->
             IF s \in Holders(agents, prep[u].settings, n) THEN s ELSE prep[u].found[n]]
<1>1. prep[u] \in Preparation
  BY PreparationsTyped
<1>2. PICK q \in Seq(Sources) : q = prep[u].todo
  BY <1>1 DEF Preparation
<1>3. q # <<>> /\ s = q[1] /\ Len(Tail(q)) = Len(q) - 1
      /\ Len(q) \in Nat \ {0} /\ \A i \in 1..Len(q) - 1 : Tail(q)[i] = q[i + 1]
  BY <1>2 DEF ReadSource
<1>4. /\ prep' = [prep EXCEPT ![u].todo = Tail(q), ![u].found = found]
      /\ UNCHANGED <<file, agents, limit, current, registry, queue, quiet>>
  BY <1>2 DEF ReadSource, diskVars, runtimeVars, overlayVars, historyVars
<1>5. /\ \A v \in Users \ {u} : prep'[v] = prep[v]
      /\ prep'[u].found = found /\ prep'[u].todo = Tail(q)
      /\ prep'[u].phase = "loading" /\ prep'[u].settings = prep[u].settings
  BY <1>1, <1>4, PreparationsTyped DEF Preparation
<1> HIDE DEF s
<1>6. ASSUME FoundSoFar(u) PROVE FoundSoFar(u)'
  <2> DEFINE o == LoadOrder(prep[u].settings.policy)
             k == 3 - Len(q)
  <2>0. k \in 0..3 /\ \A i \in 1..Len(q) : q[i] = o[k + i]
    BY <1>2, <1>6 DEF FoundSoFar
  <2>1. k \in 0..2 /\ 3 - Len(Tail(q)) = k + 1 /\ s = o[k + 1]
        /\ \A i \in 1..Len(q) : q[i] = o[k + i]
    BY <1>3, <2>0
  <2>2. ASSUME NEW n \in Names PROVE found[n] = BestOf(Holders(agents, prep[u].settings, n), o, k + 1)
    <3> DEFINE h == Holders(agents, prep[u].settings, n)
    <3>1. prep[u].found[n] = BestOf(h, o, k)
      BY <1>2, <1>6 DEF FoundSoFar
    <3>2. found[n] = IF s \in h THEN s ELSE prep[u].found[n]
      OBVIOUS
    <3> HIDE DEF o, found, k
    <3>3. CASE k = 0
      BY <2>1, <3>1, <3>2, <3>3 DEF BestOf
    <3>4. CASE k = 1
      BY <2>1, <3>1, <3>2, <3>4 DEF BestOf
    <3>5. CASE k = 2
      BY <2>1, <3>1, <3>2, <3>5 DEF BestOf
    <3> QED BY <2>1, <3>3, <3>4, <3>5
  <2>3. \A i \in 1..Len(Tail(q)) : Tail(q)[i] = o[k + 1 + i]
    BY <1>3, <2>1
  <2>4. LoadOrder(prep'[u].settings.policy) = o
    BY <1>5
  <2> HIDE DEF found
  <2>5. prep'[u].todo = Tail(q) /\ prep'[u].found = found /\ prep'[u].settings = prep[u].settings
    BY <1>5
  <2> HIDE DEF o, k
  <2>6. k + 1 \in 0..3
    BY <2>1
  <2> QED BY <1>4, <2>1, <2>2, <2>3, <2>4, <2>5, <2>6 DEF FoundSoFar
<1>7. Agrees(u) => Agrees(u)'
  BY <1>4, <1>5, <1>6 DEF Agrees
<1>8. ASSUME NEW v \in Users \ {u}
      PROVE  (Active(v)' <=> Active(v)) /\ (Agrees(v) => Agrees(v)')
  <2>1. FoundSoFar(v)' <=> FoundSoFar(v)
    BY <1>4, <1>5, FoundSoFarFrame
  <2>2. prep'[v] = prep[v]
    BY <1>5
  <2> QED BY <1>4, <2>1, <2>2 DEF Agrees, Active, Best
<1>9. Active(u)
  BY DEF Active
<1> QED BY <1>4, <1>7, <1>8, <1>9 DEF QuietAgree, Saving

LEMMA PreparedAgrees ==
  ASSUME TypeOK, QuietAgree, NEW u \in Users, Prepared(u) PROVE QuietAgree'
<1>1. /\ prep[u].phase = "loading" /\ prep[u].todo = <<>>
      /\ registry' = prep[u].found /\ current' = prep[u].settings
      /\ UNCHANGED <<file, agents, limit, queue>>
      /\ \/ quiet' = quiet
         \/ quiet' = quiet \ {u} /\ prep' = [prep EXCEPT ![u] = Past(u)]
      /\ prep' \in {[prep EXCEPT ![u] = Past(u)], [prep EXCEPT ![u] = [Idle EXCEPT !.phase = "ready"]]}
  BY DEF Prepared, diskVars
<1>2. /\ \A v \in Users \ {u} : prep'[v] = prep[v]
      /\ prep'[u].phase \in {"ready", "idle", "over"}
      /\ u \notin quiet' => prep'[u].phase \in {"idle", "over"} \/ u \notin quiet
  BY <1>1, PreparationsTyped DEF Past, Idle
<1>3. SUFFICES ASSUME quiet' # {} PROVE QuietAgree'
  BY DEF QuietAgree
<1>4. /\ Saving = {} /\ \A v \in Users : Active(v) => v \in quiet /\ Agrees(v)
  BY <1>1, <1>3 DEF QuietAgree
<1>5. Active(u) /\ u \in quiet /\ Agrees(u)
  BY <1>1, <1>4 DEF Active
<1>6. /\ limit = Load(file).limit /\ current' = Load(file)
      /\ \A n \in Names : registry'[n] = Best(n)
  <2>1. Len(prep[u].todo) = 0
    BY <1>1
  <2> QED BY <1>1, <1>5, <2>1 DEF Agrees, FoundSoFar, Best
<1>7. ASSUME NEW v \in Users, Agrees(v) PROVE Agrees(v)'
  <2>1. \A n \in Names : registry'[n] = Best(n)'
    BY <1>1, <1>6 DEF Best
  <2>2. limit' = Load(file').limit /\ current' = Load(file')
    BY <1>1, <1>6
  <2>3. CASE v = u
    BY <1>2, <2>1, <2>2, <2>3 DEF Agrees
  <2>4. CASE v # u
    <3>1. prep'[v] = prep[v] /\ (FoundSoFar(v)' <=> FoundSoFar(v))
      BY <1>1, <1>2, <2>4, FoundSoFarFrame
    <3> QED BY <1>1, <1>7, <2>1, <2>2, <3>1 DEF Agrees
  <2> QED BY <2>3, <2>4
<1> QED BY <1>1, <1>2, <1>4, <1>5, <1>7 DEF QuietAgree, Active, Saving

(* A user whose preparation fails, or is done with. *)
LEMMA EndAgrees ==
  ASSUME TypeOK, QuietAgree, NEW u \in Users,
         PrepareFails(u) \/ Act(u) \/ (u = Startup /\ RegisterTool)
  PROVE  QuietAgree'
<1>1. /\ prep' = [prep EXCEPT ![u] = Past(u)] /\ quiet' = quiet \ {u}
      /\ UNCHANGED <<file, agents, limit, current, registry, queue>>
  BY DEF PrepareFails, Act, RegisterTool, diskVars, runtimeVars, overlayVars
<1>2. /\ \A v \in Users \ {u} : prep'[v] = prep[v]
      /\ ~Active(u)'
  BY <1>1, PreparationsTyped DEF Past, Idle, Active
<1>3. \A v \in Users \ {u} : (Active(v)' <=> Active(v)) /\ (Agrees(v)' <=> Agrees(v))
  BY <1>1, <1>2 DEF Agrees, Active, FoundSoFar, Best
<1> QED BY <1>1, <1>2, <1>3 DEF QuietAgree, Saving

(* A write means that something is being saved. *)
LEMMA WriteAgrees ==
  ASSUME QuietAgree, WritesQueued, NEW o \in Overlays, SaveStarts(o) \/ SaveEnds(o)
  PROVE  QuietAgree'
<1>1. Saving # {} /\ UNCHANGED quiet
  BY DEF SaveStarts, SaveEnds, WritesQueued, Saving
<1> QED BY <1>1 DEF QuietAgree

(* The other steps change nothing, or disturb them all. *)
LEMMA OthersAgree ==
  ASSUME QuietAgree,
         \/ quiet' = {}
         \/ UNCHANGED <<file, agents, limit, current, registry, prep, queue, quiet>>
  PROVE  QuietAgree'
<1>1. CASE quiet' = {}
  BY <1>1 DEF QuietAgree
<1>2. CASE UNCHANGED <<file, agents, limit, current, registry, prep, queue, quiet>>
  <2>1. \A u \in Users : FoundSoFar(u)' <=> FoundSoFar(u)
    BY <1>2, FoundSoFarFrame
  <2>2. \A u \in Users : (Active(u)' <=> Active(u)) /\ (Agrees(u)' <=> Agrees(u))
    BY <1>2, <2>1 DEF Active, Agrees, Best
  <2> QED BY <1>2, <2>2 DEF QuietAgree, Saving
<1> QED BY <1>1, <1>2

-----------------------------------------------------------------------------
IInv ==
  /\ TypeOK
  /\ WritesQueued /\ OwedIsComing
  /\ KnownStaysKnown
  /\ QuietAgree

LEMMA InitIInv == Init => IInv
<1> SUFFICES ASSUME Init PROVE IInv
  OBVIOUS
<1>1. TypeOK
  BY InitType
<1>2. WritesQueued /\ OwedIsComing /\ QuietAgree
  BY DEF Init, WritesQueued, OwedIsComing, QuietAgree
<1>3. Idle.phase = "idle" /\ \A n \in Names : Idle.found[n] = Nothing /\ NoAgents[n] = Nothing
  BY DEF Idle, NoAgents
<1>4. /\ registry = NoAgents /\ offered = {}
      /\ \A u \in Users : prep[u] = Idle
  BY DEF Init
<1>5. KnownStaysKnown
  BY <1>3, <1>4 DEF KnownStaysKnown, Init
<1> QED BY <1>1, <1>2, <1>5 DEF IInv

LEMMA PreparationKeeps ==
  ASSUME IInv, NEW u \in Users,
         Begin(u) \/ PreparationStep(u) \/ Act(u) \/ (u = Startup /\ RegisterTool)
  PROVE  IInv'
<1> USE DEF IInv
<1>1. UNCHANGED <<queue, writing, file, owed>>
  BY DEF Begin, PreparationStep, ReadSettings, ReadPackages, ReadDirectory, ReadSource,
         PrepareFails, Prepared, Act, RegisterTool, diskVars, overlayVars, historyVars
<1>2. WritesQueued' /\ OwedIsComing'
  BY <1>1, OthersSave DEF SaveInv
<1>3. CASE Begin(u)
  BY <1>2, <1>3, BeginType, EndKnows, BeginAgrees
<1>4. CASE ReadSettings(u)
  BY <1>2, <1>4, ReadSettingsType, ReadSettingsKnows, ReadSettingsAgrees
<1>5. CASE ReadPackages(u) \/ ReadDirectory(u)
  <2>1. prep[u].phase = "loading" /\ ReadSource(u)
    BY <1>5 DEF ReadPackages, ReadDirectory
  <2> QED BY <1>2, <2>1, ReadSourceType, ReadSourceKnows, ReadSourceAgrees
<1>6. CASE PrepareFails(u)
  BY <1>2, <1>6, PrepareFailsType, EndKnows, EndAgrees
<1>7. CASE Prepared(u)
  BY <1>2, <1>7, PreparedType, PreparedKnows, PreparedAgrees
<1>8. CASE Act(u) \/ (u = Startup /\ RegisterTool)
  BY <1>2, <1>8, ActType, EndKnows, EndAgrees
<1> QED BY <1>3, <1>4, <1>5, <1>6, <1>7, <1>8 DEF PreparationStep

LEMMA OverlayKeeps == ASSUME IInv, NEW o \in Overlays, OverlayStep(o) PROVE IInv'
<1> USE DEF IInv
<1>1. CASE OpenOverlay(o)
  <2>1. o \in Users
    BY DEF Users
  <2> QED BY <1>1, <2>1, PreparationKeeps DEF OpenOverlay
<1>2. ASSUME NEW s, Change(o, s) PROVE KnownStaysKnown' /\ QuietAgree'
  BY <1>2, OthersKnow, OthersAgree DEF Change, diskVars
<1>3. CASE CycleMode(o)
  <2>1. \E s : Change(o, s)
    BY <1>3 DEF CycleMode
  <2> QED BY <1>2, <1>3, <2>1, CycleModeType, ChangeSaves DEF SaveInv
<1>4. ASSUME NEW n \in Limits, CommitNumber(o, n) PROVE IInv'
  <2>1. \E s : Change(o, s)
    BY <1>4 DEF CommitNumber
  <2> QED BY <1>2, <1>4, <2>1, CommitNumberType, ChangeSaves DEF SaveInv
<1>5. CASE EditNumber(o) \/ CancelEditing(o) \/ Close(o)
  <2>1. UNCHANGED <<diskVars, runtimeVars, prep, queue, writing, changes, historyVars>>
    BY <1>5 DEF EditNumber, CancelEditing, Close
  <2> QED BY <1>5, <2>1, PageType, OthersSave, OthersKnow, OthersAgree
          DEF SaveInv, diskVars, runtimeVars, historyVars
<1>6. CASE SaveStarts(o)
  <2>1. UNCHANGED <<agents, registry, offered, prep>> /\ NoteHidden
    BY <1>6 DEF SaveStarts, runtimeVars
  <2> QED BY <1>6, <2>1, SaveStartsType, SaveStartsSaves, OthersKnow, WriteAgrees DEF SaveInv
<1>7. CASE SaveEnds(o)
  <2>1. UNCHANGED <<agents, registry, offered, prep>> /\ NoteHidden /\ queue[o] # <<>>
    BY <1>7 DEF SaveEnds, runtimeVars, WritesQueued
  <2> QED BY <1>7, <2>1, SaveEndsType, SaveEndsSaves, OthersKnow, WriteAgrees DEF SaveInv
<1>8. CASE SaveFails(o)
  <2>1. UNCHANGED <<file, agents, registry, offered, prep, touched>> /\ quiet' = {}
    BY <1>8 DEF SaveFails, runtimeVars, diskVars
  <2> QED BY <1>8, <2>1, SaveFailsType, SaveFailsSaves, OthersKnow, OthersAgree DEF SaveInv
<1> QED BY <1>1, <1>3, <1>4, <1>5, <1>6, <1>7, <1>8 DEF OverlayStep

LEMMA WorldKeeps ==
  ASSUME IInv,
         \/ \E c \in Written : EditSettings(c)
         \/ \E s \in Sources, n \in Names, d \in Definitions : EditAgent(s, n, d)
         \/ Restart
  PROVE  IInv'
<1> USE DEF IInv
<1>1. ASSUME NEW c \in Written, EditSettings(c) PROVE IInv'
  <2>1. /\ UNCHANGED <<agents, registry, offered, prep, queue, writing>>
        /\ quiet' = {} /\ owed' = Nothing /\ NoteHidden
    BY <1>1 DEF EditSettings, runtimeVars, overlayVars
  <2> QED BY <1>1, <2>1, EditSettingsType, OthersSave, OthersKnow, OthersAgree DEF SaveInv
<1>2. ASSUME NEW s \in Sources, NEW n \in Names, NEW d \in Definitions, EditAgent(s, n, d)
      PROVE IInv'
  <2>1. UNCHANGED <<queue, writing, file, owed>> /\ quiet' = {}
    BY <1>2 DEF EditAgent, overlayVars
  <2> QED BY <1>2, <2>1, EditAgentType, OthersSave, EditAgentKnows, OthersAgree DEF SaveInv
<1>3. CASE Restart
  <2>1. quiet' = {}
    BY <1>3 DEF Restart
  <2> QED BY <1>3, <2>1, RestartType, RestartSaves, RestartKnows, OthersAgree DEF SaveInv
<1> QED BY <1>1, <1>2, <1>3

LEMMA StepKeeps == IInv /\ [Next]_vars => IInv'
<1> SUFFICES ASSUME IInv, [Next]_vars PROVE IInv'
  OBVIOUS
<1>1. ASSUME NEW u \in Users, PreparationStep(u) PROVE IInv'
  BY <1>1, PreparationKeeps
<1>2. ASSUME NEW i \in Calls, InvokeTool(i) \/ Act(i) PROVE IInv'
  <2>1. i \in Users
    BY DEF Users
  <2> QED BY <1>2, <2>1, PreparationKeeps DEF InvokeTool
<1>3. CASE SessionStart \/ RegisterTool
  <2>1. Startup \in Users
    BY DEF Users
  <2> QED BY <1>3, <2>1, PreparationKeeps DEF SessionStart
<1>4. ASSUME NEW o \in Overlays, OverlayStep(o) PROVE IInv'
  BY <1>4, OverlayKeeps
<1>5. CASE UNCHANGED vars
  <2>1. UNCHANGED <<diskVars, runtimeVars, prep, overlayVars, historyVars>>
    BY <1>5 DEF vars
  <2>2. TypeOK'
    BY <2>1 DEF IInv, TypeOK, diskVars, runtimeVars, overlayVars, historyVars
  <2> QED BY <2>1, <2>2, OthersSave, OthersKnow, OthersAgree
          DEF IInv, SaveInv, diskVars, runtimeVars, overlayVars, historyVars
<1> QED BY <1>1, <1>2, <1>3, <1>4, <1>5, WorldKeeps DEF Next

(* The inductive invariant of the configuration. *)
THEOREM Invariance == Spec => []IInv
BY InitIInv, StepKeeps, PTL DEF Spec

(* Files, settings, registry, preparations and overlays keep their types. *)
THEOREM TypeCorrect == Spec => []TypeOK
BY Invariance, PTL DEF IInv

(* Once everything is written, the file holds the last choice of the user. *)
THEOREM ChoiceIsSaved == Spec => []LastChangeSaved
<1>1. IInv => LastChangeSaved
  BY DEF IInv, OwedIsComing, LastChangeSaved, Saving
<1> QED BY <1>1, Invariance, PTL

(* A caller whose preparation nothing disturbed acts on what the files     *)
(* say, however many prepare next to it.                                   *)
THEOREM PreparationsAgree == Spec => []PreparedIsCurrent
<1>1. ASSUME IInv, NEW u \in quiet, prep[u].phase = "ready"
      PROVE  /\ limit = Load(file).limit /\ current = Load(file)
             /\ \A n \in Names : registry[n] = Resolved(Load(file), n)
  <2>1. u \in Users /\ Active(u)
    BY <1>1 DEF IInv, TypeOK, Active
  <2>2. Agrees(u)
    BY <1>1, <2>1 DEF IInv, QuietAgree
  <2> QED BY <1>1, <2>2, BestIsResolved DEF Agrees, Best
<1>2. IInv => PreparedIsCurrent
  BY <1>1 DEF PreparedIsCurrent
<1> QED BY <1>2, Invariance, PTL

(* An agent the tool offers is known, unless since the process started its *)
(* files were changed or settings.json, or the defaults that stand in for  *)
(* it while a save has emptied it, admitted none of them.                  *)
THEOREM OfferedStaysKnown == Spec => []OfferedIsKnown
<1>1. IInv => OfferedIsKnown
  BY DEF IInv, TypeOK, KnownStaysKnown, OfferedIsKnown
<1> QED BY <1>1, Invariance, PTL

=============================================================================
