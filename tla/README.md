# A verification project for pi9

pi9 is a monorepo of extensions for a coding agent: `subagent` (delegation to
child agents), `whisper` (messages between agents), `ask` (questions to the
user), `todo`, `persona` and `context`. This directory holds TLA+ models of the
parts with hard behaviour, TLC configurations that check them on small
instances, and TLAPS proofs that lift the safety properties to every value of
the constants. `PROJECT.json` is the index: components, runs, mutants, the map
from each definition to the source lines it translates, hazards, findings and
theorems.

JavaScript runs a handler to completion, so everywhere in these models **one
action is one synchronous stretch of code**, from an entry point or the
continuation of an `await` to the next `await` or the end. The interleavings
are those of promise reactions, timers, callbacks and callers. Everything the
stretch calls that changes state is part of the action.

To check something: `tlc -workers 2 -config MCConversation.cfg MCConversation`,
and `tlapm ConversationProofs.tla` for the proofs.

## 1. Inventory

### 1.1 The subagent extension (`packages/subagent/src`)

The largest package, and the one with the concurrency: an agent spawns child
agents that execute in the background, in the same process or in a terminal
pane, and spawn children themselves.

**Execution queue** (`scheduler.ts`, `ExecutionQueue`). State: callbacks that
wait (`pending`), a counter (`executing`), a limit that the settings may change
at any time, and two flags per task in the closure of `enqueue`. Operations:
`enqueue`, the start of a task, `suspendDuring` (the slot is given up while the
task awaits other work, then asked for again), the task's end, `cancel`,
`abandon`, `configure`. Hard: a slot is released in four places and each may
meet any other in any order; an abandoned task may be waiting for a slot;
`configure` does not flush. Right when: the counter equals the slots really
held; nobody waits next to a free slot a release made; first in, first out; no
admission beyond the limit in force; nobody starves.

**Conversation and generation** (`conversation.ts`). State: generations with a
status, an outcome, a joined mark and a count of observers; `stopping`, the
session or the session file that a resume continues, the chain of steers, and
their receipts. Operations: begin, bind a session or control, settle, resume,
steer, abort, force-abandon, observe, mark joined. Hard: a cancel and the end
of the execution settle the same generation; a cancellation is over when the
abort and the execution have both settled, or when a timer gives up on them;
steers are sent across awaits. Right when: a generation has one final outcome;
a resume never overlaps with an older execution; no receipt stays open; what
was steered into an aborted generation never reaches a later one.

**Runtime catalog** (`runtime.ts`, `SubagentRuntime`). State: the retained
conversations, the tree they form, identifiers that are never given back, a
capacity. Operations: spawn and resume in batches, cancel, join, steer, remove
subtrees, restore persisted conversations, open panes. They are called by the
root agent, the overlay and the children's own tools. Hard: a child's call
captures its caller, awaits, and acts after the caller was cancelled, resumed
or removed. Right when: no orphans, no growth beyond the capacity, a removal
takes a whole inactive subtree, a join collects the generation it bound.

**Tool surface** (`tool.ts`, `contract.ts`, `schema.ts`). Validates and projects;
its one step with state is `joinAction`, which awaits the targets while the
caller's slot is given up.

**Persistence and recovery** (`index.ts` 160-460, `runtime.ts` 250-592 and
990-1107). State: entries in the session branch, leases of running panes and an
index of finished conversations. Operations: append on status changes, retry a
lease that failed, restore at session start. Hard: a crash between the steps of
a launch; a batch with duplicate keys or absent parents; a rebinding awaited in
the middle of a restore. Right when: what was running in a pane that survived
is found again, what was finished is found with its outcome, and what was
removed stays removed.

**Pane execution** (`pane-execution.ts`, `pane-child.ts`, `pane-activity.ts`).
State: panes and their placement, launch files, sidecar files that carry
activity and completion from the child process. Hard: cancelling during a
launch, closing a pane that belongs to a newer generation, observing a process
that is gone. Right when: every pane is owned by one conversation and closed
once.

**Completion notifier** (`notifications.ts`). State: the generations it has
delivered, those the model has seen, those in their grace period, one timer for
the grace period and one for retries, the claims of tool calls that are about
to show a result themselves, markers along the branch. Operations: `flush`
(what is finished and nobody else shows is sent), the events of the tool, the
runtime and the host, a promise per delivery. Hard: a delivery may be refused
after the session was replaced; one timer serves all completions; entries of
the branch may fail to append. Right when: each completion reaches the model,
and once unless a session ended before its entry was on the branch; what it saw
is not announced to it.

**Settings and agent definitions** (`settings.ts`, `agents.ts`, `command/`).
State: the file `settings.json`, the settings and limits in force, the registry
of agents, the settings page of the overlay and its queue of saves. Operations:
every call of the tool, the start of a session and the overlay read everything
anew, with an await at every file; the page changes settings at once and saves
them in the background. Hard: readers and writers overlap at every await, other
processes write the same files, a write may be torn. Right when: the last choice
ends up in the file; who prepared the runtime undisturbed acts on what the files
say; an agent that was offered is found unless the files or the settings took it
away.

Also: overlay browsing, widget, renderer, which only project state to text.

### 1.2 The other packages

- **whisper** (`index.ts`): agents register in a shared directory of files with a
  heartbeat, and send messages, asks and replies over HTTP to the port they find
  there. Hard: a reply that
  arrives after its ask timed out, a cancellation that overtakes the ask, an
  inbox at its cap, a heartbeat written after the deregistration. Right when:
  nothing that arrived is lost to one who waits, a reply that reports success
  ended the ask, the registry tells in the end who is there.
- **ask** (`index.ts`, `state.ts`, `session.ts`, `deadline.ts`): a questionnaire
  with a deadline whose answer may be replayed later. Hard: the deadline, the
  abort of the call and the user's answer race; answers given again live on a
  branch that the user may leave. Right when: the outcome names what ended the
  question, the answer is one the question admits, and the user and the model
  see the same answer.
- **todo** (`state.ts`, `persistence.ts`, `reminder-cadence.ts`, `widget.ts`): a
  plan kept along the branch, reminders every few turns, a widget with a clear
  timer. Hard: long sequences of prompts, compactions, jumps and restarts. Right
  when: plan and widget follow the branch, reminders keep their distance.
- **persona** (`index.ts`, `state.ts`): the selected persona and the messages that
  tell the model of it, restored from the branch at a session's start and not at
  `/tree`. Right when: a prompt is answered under the persona that is active, and
  a selection is the branch's unless `/tree` led to a branch with another one.
- **context**: renders the context window; no state between commands.

### 1.3 How they interact

`tool.ts` and the overlay call `SubagentRuntime`; it creates `Conversation`s and
passes each generation to `GenerationScheduler.schedule`, which enqueues a task
in the `ExecutionQueue`; the task runs an executor (`execute.ts` in the process,
`pane-execution.ts` in a pane), which binds a session or a control back to the
`Conversation`. Every change of a conversation goes through the runtime's update
listeners: the joins, the notifier, the widgets and the persistence hang there.
A child's session has the same tool, with a lease of its slot. `ask`, `whisper`,
`todo` and `persona` share nothing with it but the session branch. `prepareInvocation`
reads settings and agents before every call of the root agent, and configures
the queue and the catalog with the limits it found.

## 2. Modules

| module | models | composes |
|---|---|---|
| `SlotPool` | abstract: a pool of slots in order of request | |
| `ExecutionQueue` | `ExecutionQueue`, `createLease`, `configure` | implements `SlotPool` |
| `DelegatedExecution` | generations that join each other through one queue | extends `ExecutionQueue` |
| `GenerationHistory` | abstract: an append-only history of generations | |
| `Conversation` | one conversation, its executions, joins, steers, cancels | implements `GenerationHistory` |
| `PaneExecution` | the panes, child processes and the sidecar of one conversation | extends `Conversation`, whose steps it implements |
| `SubagentCatalog` | the tree of conversations and the tool calls on it | abstracts `Conversation` to its life cycle |
| `SubagentRecovery` | the session branch, crashes, `recoverPersistedConversations` | keeps the catalog's life cycle, adds files, panes and the branch |
| `CompletionNotifier` | `CompletionNotifier`, its timers, deliveries and markers | abstracts the runtime to the end of generations |
| `SubagentConfiguration` | settings file, agent registry, settings page | |
| `Whisper` | registry, heartbeat, messages, asks and replies of several processes | |
| `AskDialog` | one question with its form, its RPC dialogs and its deadline | |
| `SessionTree` | the entries of a session and what a branch and a context are (external) | |
| `TodoList`, `Persona`, `AskReplay` | the three extensions that live on the branch | each extends `SessionTree` |
| `Session` | the events of a session, handled by all that are installed | composes the three |
| `DelegatedExecutionProofs` | theorems about `ExecutionQueue` and `DelegatedExecution` | |
| `ConversationProofs` | theorems about `Conversation` and `PaneExecution` | |
| `SubagentCatalogProofs`, `SubagentRecoveryProofs`, `CompletionNotifierProofs`, `SubagentConfigurationProofs`, `WhisperProofs` | theorems about the module of that name | |
| `SessionProofs` | theorems about `Session` and `AskDialog` | |
| `MC...` | TLC instances; a `.cfg` each per run | |

Operators whose comment starts with **Mistake** are no part of a specification.
Each is what a slip in the code would make of the definition below it (a guard
forgotten, an off-by-one, a missing release); `PROJECT.json` pairs it with the
property that is violated when it takes that definition's place. They document
how strong the properties are.

### 2.1 `ExecutionQueue`

`phase` is where the code of a task stands; `pending`, `executing`,
`maxExecuting`, `occupyingSlot`, `abandoned` are the fields and closure variables
of that name, `settled` the completion promise. `Flush` is `flush()`, called with
what the rest of the handler leaves behind; it is inside every action whose
handler calls it, and `Configure` has none because `configure()` has none. A
callback in `pending` is its task: which of the two callbacks it is (start, or
the resolver of `acquire`) follows from the phase. `start()` marks the slot,
`acquire()` leaves it to its continuation (`Resume`), hence the phase "granted"
and `Holders`.

`SlotPool` says nothing of tasks or counters: clients hold or wait, in order, in
a pool of a given size. The refinement maps `Holders`, `pending` and
`maxExecuting`.

### 2.2 `DelegatedExecution`

Adds `done` (the generation's settlement, which a cancel makes earlier than the
task's), and what each task's joins wait for: `yielding` for the join that
suspended the lease, `holding` for one that runs next to it. `ParallelCalls` is
whether one turn of a session may issue several tool calls. After its generation
was aborted a session may go on calling for a while here, more than the abort
lets it in the code. `YieldsToAwaited` looks at the tasks that wait for one
another over any number of joins: `WaitsFor` is the least set closed under
`Awaited`, written without recursion.

### 2.3 `Conversation`

One conversation with all its generations. `exec` is where the execution of each
generation stands, `completion` the promise that `schedule` returns and
`startTasks` observes, `stopping` the field with its two flags, `abortStep` the
awaits inside `abort()`, `steerTail` the promise chain with its steers in order,
`sessionQueue` the messages queued in the child's session. `PaneBacked` selects
the executor: in-process (`execute.ts`) the conversation keeps a session and a
forced abandonment gives it up; with panes it keeps the session file, which
survives. The order of the code is kept where it matters: `abort()` settles
before its first await and clears the session queue before and after it waits
for the steers; `AcceptSteer` looks at the conversation again; the pane executor
retains its file before it binds.

`GenerationHistory` is the view of those who hold a generation: numbered,
appended one at a time once the last one is done, collected and unobserved,
with final outcomes.

External, and modelled by how it is used: the child's session takes queued
messages only while its generation runs; executors, aborts and sends may take
for ever.

### 2.4 `SubagentCatalog`

The whole tree. `call` holds the tool calls under way. A free call stands for
the root agent, which acts at once; `Invoke` is a child's call, which captures
its conversation and generation, awaits `prepareInvocation`, and acts in a later
step whatever happened meanwhile. One conversation is reduced to the status of
its latest generation (`queued`, `running`, `finished`, `aborted`), to
`stopping`, `session` and `joined`; `session` stands for
`hasRetainedResumableSession`, so "finished" without a session covers the
outcomes that are no basis for a resume. A conversation that was removed leaves
no data, only its claimed identifier.

`Quiet` is an assumption about the agent loop, which is not part of the
repository: a run of a session ends only after the tool calls it made. A call
that is interrupted by a cancel still has to answer before the execution ends.

`RemovesJoined` restricts the environment: with FALSE nobody removes the target
of a join that is open. The code does not prevent it (see finding 2); what
follows the exception it leads to is not modelled, so the passing run assumes it
away and the violation run shows it.

### 2.5 `SubagentRecovery`

Three kinds of state with three life times. The *branch* survives everything:
`index` is the last entry of each generation and `leases` its lease, both as the
readers of `index.ts` fold them (an entry voids the lease of its generation
wherever it stands; a later entry replaces an earlier one), and `ended` is the
order of the completions. The *world* survives the process: surfaces, child
processes, sidecar files. The *catalog* is what `Crash` takes away and `Start`
begins to rebuild.

`Start`, `BeginRound`, `Refuse`, `RestoreFinished`, `AwaitRebinding`, `Rebound`,
`RebindFails` and `EndRecovery` are the stretches of
`recoverPersistedConversations`, in the code's order; its locals are the record
`recovery`. The one `await` that matters is the rebinding: in the phase
"rebinding" children finish, panes vanish and recovered children settle. The
other steps follow each other without an await: while the phase is "recovering"
only the world and a crash come between them, which in the code falls before or
after. A session file is the generation it is named after, since the two readers
compare exactly that name; a file whose outcome is no basis for a resume counts
as none. `Selected` and `Restorable` are the two loops of
`restoreTerminalConversations`: the newest first with the ancestors they need,
then parents before children. The first is a fold over all of `ended` from its
end, which passes over what is not recoverable, as the code's list of the
recoverable ones does not have it.

Left out, and assumed: a crash falls between two synchronous stretches (inside
`launchPaneExecution`'s sleep it leaves at most an empty surface); appends do not
fail (`PaneExecution` has the one of a lease that does); nobody cancels; identifiers are drawn once in all (the allocator sees to
it within one process); tools are not called before `session_start` is over;
completion times are distinct; nobody navigates between branches or reopens
panes. The candidates of a batch are tried in any order, the code's is that of
their names. The child processes of the pane executor get no subagent tool
today, so deeper trees come from in-process parents or sessions that mixed
executors; recovery handles them, and so does the model.

### 2.6 `PaneExecution`

`Conversation` with `PaneBacked`, and under each of its steps what happens to
panes. `launch` is the await at which a launch stands (extension paths, the
multiplexer, the half second given to a new surface), `view` the same of a call
of `openConversationPane`; `pane` and `child` are the surfaces and the processes
in them, `sidecar` the one `.exit` file that all generations of the conversation
share, `taken` what the executor polled from it, `retained` the field
`retainedPane`. The interrupt of a cancel, the child and the launch script all
write the sidecar; the child may still end normally while it is being
interrupted. Panes vanish at any time, by the user's hand. `LaunchPaneFails` and
`BindPaneFails` are the two ways a launch ends in an error: before the pane is
bound, and in `bindControl`, where the listener that appends the lease may throw.

Every step is a step of `Conversation` or leaves it alone (proved), so its
theorems hold here. Nothing in the module relies on `PaneBacked`: its run sets it,
and its theorems hold without it. Steers and removal are left to the other two
modules.

### 2.7 `CompletionNotifier`

`gracePending`, `delivered`, `observed`, `pendingDelivered`, `migrationPending`,
`toolOpportunity` (`retryToolOpportunity`) and `claims` (`claimsByInvocation`)
are the fields; `armed` and `graceArmed` are the two timers, `sent` the promises
of `sendMessage` with the session they belong to. `flush` is one operator, used
by every handler that calls it. The branch keeps `markers`, `migrated` and what
it has `indexed`. `announced`, `forgotten` and `seen` are history: the code has no
such state, the properties need it. `announced` counts over all sessions and is
never reset, a refusal takes its count back, and `forgotten` is what it was when a
session ended without an entry for the generation on the branch. The runtime is
reduced to the end, the join and the removal of generations. `mode` is fixed per behaviour.

### 2.8 `SubagentConfiguration`

`prep` is where each caller of `prepareSubagentRuntime` stands between its awaits,
with what it has read; `limit`, `current` and `registry` are what is in force,
`offered` the names in the tool's description, which are fixed at session start;
`page`, `shown`, `queue` and `writing` are the runs of the overlay with the chain
of saves. A save that is under way has emptied the file (`writeFile`), two that
overlap may leave a mixture (`Torn`). One number and one enumeration stand for
the settings of the page. What only the file has decides on agents: `policy` which
source wins, `included` which of the user's and the project's directories are
read (`includeUserAgents`, `includeProjectAgents`, `projectAgentsStrategy`), and
`extensions` which files count. `Holders` are the sources that define an agent and
that the settings admit. `owed` is history: the choice that the file should end up
with; `quiet` is who was not disturbed, and `touched` the agents whose definitions
were changed since the process started, or that the settings in the file, or the
defaults while it is empty, hid for a moment (`Hidden`).

### 2.9 `Whisper`

Several processes, each with its extension in a `status`, its file in the
directory (`record`, `writing`, `doomed`), its `inbox` and blocked `wait` calls.
A request is a message on the `wire`, which may be refused, time out and still be
handled, or be overtaken by another. `ask` is the promise of `askAgent`,
`pending` the map of the target, `cancel` the withdrawal under way and `reply`
the stage of each `replyToAsk` between its awaits. `Monitor` is the poll of the
registry that fails the asks to a process that is gone. Time is reduced to what
may be stale: a record expires in one step, at any time. A `wait` that times out
or is aborted leaves the place it had among the waiters of its process.

### 2.10 `Session`: `TodoList`, `Persona`, `AskReplay`

`SessionTree` is the host: entries with a parent and their data, a leaf, the
branch, and the context that begins at the last compaction. As a parent is always
older than its children, a branch is a set of entries whose order is that of
their numbers, and "the last entry such that" is the greatest number. `Session` has one action per event of
the host (start, fork, close, `/tree`, prompt, turn, run, compaction) and in it
the handlers of every extension installed, in the same step because the host
awaits them before it goes on. The three extensions keep in memory what the
entries say; `TodoList` has the plan with its validation, the cadence of
reminders and the widget; `Persona` the selection, the baseline and the messages
that wait for the end of a turn; `AskReplay` the answers given again and what
they replace in display and context. While a turn waits for the answer to an ask
the model calls no other tool (`executionMode: "sequential"`), but the user may
still switch the persona, so that the result of the ask need not follow its call
directly: `AsksAt` finds the call behind the selections. `unseen` and `carried`
are history; `carried` says that the selection in memory was brought by `/tree` to
a branch that stores another one, and ends with the next choice, compaction or
start of a session.

### 2.11 `AskDialog`

One question, with any of its settings, in the terminal or through RPC. `row`,
`editor`, `draft`, `checked`, `comments`, `written` are the form; texts are
reduced to being there; `ticks` and `timedOut` are the deadline, `aborted` the
signal of the tool call, `dialog` and `unasked` the sequence of RPC dialogs.
`cause` is history. The names of the specification carry the module's
(`DialogSpec`, `DialogTypeOK`), so that one module can speak of it and of `Session`.

## 3. Runs

| run | instance | shows |
|---|---|---|
| `delegated_execution` | 4 tasks in a tree of depth 3, limits {1,2} | slots accounted for, first in first out (refinement of `SlotPool`), no slot kept by one who waits for the queue, whoever waits is served |
| `delegated_parallel` | the same, limit 1, parallel calls | violated: finding 1 |
| `subagent_catalog` | 3 identifiers, 2 calls, limits {1,3}, 2 generations | tree, capacity, joins and their records, removal |
| `catalog_removed_target` | as above, limit 3, removals unrestricted | violated: finding 2 |
| `conversation` | 2 generations, 2 steers, 1 join, in process | executions never overlap, receipts are closed, aborted steers are dropped; refinement of `GenerationHistory`; cancels end |
| `pane_execution` | 2 generations, 1 join, 1 viewer | every open pane has an owner; a result is its own generation's |
| `subagent_recovery` | 3 conversations (a chain and a sibling), limits {2,3}, 2 generations, 2 starts | recovered trees, nothing that fits left out, joined stays joined |
| `completion_notifier` | 1 subagent, 2 generations, 1 call, modes auto and steer, 1 refusal, 2 sessions | announced once but for what a session leaves unmarked, not if seen, and in the end |
| `subagent_configuration` | 1 call, 2 overlays, the session's start, 1 agent of 3 sources, limits {1,2}, 2 changes, 1 edit | the last choice is saved, preparations agree with the files, offered agents are found while files and settings admit them |
| `whisper` | 2 processes, 1 ask, 1 message, 1 wait, 1 reply, an inbox of 1 | nothing that arrived is lost, replies settle asks, the registry converges |
| `session` | one extension at a time and persona beside ask, 4 entries, 5 for asks alone | memory, widget and context follow the branch, the persona not where `/tree` leads to another one; reminders keep their distance; prompts are answered under the active persona |
| `ask_dialog` | 2 options, 2 ticks, every setting, terminal and RPC | the outcome names its cause, answers fit the question, deadlines pass |

Why these bounds. *Delegation*: the chain p, b, c makes a waiter wait for a
waiter, a is the sibling that competes; with them there are a holder, one waiting
to start and one waiting to continue at once, which is every kind of entry in
`pending`; a limit that moves between 1 and 2 goes below and above the slots
held. *Catalog*: three conversations make a chain and a fork; two calls make
every pair that races; `MaxResumed = 1` keeps a single conversation beyond its
first generation, `MaxBatch = 2` lets a batch hit the capacity in its middle.
*Conversation* and *panes*: two generations suffice for everything that relates a
generation to its successor, two steers for the chain, one viewer for what may
come between a generation and the next. *Recovery*: a chain needs an ancestor
restored first, a sibling competes with it for the room; the limits make the
room scarcer at the second start than at the first, or the cap on terminal
conversations lower than the capacity; the second generation is the one whose
file has another name, and one conversation that may have it (`Resumed`) shows
what a resume can do. Two starts suffice for what a crash leaves behind.
*Notifier*: the keys of two generations differ in what was delivered and what is
in its grace period; a late promise needs a second session, a retry one refusal.
*Configuration*: a call overlaps with the session's start and with an overlay,
and one overlay with the one opened after it; the second change is the one that
queues behind the first. The user's definition has an extension that the defaults
do not admit and both contents others may write do; one of these switches the
user's directory off. So an edit, a save and the empty file of a save may each hide
the agent. *Whisper*: one ask and one message fill an inbox of one and push each
other out, and either process may be gone at any stage of them. *Session*: four
entries hold a selection or snapshot, a branch beside it and a compaction; a
replayed answer needs one more; persona beside ask puts a selection between a call
and its result. *Dialog*: two options make single and multiple choice differ, two
ticks a reset.

Identifiers, calls and overlays are interchangeable, and symmetry is used for
safety properties only (a run with symmetry has no liveness property). Deadlock
is not checked (`CHECK_DEADLOCK FALSE`): every system here may stop, when all
tasks are over and nobody calls. That nothing stops too early is what
`EveryoneServed`, `CancelEnds`, `EventuallyAnnounced`, `RegistryConverges` and
`DeadlinePasses` say.

### 3.1 Fairness

- `DelegatedExecution`: weak fairness of each generation's steps: the event loop
  runs every `setImmediate` callback and promise reaction it was given. Strong
  fairness of its end: a session that is idle again and again does not call tools
  for ever instead of ending its turn. Nobody has to spawn, cancel or configure.
- `Conversation`: the settlement timer fires, promise reactions run, the chain of
  steers goes on. Executors, aborts and sends have no fairness, they may hang;
  `CancelEnds` holds all the same, through the timer.
- `Whisper`: the heartbeat of a process that is up, writes of its record, the
  ageing of a record nobody refreshes, and the poll of the registry by each ask.
  Requests may never be answered.
- `CompletionNotifier`: a run of the agent ends, the grace timer fires, and the
  retry timer, which is set again as long as the agent is busy, also fires while
  it is idle if it is idle again and again (strong fairness). In mode `steer` the
  notifier waits for an opportunity inside a run, so `EventuallyAnnounced` is
  stated for mode `auto`. It says that no completion is lost, not that none is
  announced before its grace period is over.
- `AskDialog`: the deadline's timers. The user need not do anything.
- The other modules state no liveness: their callers may stop at any time, and
  what they wait for is the file system or the user.

### 3.2 Findings and observations

Two have a run that TLC finds violated (paths in `packages/subagent`):

1. `suspendDuring` gives the slot up for the first of two concurrent calls
   only. When the first join of a turn ends, the task takes a slot back while
   the second still waits for queued work (`src/scheduler.ts:34` against the
   comment at `src/scheduler.ts:6`).
2. A finished target of a join that still waits for another one can be removed;
   the join's update listener then throws out of `SubagentRuntime.updated`
   (`src/tool.ts:420` against `CHANGELOG.md:146` and `README.md:92`).

The following are operators of the models that state what a document says, or
what one would expect, and that the models violate. They have no run of their
own; adding the operator to the run's configuration shows the trace.

- *Recovery*. `RemovedStaysRemoved`: nothing marks the entries of a removed
  conversation, so the next start restores it (`src/index.ts:200`).
  `ResumesJoinedResult`: a resumed generation continues the file of generation 1,
  and the reader of leases accepts only a file named after the lease's own
  generation; after a restart the child that runs is unknown, and the conversation
  may be resumed from its older result meanwhile (`src/index.ts:450` against
  `README.md:78`). `DonePanesClosed`: a child that finished while the process was
  down is settled without its pane being bound, so nobody closes the pane
  (`src/runtime.ts:501` against `README.md:114`).
- *Conversation*. A forced abandonment clears `stopping` and keeps the session
  file, so a pane-backed conversation resumes while the abandoned executor may
  still be at work (`src/conversation.ts:573` against `CHANGELOG.md:136`):
  `ExecutorCleanedUp`, with `PaneBacked = TRUE` and three generations.
- *Panes*. A generation cancelled while its pane is launched leaves the pane, and
  the child in it, running until the next pane or the removal
  (`src/pane-execution.ts:311`); this is the exception in `PanesOwned`. The same
  follows when the append of its lease fails (`src/index.ts:221`): the generation
  ends in an error while its child works, and the retry timer finds a generation
  that is over; the test at `recovery.test.ts:349` exercises the retry with a
  listener of its own. `LivePaneKept`: a viewer opened before a resume, or a
  launch that was given up, retains its surface late and closes the pane of the
  generation that runs. What a child left running writes may be taken for the
  completion of a later generation: the exception in `ResultIsOwn`.
- *Notifier*. What a session announced and did not mark on its branch before it
  ended, because the append failed or the promise was open
  (`src/notifications.ts:371`, `:407`), the next one announces again; and if that
  open promise is then refused, it un-marks what the present session announced
  (`:350`). Both are the exception in `AnnouncedOnce`, `forgotten`. What the model
  saw is kept for the session only.
- *Configuration*. `ChoiceInForce`: a preparation that read before a change
  configures the older limits after it, and one that reads while a save is in
  progress, or after a crash in it, takes the defaults. A save writes all fields,
  those another process changed since included; an overlay opened while an earlier
  one still writes reads the older choice. The names in the tool's description are
  those of the session's start: one that the settings hide afterwards, by a switch
  of `agentDiscovery` or by the defaults while a save has emptied the file, is
  offered and unknown (`src/agents.ts:133`), the exception in `OfferedIsKnown`.
- *Whisper*. `PendingAskIsWanted`: an ask whose cancellation was lost stays pending
  at its target (packages/whisper, `DESIGN.md`, life cycle of an inbound ask).
- *Persona*. `SelectionOnBranch`: `/tree` keeps the selection in memory and does not
  store it on the branch it leads to (packages/persona, `README.md:60`); hence the
  exemption `carried` in `SelectionSurvives`. A run
  that an answer given again starts has no `before_agent_start`: a persona chosen
  since the last prompt reaches the model with the next one. `PromptedAsActive`
  speaks of prompts only.

## 4. Proofs

TLAPS proves what follows for every value of the constants, from the
assumptions named in the modules and no others. Every safety invariant and every
action property that a passing run checks is a theorem. Every proof has the same
shape: an inductive invariant, `Init =>` it, one lemma per action for its
preservation, the property from it, and a temporal step. TLC finds the inductive
invariants to hold on the instances of the runs.

Two things that look like induction over data are done without it. What holds of
every number is shown by the least one of which it does not hold (`LeastNumber`
in `SessionProofs` and `SubagentRecoveryProofs`, from the library's theorem that
`<` on the naturals is well founded). A recursive function and a fold are defined
by a choice among the functions that satisfy the equation; the lemmas show that
one exists (`PathsExist`, `FoldExists`), after which the equation is all that is
used. This is how a session of any length and any list of completions come within
reach.

**`DelegatedExecutionProofs`.** The queue first (any finite set of tasks, any set
of positive limits). `IInv` ties each phase to what the task may hold and to its
place in `pending`: a task is in `pending` exactly once and only when it waits.
Without that, neither "the counter is the number of holders" nor "whoever is
cancelled holds nothing" is preserved, as `Flush` turns whatever is in the queue
into holders. Proved: `TypeCorrect`, `SlotAccounting`, `NoWakeupLost`,
`AbandonedReleases`, `FinishedReleases`, `AdmissionWithinLimit` (an action
property), and `QueueImplementsSlotPool`, the refinement of `SlotPool`.

Then the tree (any forest of tasks). Every step of
the tree is a step of the queue or leaves it alone, so the queue's invariant and
its refinement carry over (`DelegationSlots`, `DelegationImplementsSlotPool`).
`DelegationInv` adds that one who joins in `yielding` has suspended its slot
(`JoinsSuspend`), that abandoned tasks are done, and that with sequential calls
only one that is done may still have a join beside it (`HoldersAreDone`). Proved:
`DelegationTypeCorrect` and `WaitingYields`, under the assumption `~ParallelCalls`,
which finding 1 shows to be needed: whoever waits for somebody holds no slot, so
no chain of waiters can keep the slot its end needs.

**`ConversationProofs`** (any number of generations, any steers and observers,
both executors). `IInv` adds to the types: how status, execution and completion
of a generation combine (`Lifecycle`), that a generation that is done is owed an
end of its execution only by `stopping` (`OwedIsStopping`), that until it is
given up that end is real (`SettledIsOver`), that a steer being sent heads the
chain (`SteerChain`), what a session or session file implies (`Resources`), and
that with the session executor what may still be resumed has nothing unfinished
behind it, because a forced abandonment takes the session along
(`SessionsExclusive`). Proved: `TypeCorrect`, `OlderExecutionsSettled`,
`ResumedHasSession`, `ReceiptsSettled`, `StoppingAccurate`,
`SessionExecutionsDisjoint` (for `~PaneBacked`; 3.2 says why the premise is
needed) and `ConversationImplementsHistory`, the refinement.
`AbortedSteersDropped` needs a second invariant, `SteersInv`, on top of the
first: whatever is left of an aborted generation in the session's queue, or on
its way there, belongs to the latest generation while its abort has still to
clear the queue (`LeftoversDrained`), and until then the conversation is stopping
or has lost its session, so that no resume comes between (`DrainingHolds`).

The second half is about panes (any joins and viewers).
`PanesImplementConversation`: every step is one of `Conversation`, so `IInv` holds
here as well. `PaneInv` adds the stages of a launch and what a cancel overtook
(`LaunchStages`, `OvertakenByCancel`). Proved: `PaneTypeCorrect` and
`PanesHaveOwners`. `ResultsAreOwn` needs one more invariant, `ResultInv`: a child
at work has its pane, and its executor unless that one was overtaken
(`ChildrenAtWork`); a generation that ended in an error is not continued
(`Continued`), so that only a cancel leaves a child behind that writes for the
next; hence what is in the sidecar once the latest generation cleared it, and what
a generation took from it, is its own or comes after a cancel (`SidecarOwn`,
`TakenOwn`).

**`CompletionNotifierProofs`** (any subagents, calls, refusals and sessions).
`IInv` says that what does not count as delivered, or would not in the next
session, has not been announced since it was forgotten, or was refused (`Owed`),
that what was shown is observed (`SeenObserved`), and that pending work has its
timer. `AnnouncesOnce` is the whole claim over all sessions: at most one
announcement more than what the sessions before left without an entry. Proved:
`TypeCorrect`, `AnnouncesOnce`, `SeenIsNotAnnounced` (an action property) and
`PendingIsArmed`.

**`SubagentConfigurationProofs`** (any callers, overlays, names, limits and
bounds). `IInv` says that a write under way is the head of its queue
(`WritesQueued`), that the choice owed is the last in the queue or in the file
(`OwedIsComing`), that a name nothing hid since the process started is found by
every preparation, because each has met a source that defines it or is still to
meet one that its own settings admit (`KnownStaysKnown`), and that what an undisturbed caller has read agrees with the
files (`QuietAgree`). Proved: `TypeCorrect`, `ChoiceIsSaved`,
`PreparationsAgree`, `OfferedStaysKnown`.

**`SubagentCatalogProofs`** (any finite set of identifiers, any calls, limits
and bounds). `IInv` adds that what is stopping is done, that calls refer to
claimed identifiers only (so no new conversation can be mistaken for their caller
or target), and that the caller of an open call, if retained, still has the
generation it was captured with: it is running, stopping, or over without a
session, and none of these may be resumed (`OwnersHeld`). `Subtree` is a least
fixed point; the proofs use only that it contains its root and is closed under
children. Proved:
the properties of the run, the types and `RemovalSparesActive`.

**`SubagentRecoveryProofs`** (any finite set of conversations, any tree, limits
and number of generations and starts). `IInv` says that a later entry of a
conversation never stands without the first and no lease beside an entry
(`Branch`), that a conversation of the catalog is done exactly when its latest
generation has an entry and that no later one has (`Agreement`), that every file
is that of the first generation (`FirstFile`), and what recovery relies on after
an await: candidates are not in the catalog and keep their lease, and those of
the batch have their parent there (`CandidatesLeased`, `BatchRooted`). The last
is why no orphan appears although `restoreActivePane` inserts without looking
again: nothing that runs during the await removes. Proved: `RecoveredTrees` and
`ResultsStayJoined`.

Two more invariants stand on it. `ListInv` has the other types and that every
conversation with an entry is among the completions (`CompletionsListed`):
`TypeCorrect`. `RoomReserved` says that once a terminal conversation was restored,
the catalog and all candidates that are still to be tried fit under the limit
together: `CapacityIsReserved`, a lease is turned away for lack of room only when
there are more of them than room. `RecoveryFillsUp` uses both: `SelectedSteps`
names the intermediate results of the fold over the completions, which grow and
stay within the budget (`SelectedFacts`); a conversation that would fit at the end
would have fitted when its turn came, and its turn came because it is listed.

**`WhisperProofs`** (any processes, messages, asks, waits and replies). A blocked
wait is in one place of one process (`Placed`, `Blocked`), and a process that has
waiters has an empty inbox (`Idle`): an arrival wakes the first waiter in the same
step or stays in an inbox nobody waits at. Of an ask that was not posted nobody
knows anything (`Unposted`), only a handled one is pending (`PendingHandled`), only
a settled one is withdrawn (`WithdrawnSettled`), and a target that still has its
memory owes an answer to what it handled (`Owed`). Proved: `TypeCorrect`,
`ArrivalsKept` and `AcknowledgedSettles`.

**`SessionProofs`.** First `Session` (any of the extensions, any tasks, personas,
calls and answers, a session of any length). `SessionInv` has a part for the tree
and one for each extension. `TreeInv`: parents come first, each entry has the data
of its kind, a compaction cuts below itself. From that follow the lemmas about
paths and contexts, above all that appending leaves the older paths as they are.
`TodoInv`: the turns that are counted are among those since the model last saw the
plan (`CadenceInv`); the cadence is reset where the plan is shown and never counts
twice. `PersonaInv`: unless `/tree` led to a branch that stores another one, and no
choice, compaction or start came since, the selection is that of the branch;
`BranchIsTrue` claims no more of the persona. `AskInv`: a call is made once, results and replays stand below their call,
and a call is answered again at most once on a branch (`AsksInv`), because what is
asked again is a call of the branch that has no replay there (`ReplayInv`): `/tree`
leads to the call or its result, and a replay stands below both. An extension that
is not installed has no entries and no state, so that the handlers of the others
need not look at it. Proved: `SessionTypeCorrect`, `BranchIsTrue`, `RemindersAreSpaced`
and `PromptsAreAsActive`, for which the message that precedes the prompt is shown
to be the last one told in the context the prompt ends.

Then `AskDialog` (any number of options, timeout and page). `DialogInv`: while the
question is open the form holds no more than the ask admits (`FormAdmitted`; in a
single choice of the questionnaire it is empty, as what would fill it submits it),
the RPC dialogs fill it in their order (`DialogsInOrder`), and nothing is given or
timed out (`Undecided`). Proved: `DialogTypeCorrect`, `OutcomeNamed`,
`AnswersMatch`.

Some theorems state what no run lists, because a stronger or deeper property took
its place there: the inductive invariants, the
types of the queue, the catalog and the conversation, `NoWakeupLost`,
`AbandonedReleases`, `FinishedReleases`, `AdmissionWithinLimit`,
`RemovalSparesActive`, `OlderExecutionsSettled`, `ResumedHasSession`,
`StoppingAccurate`, `PendingIsArmed`, `CapacityIsReserved`.

Model-checked only: liveness, which is out of the prover's reach (`EveryoneServed`,
`CancelEnds`, `EventuallyAnnounced`, `RegistryConverges`, `DeadlinePasses`). The
two properties that are found violated (3.2) stay with TLC as well.

## 5. Plan

The order in which the project was built: the queue and the tree of tasks, the
conversation, the catalog, recovery; then panes, notifier, whisper, the
extensions on the branch, the dialog and the configuration; proofs of a module
once TLC agreed with its invariant. What is left, most useful first:

1. `SubagentRecovery` with appends that fail and are retried, and with navigation
   between branches.
2. What follows the exception of finding 2, so that `RemovesJoined` can go.
3. Steers and removals in `PaneExecution`.

## 6. Not modelled

- *Components.* The context inspector, the widgets, overlay browsing and the
  renderers are projections of state to text. Prompts, titles, activity, usage
  counters and timestamps are left out of the modelled parts: no property is
  about them. Launch scripts are text for a shell, of which `ChildExits` keeps
  what they leave behind.
- *Notifier.* `reconcileMessages`, which drops from the context what the same
  condition excludes; lifecycle events that the host may repeat. A change of the
  setting `notify` within a behaviour.
- *Session.* A run started by `sendMessage` with `triggerTurn` emits no
  `before_agent_start`, and the run of a replayed answer is taken to start. The
  host is taken to wait for the handlers of `session_start` and `session_tree`
  before it takes input.
- *Delegation.* The passing run has one tool call of a turn at a time; finding 1
  is what happens otherwise.
- *Catalog.* What follows the exception of finding 2, hence `RemovesJoined`.
- *Panes.* Herdr's placement; steers and removal; `pollForExit`, which is part of a
  library, is taken to leave the sidecar where it is.
- *Recovery.* Cancels, removals between starts, appends that fail, navigation
  between branches; see 2.5.
- *Configuration.* The text of definitions and their fields; the settings of `ask`
  and `todo`, which are read once.
- *Whisper.* `me`, `list` and `pending` only read; the size limits of messages and
  what the host does with a message it is given. A server that does not listen,
  or a `publish` that fails at session start
  (`packages/whisper/src/index.ts:234`, `:291`): a process that is up has its
  record written here. The run has one ask and one reply; two replies to one ask
  are covered by the theorems only.
