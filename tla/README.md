# A TLA+ model of the zellij-agent daemon and the programs around it

The repository is a daemon that runs coding agents and helper programs in Zellij
panes. Clients talk to it over a Unix socket. It keeps its state in memory and
copies every change to SQLite, so that it can be killed and started again at any
time. Around it are dashboards, debates between agents, and role programs that run
in panes of their own. This directory models the parts in which several activities
meet, checks them with TLC on small instances, and proves the safety results about all
of them but one with TLAPS for every value of the parameters.

## 1. Inventory

| Part | State | Operations | Meets |
|---|---|---|---|
| Follow-up queue (`internal/followup`) | per agent: items with a state, the active item, a phase, `paused`, the observation the claim rests on; a `dirty` flag | `Update` (add, edit, cancel, resolve, pause, resume); `Step` by a one-second ticker; `New` | the writer (save and wait), the monitor (observation), `SendInput` |
| Persistence writer (`internal/persistence`) | a FIFO of row changes, waiters | `Enqueue`, `EnqueueAndWait`, batches of 256 rows, endless retry, `Close` | every component with durable state |
| Pane registry (`internal/registry`) | sessions, tabs, panes, a generation counter, the index by Zellij pane | register, status, claim of a closure, remove, restore | every runtime operation; the writer |
| Runtime service (`internal/runtime`) | per-pane input locks, single-flight creation | `CreatePane`, `ClaimPane`, `SendInput`, `SnapshotOutput`, `ClosePane`, `Reconcile`, `Cleanup`, `Recover` | registry, Zellij, observers |
| Subscriptions (`runtime/subscriptions.go`) | one child process per pane, a one-slot frame buffer | start, frames, stop; a stream that ends is reported, and only a new start subscribes again | registry, observers, event bus |
| Agent monitor (`codingagent/monitor.go`) | per agent: epoch token, pane generation, last input, three timers, working revision | pane opened, output, metadata, closed, error; `Start`, `Stop`, `Close`; three timer callbacks | runtime notifications, the agent store, follow-up queue |
| Agent service and store (`codingagent/service.go`, `store.go`) | records, ownership tokens, the agent focused last | start, roll back, list with orphan clean-up, focus next and previous, pin, alias, restore | monitor, runtime |
| Execution plans (`runtime/execution_plan.go`) | per request: panes created so far | create the panes of a tab concurrently, roll back | runtime, Zellij |
| Detector (`codingagent/detector.go` ...) | rules | match a screen | monitor |
| Event bus (`internal/eventbus`) | bounded subscriber buffers, a history | publish, subscribe, unregister, recent | subscriptions, monitor, voice, streams |
| Voice (`internal/voice`, `cli/daemon/agent_idle_voice.go`) | bounded queue, recent request IDs | enqueue, speak, evict, close | event bus, HTTP |
| Ticket manager (`internal/ticketworker`) | tickets in SQLite; one manager process with slots, an event stream and a tick | users: add, next, done, cancel, reopen; manager: claim, create, verify, complete, close, clean up, shut down | the daemon (create, close, inspect, snapshot, events), git worktrees |
| Daemon life (`cli/daemon`, `transport`) | locks, the socket, requests being handled, the background loops | serve, shut down in stages, stop; clients that start a daemon and send again | everything that writes |
| Debates (`internal/debate`, `backgrounddebate`, `debaterole`, `cli/debatebackground`) | rounds, statuses, answers, the result file | prompt, wait for markers, snapshot; run role processes under deadlines, save | event stream, processes, files |
| Agent dashboard (`internal/agentdashboard`) | ten kinds of pop-ups, flags, requests on the way | keys, refreshes, answers | the daemon |
| Runtime dashboard (`internal/dashboard`) | a tree, the selection, one snapshot and one action on the way | keys, ticks, answers | the daemon |
| Tab roles (`cmd/agent-role/tabnetwork`, `tabwatcher`) | rows of requests with an index and a screen; the tabs known and the panes made for them | Chrome's events, keys; poll, create, clean up | Chrome, the daemon |
| LSP role (`cmd/agent-role/lsp`) | pending requests, analysed files | ask a language server, scan text, expand the component tree | the server's pipes |
| CLI, Zellij adapter, other role programs, plugin | mostly none | decoding, rendering, I/O | the daemon |

What is hard here:

* *Unknown outcomes.* `EnqueueAndWait` gives up when its context ends although the
  change stays in the FIFO and is committed later. Typing into a terminal can fail
  after the text arrived.
* *Crashes between two steps* - between a claim and the typing, between typing and
  the record of it, between two rows of one registry mutation.
* *Calls that sleep.* Runtime operations read a record, talk to Zellij for as long
  as that takes, and apply a verdict to what may be a different record.
* *Timers that are stopped too late.* A Go timer callback that waits for a mutex
  runs after `Stop`.
* *Late observations* of panes that an agent is no longer bound to.
* *Two owners of one fact*: memory and SQLite; the agent's record and its monitor
  entry; Chrome's tabs and the panes that follow them.
* *Answers that come late*, to a pop-up that was closed, to a request that was given
  up, from a process that was replaced; or never.
* *Bounded buffers* that drop: the event bus, the one-slot frame channel, the voice
  queue, the request table.

What makes the parts correct, beyond their types:

* Follow-up queue: no instruction is typed twice or out of order; the next one only
  when the previous is accounted for; what was acknowledged survives a crash; a
  pause holds; nothing is stuck.
* Registry: generations are never reused; the stored hierarchy can always be
  restored; closures are announced once; late callers never touch a newer pane;
  SQLite converges to memory.
* Monitor: idle is declared only after the full confirmation and from the current
  pane; a pending decision always has a timer; epochs and revisions can be compared;
  record and entry go together.
* Ticket manager: a ticket has at most one slot and every registered worker has one; a
  ticket is requeued only when its worker is gone; it is done only when its worker
  said so; no claimed ticket is forgotten; slots come back.
* Subscriptions: one process per live pane; no closing or error frame is lost; the
  latest screen is handled; a marker that is shown while somebody waits is found.
* Daemon life: one daemon per socket and database; nothing is enqueued after the
  writer began to close; an exit without error lost nothing; stopping ends.
* Agents and plans: starting is all or nothing; records of panes that went silently
  disappear; focusing reaches every agent.
* Voice: an agent that comes to rest is announced, once.
* Debates: nobody is quoted or counted who did not answer; no process or half result
  is left over; they end.
* Screens and roles: answers meet who asked; the selection and the counts survive
  refreshes and evictions; panes follow tabs; an older state is never shown again.

`PROJECT.json` lists the hazards one by one, each at its line.

## 2. Modules

| Module | Models | Role |
|---|---|---|
| `InstructionDelivery` | what a follow-up queue promises | abstract specification |
| `FollowupQueue` | `followup/service.go`, `runtime.go`, with the writer's FIFO and the agent as its environment | detailed specification |
| `FollowupQueueProofs` | | invariants and the refinement, proved |
| `MonitorEpochs` | what the queue relies on when it compares two observations | abstract specification |
| `AgentMonitor` | `codingagent/monitor.go`, the record in the store, start and clean-up in the service | detailed specification |
| `AgentMonitorProofs` | | invariants, the idle rule and the refinement, proved |
| `PaneRegistry` | `internal/registry`, the runtime operations that change it, the writer's rows | detailed specification |
| `PaneRegistryProofs` | | what a restart finds, closures, late callers, proved |
| `WorkerPanes` | the daemon as the ticket manager sees it: single-flight `CreatePane`, a pane's record and the Zellij pane behind it | component |
| `TicketManager` | `ticketworker/manager.go`, `store.go`, composed with `WorkerPanes` (EXTENDS) | detailed specification |
| `TicketManagerProofs` | | slots, ownership, requeue and completion, proved |
| `EventBus` | `eventbus/bus.go` as operators from bus to bus | component |
| `PaneStream` | `runtime/subscriptions.go`, `parser.go`, `marker_watch.go`, the event stream handler, composed with `EventBus` | detailed specification |
| `PaneStreamProofs` | `PaneStream` with `EventBus`, and `Debate` | processes, frames and markers; an honest debate, proved |
| `DaemonServe` | `cli/daemon/daemon.go`, `transport` server, client and lock, the writer's shutdown | detailed specification |
| `DaemonServeProofs` | | promises, socket and database, proved |
| `VoiceNotifications` | `voice/service.go`, its HTTP handler, the idle loop, composed with `EventBus` | detailed specification |
| `AgentService`, `AgentFocus` | `codingagent/service.go`: start, list, forget; focus | detailed specifications |
| `ExecutionPlan` | `runtime/execution_plan.go`, `pane_initialization.go`, `CreatePane` | detailed specification |
| `ServicesProofs` | `AgentService`, `ExecutionPlan`, `AgentFocus`, `TabPanes`, `RuntimeDashboard`, `VoiceNotifications` | the safety properties of all six, proved |
| `TabPanes`, `RequestTable` | `cmd/agent-role/tabnetwork`, `tabwatcher` | detailed specifications |
| `RuntimeDashboard`, `DashboardPopups` | `internal/dashboard`, `internal/agentdashboard` | detailed specifications |
| `Debate` | `internal/debate`, the coordinator role, composed with `EventBus` | detailed specification |
| `BackgroundDebate` | `backgrounddebate`, `debaterole`, `cli/debatebackground` | detailed specification |
| `LspClient` | the LSP role's client and reader, and the server it talks to | detailed specification |
| `ProgramsProofs` | `LspClient`, `BackgroundDebate`, `DashboardPopups`, `RequestTable` | answers that meet their requests, clean endings, a consistent table, proved |
| `ComponentTree` | the LSP role's scanners and tree expansion | algorithms with reference definitions |
| `MCFollowupQueue`, `MCAgentMonitor`, `MCPaneRegistry`, `MCTicketManager`, `MCPaneStream`, `MCDaemonServe` | | instances for TLC |
| `MCServices`, `MCPrograms` | six parts each | instances for TLC |

In each detailed module the definitions named *Slip* are no part of the
specification: each is a plausible mistake in the definition below it (a dropped
guard, a missing reset, a wrong order). Putting a slip in place of that definition
makes TLC report the property that `PROJECT.json` pairs with it, which shows that
the property can notice such a mistake. A property that is checked is often the
conjunction of named parts, each stated with its own comment above it. The type
invariants are parts of the inductive invariants of section 4 and are proved; no run
lists them.

### FollowupQueue

One queue; queues of different agents share only the FIFO. `q` is the daemon's
copy, `pending` the copies waiting in the writer, `durable` the committed row. `pc`
is where the holder of the entry's mutex is; a scan or an `Update` that waits for
its save keeps the mutex. `save` marks the copy dirty and hands it to the writer, which
may refuse. `SaveOK` and `SaveFails` are the two returns of `EnqueueAndWait`;
`SaveFails` is possible at any moment, also after the commit, and leaves the change
in the FIFO. The scan is split at every call that can block: observation, commit of
the claim, second observation, the check under the pane's input lock, the write
itself. `Crash` is possible at every one of them. `New` parks a restored claim
before it serves, and refuses to start if that cannot be saved.

An item is its position in the queue (items are only appended). Texts are only
compared. Wall-clock comparisons are two flags: `worked` for "last worked after the
attempt", `late` for "the start timeout has passed". That an idle observation must be newer
than the last work (`service.go:305`) is left out of `Judge`, which allows more than the code:
an observation that is ready and older may settle an instruction. The agent may become ready,
unready, work, or have its monitor rebound at any time. The history variables `log`,
`unsettled`, `acks` and `pauseAcked` record what the outside world saw.

### AgentMonitor

One agent; agents share only a mutex and the token counter. `entry` is the monitor's
entry, `rec` the stored record, `timers` the timers that are scheduled or fired and
not yet run, each with the tokens its closure captured. `Fire` separates the expiry
of a timer from its callback: stopping removes only timers that have not fired. A
screen or title is abstracted to what the detector makes of it. Every observation
may carry any generation of the pane. Deleting the record and stopping the monitor
are two steps, in the order each caller uses. A daemon restart is the same as
`Create` and `Start`: the monitor's state is transient and the restored record is
set to unknown first. `calm` counts the confirmation delays that passed since
anything but an inferred idle state was seen; `evidence` is the generation that
delivered the input.

### PaneRegistry

`snap` is what each concurrent operation read before it called Zellij; the second
half of each operation applies its verdict with the generation it read. A mutation
enqueues the rows session, tab, pane and counter. `Commit` commits single rows: batch
borders fall anywhere because other components share the FIFO, so this reaches every
stored state a crash can leave. `NewPersistent` restores, or refuses, what it finds.
Removing the newest record of a Zellij pane clears its entry in the index, and a restart
puts an older record there (`Latest`), so the index after a restart may have more entries
than before; `RestartAgreesOnLatest` says that it has none that differs.

### WorkerPanes and TicketManager

A worker's pane ID is computed from the manager and the ticket, so `WorkerPanes` is
indexed by ticket. `call` is the entry of `Service.creates`: a call leads, is joined
by an identical request, is answered from its cached result, or is evicted. `rec` and
`live` are the pane's record and the Zellij pane; they differ until a subscription or
reconcile notices. `ClosePane` and `SnapshotOutput` are the sets of their outcomes,
lost responses included. A record goes whatever its status when the end of its pane is
reported (`handlePaneClosed`) or when somebody cleans it up (`Cleanup`), and anybody's
failing input, snapshot or clean-up marks it as failed (`PaneFails`).

The manager is one loop, so `TicketManager` has one thread: `todo` is what is left of
the current pass (retry every slot, reconnect, snapshot every worker, fill), with the
calls inside a slot's turn pushed in front. Each action is one call to the daemon or
one store transaction with the local assignments up to the next one. Every call can
fail; once the context has ended (`interrupted`) every call does. Shutdown is a pass of
its own with a live context. Users finish, cancel, reopen and take tickets at any time,
in every run. A second manager and
the death of the manager are excluded by the design document ("one manager per
project", no crash adoption) and left out. So are Zellij panes that a failed `zellij`
command created all the same, and panes of a create whose clean-up failed: nobody
knows of them, and the properties speak of registered workers and creates in flight.

Three history variables mark what the code gives up. `owner` says who claimed a ticket;
"elsewhere" is a ticket that the manager claimed and then found in another of its slots.
`earned` says that a marker was printed since the ticket was last opened, or was on its
way when it was reopened. `strays` are tickets that may have a worker no slot knows of;
how that comes about is told under the known deviations.

### EventBus and PaneStream

A bus is a record that the operators of `EventBus` transform, so that a component
publishes as part of a step of its own: `Publish` never blocks and runs under a lock.
A channel that was found full once is marked `lost`.

`PaneStream` is about one pane ID whose record is registered again and again. A
`StartPane` has three steps, because the table is unlocked between them; its
subscription has a reader with a line in its hand, the one-slot channel, and a worker
that applies a frame to the registry, tells the monitor and publishes, in that order.
Stops name a generation. Clients take snapshots at any time (`SnapshotPane`): the record
gets the screen and the monitor hears of it, but nothing is published; a snapshot, input
or clean-up that fails marks the record, a settled one too (`PaneFails`). `pane.due` are the
waiters who are owed the marker: it came by the stream, or stood in the record when they
looked. A text is what it shows: nothing, the marker, or something a
semantic event is derived from. `Finished` is a stutter step for runs in which all
came to rest, so that deadlock is checked.

### DaemonServe

`pc` is the stage of each daemon from the lock to its exit; the stages of the shutdown
follow `RunContext`. `producers` are the goroutines that can still call `Enqueue`:
loops, subscriptions and the monitor. A handler may be between reading and enqueuing
at any stage in which it was not joined yet. A client sends, waits, may find its
daemon gone, take the start lock, start one and send again. `Crash` kills a daemon at
any stage. A daemon of an older version that knows no shutdown request is modelled
with the stop command's way of ending it.

### VoiceNotifications, AgentService, AgentFocus, ExecutionPlan

The voice service's queue, the requests being remembered and the one being spoken;
the idle loop reads an event and only then looks at the agent's record. Request IDs
of announcements carry the agent's last change, as in the code. An agent goes from any of
its four states to any other, and another reason for the same state is a change too; it
comes to rest when it turns idle after working or being blocked.

`AgentService` has one action per step of `StartAgent` between which its lock is free,
and a `ListAgents` that takes its snapshot of records, lists the panes, and decides
agent by agent. Panes close with a notification, or are cleaned up without one.

`AgentFocus` is the choice of `adjacentAgentRecord` between changes of the records; its
property quantifies over filters and presses the keys for next and previous in the
formula.

`ExecutionPlan` interleaves the three steps of each pane's creation; the context ends
for the siblings of a failure and for an interrupted request. `zellij` may answer with an
error before or after it made the pane ("refused"; nothing is cleaned up then), and a pane
may end by itself at any time, upon which its record goes.

### TabPanes, RequestTable, RuntimeDashboard, DashboardPopups

`TabPanes` has Chrome, the tracker's spawner, the watcher role and the daemon that
decides requests some time after they were made. A scan is processed tab by tab while
the tabs change. Trackers, the spawner's own program among them, end with their tab or
are quit while it is open (`UserQuits`, `ChildQuits`: the key q, a failed start, a closed
pane); `quit` remembers the latter. `RequestTable` has Chrome, the listener with its own map, body
fetches that return in any order, the channel, the table and the screen;
`HandleMessage` is the whole update, re-synchronisation of the selection included.

The dashboards are event loops: every key and every message is one action, requests
are elements of a set and are answered in any order. In `DashboardPopups` a pop-up has
an identity that the code does not have; it serves to state which one an answer
belongs to. The worktree menu's keys go by the selection of the moment where the code does
(`openLazygit`, `MenuToNaming`, `OpenMerge`). The daemon's queue is the sequence of the
instructions the open list added, each with its text, its request ID and the opening of the
editor it comes from, so that a second copy of one shows; edits of the same queue by other
clients are only new versions (`QueueMoves`).

### Debate, BackgroundDebate, LspClient, ComponentTree

`Debate` keeps texts as sequences of tokens (marker, answer, echoed prompt) because
what counts as an answer is decided on text. Panes answer late or never, echo and
redraw. `BackgroundDebate` keeps the process group of the role whose turn it is, the
deadlines, and the temporary and the final file; a role that dies by itself may leave what it
started behind (`orphaned`), since only the deadline takes the whole group.

`LspClient` is the program, the reader goroutine and the server; request IDs of both
sides overlap, as in the protocol. The server may stop reading (`ServerStopsReading`), and
then a write may never return, since `send` has no deadline.

`ComponentTree` computes, for every text, sequence
of tags and graph up to a bound, what the code computes, one input per behaviour, and
compares it with a definition that does not scan. A text comes with the place after a
declaration's name: the brace scanners read from there, the masking scanner from the start
of the file. A graph is what every declaration calls and the forest of tags in its body; a
tag of a declaration of the same file stands for that declaration and hides what is inside
it, a second outermost tag of a name is dropped, and an imported tag shows its own file's
declaration, within the depth, and what is inside it. Default imports under another name,
for which the code shows all roots of the file, are left out.

## 3. Runs

| Run | Bounds | What it shows |
|---|---|---|
| `followup_delivery` | two instructions, two saves in flight, one crash, one working period | exactly-once order, refinement of `InstructionDelivery`, pause, a parked queue can be resolved |
| `followup_live` | one instruction, one request ID retried, two texts, one crash, two monitor epochs | typed text and acknowledgements are durable; no instruction stays claimed |
| `agent_monitor` | two pane generations, three epochs, three confirmations, eight evaluations in an epoch | idle rule, evidence, refinement of `MonitorEpochs`; the monitor comes to rest |
| `pane_registry` | two pane IDs on one Zellij pane, two operations, two generations, five rows in flight, one crash | a restart finds the registry, closures are announced once, late callers are harmless |
| `pane_restore` | the same | finding 1 |
| `pane_generations` | two pane IDs on one Zellij pane, one operation, two generations, two crashes | finding 2 |
| `ticket_manager` | two tickets, two slots, two actions of users or other clients, one queued event per pane | completion, ownership and requeue of tickets; one slot per worker |
| `ticket_live` | one ticket, two slots, two actions of users or other clients | slots come back |
| `pane_stream` | two generations of a pane, up to three lines, snapshots and failures, channels of one place; a reused ID, a waiter, or a stream client | one process per pane, frames delivered, markers found |
| `daemon_serve` | two daemons and a client, a daemon and two clients, or a legacy daemon; one unsaved change each | promises kept, one owner of socket and database, stops and requests end |
| `services` | voice: one agent with four changes, one client's ticket, one place; agents: one starting, one restored, one untracked, one lister; focus: three agents, three changes; plan: four panes in two tabs; tabs: two tabs, one failed call; dashboard: two panes in two groups, a window of two lines, one fault | starts and plans are all or nothing, the focus goes round, what finished is spoken once, open tabs keep their panes, the selection is kept; and all of them keep up (`ServicesKeepUp`, liveness) |
| `programs` | debate: two agents, two rounds, one echo; background: three rounds; LSP: three files, one used twice, one message of the server's own; tree: texts of four characters, five tags, four declarations in three files of which two may be entered, three tags in one body and one in the others; table: two requests, one redirect, two rows; pop-ups: two agents, two requests on the way, two texts | eight properties of six parts |

The parts of `services` and `programs` share no state and never interact, so the
two runs are sums: the variable `part` is chosen at the start, every disjunct of
`Next` belongs to one part, and what the other parts start with is fixed.

Why the bounds are enough to be interesting: two instructions are what it takes for
one to overtake or repeat another; two copies in flight let an older copy be
committed after a newer decision; a crash at every point is covered by one crash,
and the recovery is itself interrupted by refused starts; that a generation is forgotten
takes a second crash, which `pane_generations` has; three confirmations are the
code's constant, and eight evaluations let a candidate be abandoned and taken up again
while callbacks of the first still wait; two pane IDs on one Zellij pane with two
sleeping callers are what the generation checks are for; two slots compete for one
ticket only after users reopened it, and two tickets fill both slots when the shutdown
comes; two generations of a pane are an old one whose parts end late and a new one;
two daemons suffice for a race on one lock, and either may crash; three panes
created at once let one fail while the others are in different steps; two rounds give
a late marker of the first a chance to be taken for one of the second; four characters
hold a quote, an escape and a brace; three tags are enough for a repeated tag with a child; two rows and two requests, one of them
redirected, are enough to evict a row that is still written about. What is proved
holds without the bounds.

Bounds stand in the guards of the actions they limit (`MaxItems`, `MaxFifo`,
`MaxCrashes`, `MaxEpoch`, `MaxRevision`, `MaxGeneration`, `MaxToken`,
`MaxIdleToken`, `MaxOps`, `MaxEvents`, `MaxLines`, `MaxUnsaved`, `MaxChanges`, `MaxClock`,
`FaultN`, `RuntimeFaultN`, `MaxEchoes`, `AskN`, `TextN`, `TagN`, `Broad`, `BodyN`, `WordN`, `RequestN`, `RedirectN`, `FlightN`,
`SequenceN`, `VersionN`). `pane_stream` is checked for deadlock; elsewhere the system may
legitimately rest, and the bounds end every behaviour. Symmetry is used for texts and for callers, which
are only compared for equality, and only where no liveness is checked. `followup_delivery`
runs under a view without `acks`, which no action and no property of that run reads.

### Fairness

* `FollowupQueue!Fairness`: the dispatcher runs on a ticker (`Step`); every wait for
  a save is bounded by a context; the clock advances, so the start timeout passes; a
  daemon that is down is started again by the next client. Nothing is assumed of
  users, of the agent or of the disk: `Commit` is not fair, so the liveness property
  holds with a disk that never commits.
* `AgentMonitor!Fairness`: timers expire, callbacks get the mutex, `StartAgent` and a
  clean-up that began come to an end, `PaneClosed` deletes the record it set out to
  delete. Nothing is assumed of panes or users.
* `TicketManager!Fairness`: the loop runs and calls return or time out; `select`
  takes a tick that is ready again and again; reconcile runs; a close, an inspection
  or a store operation that is repeated does not fail for ever. The last is an
  assumption on the daemon and the disk, without which a slot is rightly kept.

* `DaemonServe!DaemonFairness`: the stages of a daemon and its handlers go on; clients
  time out and go on to their next attempt. Nothing is assumed of the disk (a drain
  that cannot write ends with its context) nor of new requests.
* `MCServices`: one goroutine speaks, and a speech ends; `StartAgent` requests run to
  their end, and dashboards list agents again and again; spawner and trackers poll,
  and the daemon decides what it is asked; the dashboard's tick comes again and again
  and its requests end. Failures are bounded, so that a call repeated for ever
  succeeds some time.
* `MCPrograms`: the debate's driver runs and its timer goes off, though events never
  cease; deadlines of the background debate pass and the command goes on, while roles
  and Codex may take for ever; the LSP client and its reader run and its clock does. A
  write returns if the server reads or is gone; of one that lives on and does not read
  nothing is assumed, and the run may then hang (`main.go:388` writes without a deadline),
  which `WorkComesToAnEnd` excepts. A server that reads and was told to exit does so (the
  protocol demands it; `main.go:212` waits without a limit).

### Findings

1. `pane_restore` is a violation. `NewPersistent` "restores the hierarchy and rebuilds
   derived indexes" (`src/internal/registry/persistence.go:35`), but it refuses a store
   with two active records on one Zellij pane, and the registry can save such a store:
   `SendInput` and `SnapshotOutput` answer a backend failure with
   `UpdatePaneStatusGeneration` (`src/internal/runtime/service.go:630`, `:747`), which
   applies to terminal records too. The trace: an operation reads pane p1 and sleeps in
   Zellij; reconcile finds p1 missing and marks it lost; the same Zellij pane is
   registered as p2; the sleeping operation fails and turns p1 from lost into error,
   which counts as active; both rows are committed; the next start is refused. Every
   other caller uses the variant that leaves terminal records alone.
2. `pane_generations` is a violation. `NewPersistent` restores "preserving generations
   even when the most recently registered pane has been deleted"
   (`src/internal/registry/persistence.go:35`). A pane and the generation counter are
   separate rows (`persistence.go:27-32`), and the border of a batch of 256 rows can fall
   between them. The trace: a pane with a new generation is committed, the daemon dies
   before the counter is; the restart takes the counter from the pane but does not save
   it; the pane is deleted and its deletion committed; the daemon dies again before the
   counter row behind the deletion. Nothing on disk knows of the generation, and it is
   given out again. With one crash this cannot happen: that is proved
   (`GenerationNeverReused`, a part of `RestartFindsRegistry`). The
   gap was noticed when the proof for any number of crashes did not go through.

### Known deviations

Behaviour that the models contain, that no property forbids, and that a reader of the
design documents would not expect. The first four were traced with TLC on
`TicketManager`.

* *Requeue while a create runs.* "Only confirmed close or confirmed runtime absence
  permits requeue and slot release" (`2026-07-17-ticket-manager-role-design.md:186`). A
  create times out; its pane is registered late and lost; the retry starts a second
  call in the daemon and times out too; the second inspection (`manager.go:697`) takes
  the lost record, which has the same ID, for the outcome, and the ticket is requeued
  while the daemon still creates its worker. `RequeueAfterClose` therefore speaks of
  registered workers.
* *A worker nobody knows of.* Two ways lead to it (`strays`). A create may go on after its
  client gave up, while the manager takes the record of an earlier worker for the outcome;
  if that record is removed (`subscriptions.go:431`, `cleanup.go:37`) before the create
  registers its pane, the new worker has no slot. And a worker whose record was marked as
  failed does not answer for a repeated create: another one is led (`service.go:207`), and if the
  anchor pane is gone by then, the manager takes the refusal to mean that nothing was left.
  `EachWorkerHasOneSlot` and `RequeueAfterClose` except these tickets.
* *A reopened ticket in nobody's hands.* A slot that marked its ticket done waits for
  the pane to close. A user reopens the ticket, another slot claims it and drops it as
  one that another slot owns (`manager.go:365`); the first slot closes its pane and
  forgets the ticket, which stays in progress. `InProgressIsOwned` does not count such a
  ticket as claimed for a slot (`owner` "elsewhere").
* *A stale marker.* "Repeated full-snapshot `raw_output` events are harmless"
  (`...role-design.md:156`), but a reopened ticket has the pane ID and the marker of its
  first run: an event that was still queued (`manager.go:464`) completes it under the
  new worker. `CompletionIsEarned` counts a marker that was on its way when the ticket
  was reopened.
* A ticket cancelled while its worker runs can never be marked done, so its slot stays
  in completing (`manager.go:535`); a worker whose pane was found lost answers
  snapshots with an error that is not not_found (`manager.go:742`); a requeued ticket
  meets the closed record of its old pane (`runtime/service.go:294`). `SlotsAreReleased`
  speaks of slots that close or clean up.
* A row that can never be committed is retried for ever and holds back all later ones
  (`persistence/writer.go:310`).
* A request whose connection was reset after it had been handled is sent again
  (`transport/client.go:498`); `RequestOutcome` allows this second effect.
* A marker printed before a debate's event stream is open is missed, and the agent
  counts as timed out (`debate/debate.go:713`); a marker wait on a pane that has gone
  ends only with its caller (`runtime/marker_watch.go:41`).
* `stop` removes whatever is at the socket path after a legacy daemon died
  (`cli/daemon/daemon.go:328`), also the socket of a new one; `OwnSocketAndDatabase`
  excepts it.
* A marker that a snapshot brings to the record is stored and observed but not published
  (`runtime/service.go:751`): a waiter that waits already does not hear of it, and the stream
  does not repeat a screen it has shown. A snapshot may also overwrite a marker before a waiter looks
  (the follow-up queue takes its own with `ANSI`, `followup/runtime.go:48`). A snapshot,
  input or clean-up that fails marks a settled record as failed, which makes it active
  again with nobody to watch it; and after a snapshot the monitor takes the screen of a pane
  for current whose stream has failed. `MarkerNotMissed` and `OneProcessPerPane` say what
  remains.
* Removing the newest record of a Zellij pane leaves it without an entry in the index,
  while a restart enters an older record (`registry.go:421`, `persistence.go:95`).
* `zellij` may answer with an error after it made a tab or pane; nothing cleans up then
  (`zellij/backend.go:94`, `:139`; `runtime/service.go:542`), in a plan too.
* The keys g, a and m of the worktree menu act on the agent that is selected when they are
  pressed, not on the one the menu was opened on (`agentdashboard/lazygit.go:18`,
  `worktree.go:37`, `merge.go:20`).
* An apostrophe in the text of an element is taken for a quote (`lsp/main.go:837`, `:1352`): the
  calls of all that follows are masked, while the braces of a later declaration are still
  found. Imported components inside a tag of a declaration of the same file are not shown
  (`main.go:966`), nor is what stands inside a repeated outermost tag (`:974`).
* A language server that lives on without reading holds the LSP role for ever
  (`lsp/main.go:401`).
* A browser tab whose pane could not be created is not tried again
  (`tabnetwork.go:454`); a redirect keeps its request ID, so the row of its second URL
  counts no request (`tabnetwork.go:1141`).
* A background debate that is killed leaves the role's process group running
  (`backgrounddebate/process_tree_unix.go:13`).

## 4. Proofs

All proofs are for arbitrary parameters under the named assumptions of each module:
limits are natural numbers, the confirmation count is positive, the values that stand
for "nothing" (`NoRequest`, `NoFile`, `NoTab`, the voice service's "none") are none of
the real ones, there is at least one socket path, a plan's tabs are sequences of panes,
the dashboard's tree is a sequence of panes and groups, an LSP session needs a
sequence of at least one file and a debate one of at least one debater. Channels, the
bus history, the request table and the list have room for one entry; the voice
service's limits are those `NewService` accepts. The number of rounds of a debate is what its
flag allows, one to three. Specifications with `Spec` in their names that stand in a
proof module are the initial condition and next-state relation of one component by
itself; runs that combine several components use the same two.

Each proof has an inductive invariant whose parts are named and commented in the proof
module, one lemma per action, and the theorems as consequences.

**FollowupQueueProofs.** `IInv` says that every copy of the queue - in memory, in the
FIFO, on disk - is an `Image`: well formed, with nothing at or before a typed
instruction still queued, holding every unsettled instruction as its active item, and
honouring every acknowledged decision. The order of `log` alone is not inductive: a
crash makes any of the lagging copies the queue again, so each must account for all
that was typed. A new claim rests on `Fresh` (it lies beyond everything typed),
which holds because a claim is typed only after its commit: `CleanIsSaved` and
`WaitIsLast` say that a confirmed save is the durable row and that nothing older
follows it. From this: `TypeCorrect`, `OnceInOrder`, `TypedIsRecorded`,
`AcknowledgedSurvives`, `ParkedIsResolvable`, and `Refinement` of
`InstructionDelivery`. `PauseIsKept`, an action property, needs a second layer
(`PauseInv`): once a pause was acknowledged, every copy that a restart could take up is
paused, and the dispatcher is not past its claim.

**AgentMonitorProofs.** `IInv` relates callbacks under way to the entry:
`TokensIssued` (a callback captured tokens given out before), `CandidateShape` and
`OneConfirm` (a candidate has its deadline and at most one confirmation on its way)
and `CalmCounts` (the callbacks of the current candidate are as old as its calm).
`IdleIsConfirmed` is an action property and follows from `CalmCounts` in the two
callbacks that can settle a candidate. Also proved: `TypeCorrect`, `EvidenceHolds`,
`CandidateHolds`, and `EpochsHold`, the refinement of `MonitorEpochs`.

**PaneRegistryProofs.** Three groups of facts carry `IInv`. About memory: an active
Zellij pane has `OneOwner`, `ClaimsAreTransient`, and an announced closure was claimed
(`AnnouncedIsClaimed`). About generations: the counter is ahead of everything given out
(`CounterAhead`), the rows in flight and the stored counter follow it (`CounterRows`,
`MarkCatchesUp`, `MarkIsStored`). About rows: replaying those in flight on the store
yields memory (`ReplayYieldsMemory`, `LatestIsLatest`; `RestartAgreesOnLatest` follows), and at every point of the replay
parents come before children (`ParentsFirst`), which is why every crash point can be
restored. Theorems: `TypeCorrect`, `RestartFinds`, `AnnouncedOnce` and the action
property `StaleHarmless`.

**TicketManagerProofs.** The manager is one thread whose position is the sequence
`todo`; `PassShape`, `HeadInUse` and `ReplyShape` say what may stand in it and that the
item in front belongs to the slot it was made for. `PaneOK`, `SlotOK` and
`ReleasedIsQuiescent` tie slots to the daemon's records and calls: a slot is emptied
only when nothing that could still register its worker is under way, but for `strays`, which
grow in the very steps that break this. With `OneSlotPerTicket` this gives `TypeCorrect`,
`OneSlotEach` and `PutBackIsSafe`. `ClaimsAreOwned` and `DoneIsEarned` add
`OwnedIsInProgress`, `TicketsHeld` and `MarkersAreEarned`: every marker on a screen, in the
stream or in a slot's hands is one that was printed. All four hold whatever users do,
reopening included.

**DaemonServeProofs.** `StageOK` says what a daemon holds at each stage of its life -
locks, socket, writer, running requests and loops - so that the order of the shutdown
becomes a chain of facts, ending in that an exit with code 0 left nothing unsaved.
`UnlinkedOnce` bounds what the stop of a legacy daemon may remove; `OneServer` says that
no attempt is handled by two daemons; `Accounted` what became of each attempt of a
client, which is needed because an answer can be lost after the request was handled. Theorems: `PromisesKept` and
`SocketAndDatabaseOwned`, for any number of daemons, clients and paths.

**PaneStreamProofs.** `StreamInv` follows a frame from the reader to the worker: closes
and errors are counted in hand, slot and worker (`Accounted`), and the newest viewport
is in one of these places or handled (`NewestKept`). `StartsOnce` and `InTable` say that
the table holds exactly the worker that was not cancelled; `WatchedOrStarting`, that a
live record that was never settled and has none is about to get one or known to have failed, is what makes
`OneProcessPerPane` inductive while the table is unlocked between the steps of
`StartPane`. `BusOK` gives each event its distance from the last one published, from
which the gapless answers of `Recent` follow. `WaiterIsSubscribed` and `DueIsShown` carry the
marker: a waiter who is owed one either has the event on its way or has still to look at a
record that shows it. Theorems: `StreamInvariant`, `OneProcess`,
`DeliveredFrames` and `MarkersArrive`, for any number of generations, lines, waiters and
stream clients.

The debate in the same module: whether an agent counts as done is decided on text, so
the invariant is about text. `Clean` says that a text shows a round's marker of an agent,
white space aside, only for an answer printed; it is kept by concatenation, echo, wrapping
and compaction, hence by everything that panes and the bus do (`ChannelOK`), and a match
of `markerMatches` in a clean text means that the answer was said. `WholeRounds`,
`PromptsOK` and `StageOK` say what has been collected at each stage: all agents of each
earlier round, each with what it has said. Theorems: `DebateInvariant`, `DebateHonest`.

**ServicesProofs.** `StartAllOrNothing` rests on `SnapshotsHold`: what a listing saw of
an agent that was not starting stays true until it acts on it; and on `StartOwns`, the
ownership that clean-up asks for. `PlanAllOrNothing` rests on `TracesOfCreation` and
`CreatedSoFar`, which say which panes each step of a plan has left, and on
`NoneOutlivesItsStep`: no goroutine of a tab still creates a pane when the roll-back
begins; panes that end by themselves only take traces away.

`FocusRound` is about an algorithm: the eligible agents are ranked by the order of the
list, a press moves the rank by one modulo their number, and as many presses as there are
agents meet every rank, also when the first of them jumps to an agent that has just become
idle. Where one would use induction over the number of presses, the proof takes a least
counterexample (`LeastOf`, from the library's well-foundedness of the naturals).

`PanesKept` has the invariant `TabInv`. A pane may be closed on the word of an old scan, so
`ScanCoversActive` says that whatever the spawner looks after was seen open by the scan it
works on, or is closed by now; `MadeIsThere` that a pane it made stays as long as its tab is open and its tracker is not quit;
`OwnIsKnown` that the tracker's own tab is in the baseline unless it was closed before.
`SelectionKept` is a conjunction of an invariant (`RuntimeInv`) and an action property: the
window follows the cursor (`ensureVisible`), and the row of a key that stays in the tree is
found again after every rebuild.

`SpokenOnceEach` has `VoiceInv`. `QueueOK` bounds the active requests by those queued and the
one being spoken, so that a service with room in its queue always has a finished request to
evict, never an active one; `MemoryOK` says that a request was spoken once more than it was
forgotten only while it is remembered. For announcements, every event that the idle loop has
still to handle is given a number of its own (`Numbered`) between the announcements made and
the times its agent finished: an event that the bus dropped leaves a gap, and
none is counted twice.

**ProgramsProofs.** `MessagesMeet` rests on `IDsAreIssued` and `AnswerIsOfAsked`:
request IDs are given out once, so that the answer to a request that was given up never
has the ID of the one that waits. `BreaksOff` rests on `AnswersSoFar`: the answers are
exactly those of the turns that are over, each with the quotations it has to have; with
`WholeOrFailed` and `FileReplacedOnce`, success and a whole debate are the same.

`PopupsInv` keeps the pop-ups and their requests together: `BoundOK` (a request that its
pop-up outlives finds it open and waiting), `BusyOK` (what is shown as busy has a request
under way), `ItemsOK` (what one editor added is in the queue once) and `FeedOK`: of the follow-up list's requests only the one with the latest
sequence is expected, and its answer is not older than what is shown. Theorems:
`PopupsInvariant`, `AnswersMeet` and the action property `ListNeverGoesBack`.

`TableInv` has three layers: the index finds every row and nothing else (`Indexed`), counts
are those of the requests that were not redirected (`Counted`), and a request is known under
one key wherever it is, with the listener, in a fetch, in the channel or in a row
(`KeysOK`), which is why a body that arrives after an eviction does not reach a wrong row.
`filteredRows` is a sort; that it yields every row once and in order is a lemma by ranks,
and with it `ListComplete`. Theorems: `TableInvariant`, `TableConsistent`, `ListComplete`.

Only model-checked:

* liveness (`ClaimIsTemporary`, `MonitorSettles`, `SlotsAreReleased`,
  `StopsAndRequestsEnd`, `ServicesKeepUp`, `WorkComesToAnEnd`), because the prover does
  not handle fairness;
* `TreeIsFaithful`: recursive algorithms on texts and trees, which need induction over
  data.

## 5. Not modelled

* The detector's text matching, the Zellij command line, git worktrees, rendering, JSON
  and flag parsing, plan parsing: data transformation or I/O without shared state.
* SQL and the retry delay of the writer; pruning of empty tabs and sessions; the
  initial input of `CreatePane` outside plans; task aliases and profiles of agents.
* Of the tickets: schema migrations, listing and worktrees (no shared state). A second
  manager and the manager's death, which the design excludes.
* Of the dashboards: layout, the activity feed, the order of the agent list, the list
  selector. Of the roles: those that only print or forward text. The plugin and the
  Chrome helper: I/O.

## 6. Plan

The parts are proved each by itself. What is left is their composition, first of
`PaneRegistry` with `AgentMonitor` over the notification fan-out, where a pane that
closes before `PaneOpened` reached the monitor is of interest.
