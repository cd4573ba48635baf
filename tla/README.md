# A TLA+ model of matter-rs-server

matter-rs-server is a Matter controller behind a WebSocket API: clients
commission, read and remove devices ("nodes"), and the server keeps one
wildcard subscription per node open and broadcasts what changes. This directory
models the parts of it that keep state which several tasks touch: the node
manager, the commands that add and remove nodes, the supervisors of the
subscriptions, the configuration store and the WebSocket connections; the stack
thread that serves the commands, with discovery and commissioning; the values
that reports and writes carry; and the controller's identity, with the tool that
migrates it from a matter.js server.

`PROJECT.json` maps every definition to the lines it models and lists the runs,
the mutants that show that each property can fail, the hazards and the theorems.

## 1. The system

Three threads of control matter:

- a multi-threaded tokio runtime with one task per WebSocket connection, the
  event consumer of the node manager, its grace timers, and a start-up task;
- one *stack thread* with a single-threaded executor on which rs-matter, the
  report handler, the request loop and one supervisor per node run;
- `main`, which starts both and waits for a signal.

They talk over an unbounded channel of `StackEvent`s (stack to node manager), a
channel of `StackRequest`s (controller to stack), a broadcast channel of
`EventMessage`s (controller to connections, capacity 1024), and a watch for the
shutdown. They share the registry (a mutex around a map), the configuration (a
std mutex, plus the async lock `config_write` around read-modify-write) and the
files of the storage directory.

| Component | State | Operations | What is hard | What makes it correct |
|---|---|---|---|---|
| Node manager (`controller/src/node_manager.rs`) | grace timers by node, the event history | one handler per `StackEvent`, grace expiry, persist, emit | timers race link events over two channels; registry, disk and clients are updated in separate steps | availability follows the link; outages end in "unavailable"; clients, disk and history agree with the registry |
| Registry (`registry.rs`) | attribute cache and availability by node | insert, remove, with_entry, set_available, snapshots | every call locks anew, so all sequences of calls interleave | (as above) |
| Node commands (`commands/nodes.rs`, `commands/commissioning.rs`, `real.rs`) | the node id counter and `alloc_lock` | commission, interview, remove, boot | snapshots are used after other tasks changed the node; crash between any two steps | ids are never reissued; an announced node is on disk; removal is final; every node is supervised |
| Config store (`real.rs`, `commands/credentials.rs`, `commands/fabrics.rs`, `server/src/main.rs`) | config in memory and on disk, owner of the label | set/remove credentials, set label, close, restart | validation outside the lock, failing saves, the label in three places | no update is lost; acknowledged changes survive; labels agree |
| Subscription supervisor, report sink, stack context, request loop (`stack/src/supervisor.rs`, `reports.rs`, `ctx.rs`, `runtime.rs`) | per node: task, subscription id, liveness deadline, event high-water mark, half-received report | start, replace, stop, establish, watch, back off, handle report | cancelled futures are dropped later; devices reboot, vanish, repeat and forget | maps stay consistent, events are forwarded once and completely, subscriptions heal |
| WebSocket connection (`server/src/ws.rs`) and the end of `main` | receiver position, `listening` | select over frame, event, shutdown; start_listening with its drain | the snapshot, the drain and the events are not taken atomically; lag; shutdown during a command | the answer comes first, no old event after it, no gap, catching up, shutdown reaches all |
| Stack thread and its callers (`stack/src/lib.rs`, `runtime.rs`, `ops/interact.rs`, `ops/window.rs`, `ops/fabrics.rs`, `controller/src/commands/`, `main.rs`) | request channel, a detached task per request, the ready handshake | every command that asks the stack, boot, death, shutdown | the thread dies or hangs with calls under way; devices act after the timer; what an error says of the device | every call is answered, and truthfully; the process ends with its stack |
| Discovery and commissioning (`ops/discovery.rs`, `ops/commission.rs`) | the browse slot, a deadline and an exclude list per sweep, a timer per phase | sweep, browse, phase 1, phase 2 | nested timers, a slot with an untimed wait, a fail-safe that outlives an attempt | sweeps stay in bounds, contention is reported only when real, success means joined, all operations end |
| Report values (`reports.rs`, `tlv_json.rs`) | the half-merged report of a node, its event high-water mark | absorb, walk_events, conversions in both directions | lists cut into elements over several messages, entries that do not parse, numbers at the edge of a width, two epochs | what is forwarded is what the device holds; no event is lost; a write reads back |
| Identity (`stack/src/identity.rs`, `migration.rs`) | `server.json`, the fabric in rs-matter's memory | load, mint, install, create, roll back | the file is unreadable, edited or cannot be written; serials devices reject | what is served is stored; no fabric is ever replaced by another |
| Migration tool (`migrate/src/`) | the matter.js store it reads, the directory it writes | open_namespace, decode, convert, check, write | a journal cut at any point, contradicting caches, a failure between two writes, a second run | the replay is exact or refused; what is reported as written is complete and accepted |
| Storage (`storage.rs`) | files | load, save (replace or fail), delete, allocate_node_id, validate_credential_id | failing writes | in the modules that use it |
| Not modelled | | | | see section 8 |

## 2. Modules

| Module | Models | Lines of the code |
|---|---|---|
| `NodeManager` | the consumer task, its two channels, the grace timers, the registry and the node files | `node_manager.rs`, `registry.rs`, parts of `storage.rs`, the event relay of `main.rs` |
| `NodeCommands` (EXTENDS `NodeManager`) | the clients' commands on nodes beside the consumer, node ids, boot, restart | `commands/nodes.rs`, `commands/commissioning.rs`, `real.rs`, `storage.rs` |
| `Subscription` | supervisors, report handling and the stack's request loop | `supervisor.rs`, `reports.rs`, `ctx.rs`, `runtime.rs` |
| `ConfigStore` | config.json, credentials, fabric label | `real.rs`, `credentials.rs`, `fabrics.rs`, `main.rs` |
| `WsConnection` | connections, broadcast channel, shutdown | `ws.rs`, `main.rs` |
| `StackThread` | the thread, its requests and `main` around it | `stack/src/lib.rs`, `runtime.rs`, `ctx.rs`, `ops/interact.rs`, `ops/window.rs`, `ops/fabrics.rs`, `commands/*.rs`, `main.rs` |
| `Commissioning` | sweeps, the browse slot, commissioning against the device's fail-safe | `ops/discovery.rs`, `ops/commission.rs` |
| `NodeView`, `NodeManagerView` | what the node manager promises the clients, and the mapping that shows `NodeManager` to implement it | |
| `TlvJson` | the conversions as pure operators | `tlv_json.rs` |
| `ReportMerge` (EXTENDS `TlvJson`) | a device whose reports are merged and forwarded, and to which values are written | `reports.rs`, `ctx.rs`, `ops/interact.rs` |
| `JsDb` | the files of a matter.js store, written by matter.js and read by the tool | `migrate/src/jsdb.rs` |
| `Provisioning` | `server.json` and its neighbours, the boot of the identity | `identity.rs`, `storage.rs`, `migration.rs` |
| `Migration` (EXTENDS `JsDb`, `Provisioning`) | the tool between the two | `migrate/src/lib.rs`, `convert.rs`, `decode.rs`, `checks.rs`, `main.rs` |
| `NodeManagerProofs` (EXTENDS `NodeManagerView`), `NodeCommandsProofs` (EXTENDS `NodeCommands`, `NodeManagerProofs`), `SubscriptionProofs`, `ConfigStoreProofs`, `WsConnectionProofs`, `StackThreadProofs`, `CommissioningProofs`, `MigrationProofs` | theorems about the module each is named after | |
| `MC*` | small instances of each for TLC | |

`NodeCommands` composes the commands with the node manager on the same registry
and files: its next-state relation is a step of the consumer, of a command, of
the boot task, of the stack's request loop, or a restart. `Subscription` stands
below `NodeManager` (its `link`, `view` and `forwarded` are what the node manager
receives as `StackEvent`s); `WsConnection` stands above it (a change of the
controller's state followed by its event). `StackThread` is the path of every
request to the stack and back; the requests it has as one step are opened in
`Commissioning` (Browse, Commission) and `Subscription` (the supervisors).
`Subscription` has when and for whom a report is handled, with the attributes as
one version number; `ReportMerge` has what is in it. `Migration` composes the old
store, the tool and the booting server.

### NodeManager

`known`, `available` and `attrs` are the registry; `files` and `file` the
`nodes/<id>.json`; `rx` and `graceRx` the two channels; `graceTimers` the map of
`JoinHandle`s (0: no entry), `sleeping` the timer tasks that have not fired.
`pc`, `cur`, `idx` and `snap` are the handler that is running: the runtime is
multi-threaded and the registry mutex is taken once per call, so a handler is
one action per registry call, broadcast and file write. The `select` of the
consumer is not biased: `RecvEvent` and `HandleGraceExpiry` are alternatives.
`HandleConnected`, `HandleReconnecting`, `HandlePrimingSnapshot`, `HandleChange`
with `AnnounceChange`, and `HandleNodeEvent` are the handlers; `Persist` and
`SaveNode` the two halves of `persist`; `EmitNodeUpdated` and `SendNodeUpdated`
those of `emit_node_updated`. `seen`, `seenAvailable`, `seenAttrs` and `eventLog`
are what a client that applies every broadcast knows. Time is abstract: a
sleeping timer may fire at any moment, so nothing depends on the 180 s of
`RECONNECT_GRACE`.

### NodeView and NodeManagerView

`NodeView` has no registry, timers or files: an `inbox` of reports, a `mode` (up,
grace, down) and the `data` of each node, and the `view` of the clients. A report
is taken only when everything before it is `Shown`, a report of several changes
one change at a time, and a node goes down only from its grace period (`Expire`).
`NodeManagerView` gives each of these in terms of `NodeManager`: the inbox is the
part of the event in hand that is not applied yet, followed by `rx`; a node with an
entry in `graceTimers` is in its grace period; the channel operations, snapshots
and file writes are stutters.

### NodeCommands

`step[c]` is where the command of client `c` stands, `held[c]` the snapshot it
carries from one step to the next. `interview_node` is five steps after the
device's answer (registry, snapshot, save, snapshot, send), `remove_node` four
(entry and supervisor, fabric, file, broadcast), `do_commission` seven under
`allocLock`. Outcomes of the device and of writes are nondeterministic.
`requests` and `supervised` are the request channel and the supervisors of the
stack thread. `Restart` stops the process in any state and reloads the files.

### Subscription

Everything here runs on one thread, so an action is what happens between two
awaits. `task[n]` is the state of a node's supervisor, `owned[n]` the
subscription its `SubscriptionGuard` holds, `subs`, `liveness`, `lastEvent` and
`pending` are the maps of `StackCtx`. A cancelled task's guard goes to
`cancelled` and is dropped by the executor later (`DropCancelled`). Two facts of
the executor are assumed, and stated in the module: its run queue is first in,
first out, and it runs ready tasks (up to 200 at a time) before it polls the
future with the request loop and the responder again. With more than 200 ready
tasks the second does not hold; that window is listed as a hazard.
The device is external: it accepts one subscription, reports changes in one or
two messages, repeats events, reboots (with or without its event counter),
vanishes and returns.

### ConfigStore

A command reads the config at one moment (validation, the kept password) and
changes it at another. `LockAndClone`, `SaveConfig` and `Commit` are
`update_config`; `BuildInfo` and `Broadcast` follow outside the lock. A failed
save keeps the change in memory and answers with an error. The label goes
through `SetLabel` (claim), `StackTakesLabel` or `StackRefusesLabel` (roll back)
and `update_config`. `Restart` is `main` up to the start of the controller, with
or without a pinned label whose write may fail.

### WsConnection

The controller's state is a version number; a change is made and then published.
`cursor[c]` is the position of a connection's receiver in the broadcast channel,
`view[c]` the newest version its client was sent. Taking an event while too far
behind yields `Lagged` and moves the cursor (`RecvLagged`, and in `Drain`).
`Stop`, `ListenersDrained` and `Exit` are the end of `main`.

### StackThread

`main` walks from boot over the ready handshake and the listeners to serving,
and from a signal, a failed bind or the end of the stack over `Shutdown`, the
acknowledgement and the capped join to its end. After a failed bind or the end of the
stack (`fatal`) that is `process::exit`; after a signal main only returns, and the
runtime of `#[tokio::main]` is dropped, which waits for the blocking task that joins
the thread, be it given up or not (`RuntimeDropped`, `RuntimeHangs`). `thread` is starting, serving, stuck,
stopped (the request loop or the transport has ended and nothing runs any more)
or ended. `queue` is the request channel; `kind`, `at` and `answer` say what the
command of each connection asked, where its detached task is and what came of
it. `stage` says which exchange the task is in: that of the request, the read for the QR
code after a window was opened, or the push of a label to one of the nodes in `todo`;
each has a session and a timer of its own and may fail as any other, and
`RequestEnds`, `BasicInfoVidPid` and `PushFabricLabel` are what the code makes of the
result. `session` says whether that exchange was opened, `effect` whether the device
has carried the request out, which it may do after the timer (`DeviceActs`).
A response may lack the status it is to bring: that is an error for a write
(`NoWriteStatus`) and for RemoveFabric (`NocAnswered`), and success for an invoke and
a window (`InvokeAnswered`).
`HandleCommand` is the dispatch with the rejections of each command, `Reply` the
error code the client sees. An operation goes through an encoding step, the
opening of a session and the exchange, and may fail or time out in either;
`PhaseMapper` says what an error is called before and after the session is
open. Timers may end at any time, as their length does not matter here.

### Commissioning

Here the length of the timers matters, and time is a tick, `Ms` of which make a
millisecond, that counts down `outer` (the timer around a browse or a phase), `inner` (the browse's own, from
the moment it has the slot), `deadline` (of the sweep) and `failsafe` (of the
device). A sweep's deadline and what remains of it are ticks; `browse_one` makes of
that a `budget` in whole milliseconds, at least one (`BudgetMs`), and sets both of its
timers from it. `Tick` waits until every timer that ran out has been seen (`Due`); of
two that run out together either may be seen first, so a race between them is
explored both ways. `TakeSlot` and `Release` are the rendezvous slot of
rs-matter. `alloc_lock` of the controller keeps commissionings apart
(`AllocLock`); an attempt that ends leaves the device as it is, armed
(`Earlier` to the next attempt) or joined.

### TlvJson and ReportMerge

TLV and JSON values are tuples that start with their type. `tlv_to_json`,
`tlv_to_json_named` and `attr_value_to_json` are the three ways out,
`write_json` the way in with a type hint, by name or by guess; errors are results,
as in the code. `Byte` scales the widths down, so that 8, 16, 32 and 64 bits have
edges within reach, and the epoch offsets with them. A float is the nearest number of
a given precision (`as_f64`, `as_f32`; `SinglePrecision` and `DoublePrecision` stand
for 2^24 and 2^53), one beyond `SingleMax` is refused, and a float of a device that is
not finite reads as null. What `gen/build.rs` generates
(names, types, epoch attributes) is the parameter `Structs`, `Attrs`, `Commands`.

In `ReportMerge` a device changes values (`DeviceChanges`), raises events, and cuts
a report into messages (`DeviceReports`): an attribute goes whole, as an empty list
and appends, or by index; entries that do not parse stand between them; and the
subscription may die before the last message (`Resubscribes`). `handle_report` takes
one message: `absorb` merges it with `put`, `append` and `set_index`, `walk_events`
and `node_event` convert and forward its events past the high-water mark, and the
last message hands the merged values over. `ClientWrites` and `ClientInvokes`
encode a JSON value, put the result on the device and read it back.

### JsDb, Provisioning and Migration

`JsDb`: matter.js commits (updates of a context, deletions of fields, or of a
context with all below it), starts segments, writes and rotates snapshots, prunes
the segments they cover, compresses, and may be killed inside an append, a snapshot
or a compression, which leaves a torn line or half a file (`half`).
`open_namespace` is the reader: the newer snapshot, then every segment in numeric
order, each line after the snapshot's commit id. There is no second choice: a newer
snapshot that cannot be read, a compressed segment that cannot, although its plain
twin may be whole, or a line that cannot be read and is not covered by the snapshot,
refuses the store.

`Provisioning`: `serverJson`, `configJson` and `nodeFiles` are the directory; a boot
is `BootStored`, `BootMints`, `BootCannotSave` or `BootRefused`. Keys are numbers and
certificates records of what they bind; equality of records stands for equality of
bytes. The operator may delete or edit `server.json`.

`Migration`: `ToolRuns` is everything up to the first write (open, decode, convert,
the checks of `run_all`), and each write is a step of its own that may fail:
`ToolCreatesIdentity`, `ToolSavesConfig`, `ToolSavesNode`, then `ToolCounts`. The
tool may be run again on what a failed run left, and a server may boot in between.

## 3. Runs

All passing runs finish within two and a half minutes with two workers.

| Run | Instance | States | Shows |
|---|---|---|---|
| `node_manager` | 2 nodes, of which one or both are known; 3 Connected and 2 Reconnecting, or a snapshot and a change report (2 paths, 2 values) while a node connects, or 3 events with a history of 2; queue of 2 | 479,568 | `ConnectedIsAvailable`, `OutageIsTimed`, `DiskMirrorsRegistry`, `HistoryIsTail`, the refinement `ImplementsNodeView`, and under fairness `AvailabilityFollowsLink` |
| `node_commands` | 2 clients beside the consumer, ids 1..3 with the controller's own among them, 2 commands, 1 restart | 642,254 | `NodeIdsAreFresh`, `AddedIsKept`, `DroppedStaysGone`, `JoinedIsAvailable` |
| `subscriptions` | 1 node, 2 subscription ids, 1 event, 1 reboot, 2 faults, 3 requests | 611,731 | the invariants of `Subscription`, and under fairness `Resubscribes` |
| `report_merge` | 4 attributes (a list of integers, a time, a list of structures, a structure with a time and floats), 3 changes, reports of 2 items in 2 messages, writes and invokes in and out of range | 283,547 | `ReportIsExact`, `EventsAreKept`, `WriteReadsBack` |
| `config_updates` | 2 connections, 3 commands, 1 restart, ids that differ in case, pinned label or none | 596,927 | the invariants of `ConfigStore` |
| `ws_events` | 1 connection, channel of 2, 4 changes, 4 frames | 59,332 | the invariants of `WsConnection`, `CatchesUp`, `ShutdownReachesAll` |
| `stack_requests` | 2 connections, one with all requests and one with three, 2 supervised nodes, 2 commands | 343,946 | the invariants of `StackThread`, `EveryCallIsAnswered`, `ProcessEnds` |
| `commissioning` | 2 tasks, 2 instances, 2 operations, 2 ticks in a millisecond, timers of 3 ticks to 4 ms | 521,326 | the invariants of `Commissioning`, `OperationsEnd` |
| `migration` | 2 commits over 2 segments and 2 snapshots of an old store with 3 node ids, 2 runs of the tool, 2 boots, 1 edit | 516,336 | `ReplayIsExact`, `MigratedIsAccepted`, `WroteIsComplete`, `PlanIsExact`, `ServedIsStored`, `MintedIsStrict`, and `FabricIsKept` of every step |
| `removed_file_returns` | as `node_commands`, 1 command | | violation of `RemovedFileStaysGone` |
| `late_completion` | as `commissioning` | | violation of `LateMeansRolledBack` |
| `ws_gap` | as `ws_events` | | violation of `SubscriptionHasNoGap` |

What the properties say:

- `ConnectedIsAvailable`: a known node whose last reported link state is
  Connected, and has been handled, is available, whatever its timers did.
- `OutageIsTimed`: a node that is still available with its link down has a timer
  asleep or its signal queued.
- `ImplementsNodeView`: reports are taken in order, none lost or doubled; every
  change of a node is shown to the clients before the next change of any node; and
  a node becomes unavailable only by the end of a grace period.
- `DiskMirrorsRegistry`: between two events each node file holds the registry's
  attributes, unless its last write failed.
- `HistoryIsTail`: the history kept for diagnostics is the tail of the events
  broadcast.
- `AvailabilityFollowsLink`: a node whose link came up becomes available, one whose
  link stays down becomes unavailable.
- `NodeIdsAreFresh`: no id is handed to a device twice, through failures and
  restarts, unless a write of config.json failed. `AddedIsKept`: a node announced
  as added survives a crash, and a known node has a supervisor, or one is on its
  way. `DroppedStaysGone`: no answer that comes after a removal puts the node back.
  `JoinedIsAvailable`: a node whose device is connected is not left unavailable
  because the event came too early.
- `SubscriptionIsOwned`: the maps of `StackCtx` have no orphans and the same keys,
  through replaced and cancelled tasks. `SubscribedIsAnnounced`:
  reports are only forwarded for a node last announced as Connected.
  `EventsForwardedOnce`: device events arrive once and all. `ViewIsCurrent`: a
  settled subscription leaves no attribute behind, and parts of a report that was
  cut short never join another.
- `Resubscribes`: a supervised node whose device stays reachable is in the end
  subscribed on both sides.
- `ReportIsExact`: after the last message of a report a client has every attribute
  as if it had come whole. `EventsAreKept`: an entry that does not parse costs no
  other event. `WriteReadsBack`: a value that was accepted for writing reads back as
  what the client gave, with the keys of the place, rounded to the float type it was
  written as, and one out of range is refused. A time nested in a structure is the
  exception: in an event it reads back as written, in an attribute it reads as seconds
  since 2000, although it was written as Unix time, and the property says so.
- `NoUpdateIsLost`: read-modify-write of the config loses nothing, in memory or on
  disk, and what was answered with success survives a
  restart. `LabelsAgree`: fabric and config tell the same label.
- `EventsComeAfterNodes`, `NoEventSwallowed`: after start_listening the answer comes
  first, no older event after it (unless the
  receiver lagged), and none taken later is lost. `CatchesUp`: a lagging client
  reaches the end of the channel. `ShutdownReachesAll`: no connection stays open
  after the shutdown signal.
- `DownMeansGone`, `EveryCallIsAnswered`: a call is never lost with the thread,
  and "thread is down" is never said while it serves. `RepliesAreTrue`: the
  error codes by which a client may repeat a command are given only when nothing
  was sent, whatever the device does afterwards, and success of a write or of
  RemoveFabric means that the device carried it out. Of the success of an invoke or a
  window it says nothing (see Known deviations). `BestEffortIsOk`: once a window is
  open or a label stored, whatever fails in the exchanges that follow does not turn
  success into failure, and one silent node does not hide the others. `ProcessEnds`:
  the process ends when it is told to or its stack thread is gone, and a stuck thread
  does not keep it, unless it was a signal that stopped it.
- `ReplayIsExact`: what the tool reads is what matter.js had committed, wherever it
  died, and it refuses a store just when a torn line or half a file is in what it
  needs. `MigratedIsAccepted`: a migrated identity is one the fabric's devices accept.
  `WroteIsComplete`: "wrote" means that the directory holds the identity, exactly the
  commissioned nodes and a counter above them. `PlanIsExact`: the tool writes each
  commissioned node once and no other, and does not guess a fabric index that caches
  disagree on. `ServedIsStored`: a fabric is in memory only if `server.json` can
  reproduce it, and its label fits. `MintedIsStrict`: a minted root has a serial that
  strict devices accept. `FabricIsKept`: no step of the tool or of a boot replaces an
  identity by one with another root.
- `SweepInBounds`: a sweep overruns its deadline by less than a millisecond, which is
  what `budget_ms` may add, and keeps the exclude list of rs-matter.
  `ContentionIsReal`: "another discovery or commissioning was holding the browse
  slot" is true whenever it is said. `CommissionedMeansJoined`: success is never
  borrowed from an earlier attempt. `OperationsEnd`: no operation waits for ever.

`TypeOK` (with `CommandsTypeOK` in `NodeCommands`) is proved in every module that
states it; the runs do not repeat it.

### Bounds

- `Budget`, `MaxQueue`: three link events of each kind per run make a full cycle
  (down, up, down) with a queued expiry in between for one node while the other
  has an outage; a snapshot and a report of two changes come in either order, for
  one node or two; three events overflow a history of two. The three are alternative
  budgets of one run, since links, attributes and events meet only in the order of
  the queue.
- `MaxCommands`, `MaxRestarts`: every race of node commands needs two; with a
  restart between them an id is allocated, lost and would be allocated again. A
  config needs three (store, change, change back). One restart is enough because
  it forgets everything but the files.
- `MaxFaults`, `MaxReboots`, `MaxRequests`: one outage and one lost exchange, in
  either order, and start, replace, stop in one run; two ids, since a device may
  reuse one. Nodes share only the request channel and `cancelled`, so one node
  is enough for the maps.
- `MaxChanges`, `MaxCuts`, `MaxItems`: a value that changes twice, so that an old
  element would be seen, and a report of two attributes or events in two messages;
  with `Byte` = 8 the edges of the widths are among the values, and with
  `SinglePrecision` = 4, `DoublePrecision` = 32 and `SingleMax` = 12 floats that either
  type rounds and one that does not fit.
- `MaxCommits`, `MaxSegments`, `MaxSnapshots`: a commit before and one after each
  snapshot, in the same segment and in the next; a kill counts as a commit. `MaxToolRuns`, `MaxBoots`: a failed
  run, a boot on what it left, and a second run, in every order.
- `MaxCalls`: two calls at once, or one after another of the same connection,
  are all that two detached tasks can do to each other: they share the thread and
  the channel only. `Asks`: as tasks do not meet, one caller makes every request and
  the other one of each shape (a single exchange, one with a follow-up, the label).
  Two supervised nodes, so that one comes after a failure.
- `MaxOps`: two operations, at once (a sweep and a commissioning, or two sweeps,
  that compete for the slot) or in sequence (a retry). The budgets are so small
  that every order of the timers is reached: the fail-safe ends before, with and
  after a phase, and a browse gets the slot early, late and never. With `Ms` = 2 and a
  sweep of 3 ticks a remainder of one tick, half a millisecond, is rounded up.
- `Capacity` 2 with 4 changes overflows the channel and still leaves events to
  drain. Connections share nothing they write, so one is enough.

`CHECK_DEADLOCK` is off except in `stack_requests`: a bounded instance may end with nothing to do, and the
real system waits for input. The symmetric sets (clients, connections) are used
in runs without liveness only.

### Fairness

- `NodeManager`: the runtime keeps polling the consumer task and time passes, so
  weak fairness of the consumer and of the timers. Nothing obliges the stack to
  send.
- `Subscription`: the executor polls ready tasks and timers end: weak fairness of
  the request loop, the drop of cancelled tasks, each supervisor step (an
  exchange ends in success or failure) and the report handler. The watch expires
  when the device is silent. Nothing is assumed of the device except that the
  faults are finitely many (`MaxFaults`), which `Resubscribes` needs: with faults
  for ever no subscription lasts.
- `StackThread`: weak fairness of the boot (which ends, one way or the other), of
  the request loop, of each detached task (its timer ends if nothing else does),
  of the thread's end and of `main`. Nothing is assumed of devices, of signals or
  of a stuck thread.
- `Commissioning`: weak fairness of each task that has something to do and of
  time. Nothing is assumed of the network or the device.
- `WsConnection`: weak fairness of what a connection does outside its select
  (commands and sends end), strong fairness of the select's arms, because
  tokio's select picks at random among the ready ones. Nothing is assumed of the
  process's end.

## 4. Findings

Three statements of the repository do not hold of the code; a run shows each.

- `removed_file_returns`: `persist` takes the record and writes it in two steps,
  without the lock in between. If `remove_node` deletes the file between them,
  the write puts it back and the removed node is loaded at the next start. The
  comment says that a concurrent removal makes it skip the write.
- `late_completion`: when phase 2 of a commissioning times out, the message says
  that the device's fail-safe has expired and that it has rolled back. The device
  may have carried out CommissioningComplete and its answer been lost; then it
  stays on the fabric, and the controller has forgotten it.
- `ws_gap`: the drain of start_listening also discards events published after the
  nodes were read, so the client has neither the new state nor the event.

### Known deviations

The same kinds of race appear elsewhere. They were seen while the properties
were being stated, and explain why those are stated as they are:

- A queued grace expiry is taken for the expiry of a *new* grace period if
  Connected and Reconnecting of the node were handled first: the map entry's
  presence does not say whose timer it was (`node_manager.rs:83`). The outage is
  noticed early, and no property that matters is lost.
- `emit_node_updated` and `interview_node` read a node and send it in two steps,
  so a node_updated can follow the node_removed, and an older availability can
  be the last one announced (`node_manager.rs:193`, `commands/nodes.rs:61`).
  `ImplementsNodeView` is therefore a property of `NodeManager` alone.
- `interview_node` and the consumer write a node's file without a common lock,
  and the older snapshot can be written last (`commands/nodes.rs:58`).
  `DiskMirrorsRegistry` is a property of `NodeManager` alone.
- `set_wifi_credentials` without a password copies the stored one before
  `config_write` is held, and undoes what another connection stored meanwhile
  (`commands/credentials.rs:36`).
- Credential ids are validated before `config_write` is held; two connections
  can store ids that differ only in case (`commands/credentials.rs:32`).
- `server_info_updated` is built and sent after `config_write` is released; the
  older one can be sent last (`real.rs:150`).
- The drain of start_listening ends at the first error, `Lagged` included, and
  leaves older events to be forwarded (`ws.rs:79`); hence the exception in
  `EventsComeAfterNodes`.
- `main` waits for the listeners, not for connections that are in a command, and
  may end before they sent server_shutdown (`main.rs:262`).
- A migration that fails after `create_identity` leaves a `server.json` that makes
  every further run refuse, and a server that boots on it serves the fabric without
  its nodes, until the operator deletes the file; the design
  (`docs/superpowers/specs/2026-08-14-matterjs-fabric-migration-design.md`) asks that
  every failure leave both stores usable. `WroteIsComplete` speaks of a run that
  reported success.
- An epoch inside a structure is shifted when written and read raw in an attribute
  (`tlv_json.rs:161-187`); a test pins the reading. A client that reads such an
  attribute and writes it back moves its times by 30 years, or is refused.
  `WriteReadsBack` states what is read.
- An InvokeResponse without an entry is answered as `Ok(Null)` (`interact.rs:326-363`):
  a client, or `open_window`, is told of success although nothing says that the device
  acted. A write or a NOCResponse without its status is an error, and `RepliesAreTrue`
  speaks of the success of those only.
- After a signal `main` returns from `#[tokio::main]`, and the drop of the runtime
  waits for the `spawn_blocking` join that `shutdown` has given up after its timeout
  (`main.rs:273-278`, `stack/src/lib.rs:309-313`): with a stuck stack thread the process
  does not end, although the comment (`lib.rs:307-308`) says that the timeout keeps a
  wedged thread from wedging the shutdown. The path of a dead stack calls
  `process::exit` and has no such wait. `ProcessEnds` makes the exception, and the
  state is `RuntimeHangs`.
- A panic in a detached task drops its reply, and the caller is told that the thread
  is down (`runtime.rs:441`).
- The boot task starts supervisors from the ids it read (`real.rs:75`): a node removed
  meanwhile gets a supervisor that nobody stops before the next start. `AddedIsKept`
  says that no known node is without one, not that no other node has one.
- A label is pushed to the nodes by a detached task per request: that of an older
  label, still waiting for a silent node, may push it after the newer one
  (`runtime.rs:361`, `fabrics.rs:153`).
- A compressed segment is preferred to its plain twin, and half a `.gz`, which a kill
  during the compression leaves, refuses the store although the plain file is whole
  (`jsdb.rs:304-306`).
- A list sent by appends with an element that does not convert is forwarded without
  it, while a whole list would be dropped (`reports.rs:154`). A report that only sets
  an element by index starts from an empty list padded with null (`reports.rs:194`).
  `ReportIsExact` says what is shown in each case but the last.

## 5. Proofs

The theorems hold for every value of the constants that satisfies the assumptions
of the module, which TLC evaluates in every run of it. None of the safety properties
but `SweepInBounds` is inductive given the types; what follows says, for each
component, what is proved and which strengthening carries it. Each strengthening was
checked by TLC on the run of its module before it was proved.

| Module | Theorem | States |
|---|---|---|
| `NodeManagerProofs` | `TypeCorrect` | `TypeOK` |
| | `LinkUpIsServed` | `ConnectedIsAvailable` |
| | `OutagesAreTimed` | `OutageIsTimed` |
| | `DiskFollowsRegistry` | `DiskMirrorsRegistry` |
| | `HistoryIsExact` | `HistoryIsTail` |
| | `ConsumerImplementsView` | `ImplementsNodeView` |
| `NodeCommandsProofs` | `CommandsTypeCorrect` | `TypeOK`, `CommandsTypeOK` |
| | `IdsAreFresh` | `NodeIdsAreFresh` |
| | `RemovalsLast` | `DroppedStaysGone` |
| | `AddedNodesAreKept` | `AddedIsKept` |
| | `JoinedNodesAreServed` | `JoinedIsAvailable` |
| | `JoinedOutagesAreTimed` | `JoinedOutageIsTimed`, `OutageIsTimed` with the commands at work |
| `SubscriptionProofs` | `TypeCorrect`, `InvIsInvariant` | `TypeOK`, `Inv` |
| | `SubscriptionsAreOwned` | `SubscriptionIsOwned` |
| | `SubscribedAreAnnounced` | `SubscribedIsAnnounced` |
| | `EventsOnce` | `EventsForwardedOnce` |
| | `ViewsAreCurrent` | `ViewIsCurrent` |
| `ConfigStoreProofs` | `TypeCorrect`, `InvIsInvariant` | `TypeOK`, `Inv` |
| | `UpdatesAreKept` | `NoUpdateIsLost` |
| | `LabelsAlwaysAgree` | `LabelsAgree` |
| `WsConnectionProofs` | `TypeCorrect`, `ConnInvariant` | `TypeOK`, `ConnInv` |
| | `EventsAfterNodes` | `EventsComeAfterNodes` |
| | `NothingSwallowed` | `NoEventSwallowed` |
| `StackThreadProofs` | `TypeCorrect`, `InvIsInvariant` | `TypeOK`, `Inv` |
| | `DownIsTrue` | `DownMeansGone` |
| | `RepliesTellTheTruth` | `RepliesAreTrue` |
| | `BestEffortSucceeds` | `BestEffortIsOk` |
| `CommissioningProofs` | `TypeCorrect` | `TypeOK` |
| | `SweepsKeepBounds` | `SweepInBounds` |
| | `ContentionIsTrue` | `ContentionIsReal` |
| | `SuccessIsJoined` | `CommissionedMeansJoined` |
| `MigrationProofs` | `CaKeyIsKept` | `FabricIsKept`, of every step |
| | `FabricsAreStored` | `FabricIsStored`, the part of `ServedIsStored` without the label |
| | `ReplayIsAlwaysExact` | `ReplayIsExact` |
| | `ServedFabricIsStored` | `ServedIsStored`, given `StoreLabelIsText` |
| | `MigrationIsAccepted` | `MigratedIsAccepted`, given `StoreNamesTheFabric` |
| | `MintedSerialIsStrict` | `MintedIsStrict`, given `StoreNamesTheFabric` |
| | `UneditedIdentityInstalls` | `UneditedInstalls`, given `StoreNamesTheFabric` |
| | `WrittenDirectoryIsComplete` | `WroteIsComplete`, given `PlanIsExact` |

**NodeManager.** `TypeOK` also says what a handler finds at each of its steps (the
event in hand, a change that exists, a snapshot to save or send), so this is where
the control points are shown to fit together. The assumptions are
`HistorySizeAssumption`, `ProvisionedAssumption` and `BudgetAssumption`.

`ConnectedIsAvailable` and `OutageIsTimed` speak of a quiet node, one with no link
event waiting or in hand, and a step that takes the last event off the channel must
know that it is the one the stack reported last. `LinkInv(K)` adds this for the nodes
of a set `K` of known nodes; here `K` is `known`, and with the commands it is smaller:

- `LastPendingIsLink`: the last waiting link event of a node is its `link`;
- `EntryMeansDown`: a map entry of a quiet node means that its link is down, so
  an expiry that finds an entry never hits a connected node;
- `UpIsAvailable`, `DownHasEntry`: the two properties, in the form the steps keep;
- `EntryHasTimer`: the task a map entry names is asleep or its signal is queued.
  Here the *identity* of the timer matters: a stale signal may consume the entry
  of a newer timer, which leaves that timer without an entry, never an entry
  without a timer.

`DiskMirrorsRegistry` holds in the consumer's select only. `DiskInv` says what is
true at the other points: every other node is clean (`CleanIsOnDisk`), and the
snapshot about to be written is the registry's latest (`SavesTheLatest`), which holds
because the consumer is the only writer here. `HistoryIsTail` rests on three lemmas
about the last `k` elements of a sequence and of one longer by an element.

The refinement needs that the clients agree with the registry when a report is taken.
`ShownInv` says by how much they may be behind at each point: all nodes but the one in
hand are as shown, the one in hand differs in what is about to be sent, what is about
to be sent is the latest, and a consumer that has stopped has emptied its channel.
There is one lemma per action, which shows that it maps to the action of `NodeView`
with the same name or to a stutter: the takes and the channel operations leave the
mapped inbox as it is, since the part of the event in hand that is not applied yet is
still in it.

**NodeCommands.** Assumed are `NodeAssumption` (ids are positive numbers),
`FilesAssumption` (the disk holds finitely many node files), `CommandsAssumption` and
`ClientAssumption`. `IdsAreFresh` rests on `CandidateIsFree`: the range that
`allocate_node_id` searches has more ids than are in use, so (by counting) it has a
free one and (the naturals being well-ordered) a first one. `CounterInv` then says
that `next_node_id`, in memory and on disk alike, is above everything handed out.
For `RemovalsLast`, `IssuedInv` says that every id a command, the consumer, the
registry or the disk works with was handed out, and `FreshInv` that the node that is
joining is in nobody else's hands; so the insert of a commissioning never revives a
removed node. `AddedNodesAreKept` has two parts. `FileInv`: a node about to be
announced is on disk, and one whose file is about to be deleted is out of the
registry. `EveryNodeIsSupervised` is kept by every step, given the lemmas on the
outcome of a channel of start and stop requests: an appended request decides for its
node and for no other (`OutcomeOfLonger`), and serving the first one changes what is
to come for nobody (`OutcomeOfShorter`).

`JoinedNodesAreServed` uses the steps of the node manager again: `LinkInv(K)` is kept
for the nodes whose id was handed out once (`JoinedLinkInv`). The one command that adds
such a node is the commissioning, and it is added in the state `LinkInv` wants only if
the stack has said nothing of it before. `WaitingInv` says so: while a node is joining,
nobody supervises it, no request or event names it, and it has no link and no timer.
An event that came before the registry knew the node, which the manager drops, would
break exactly this.

**Subscription.** `Inv` is `TypeOK` with `GuardInv` (a guard, running or cancelled,
holds the entry of its node, and a node has at most one) and, per node, what the
device has told (`DeviceInv`) and what the two ends know of each other (`SinkInv`):
the high-water mark is the last event told to this subscription, and the parts
collected are those of the report in progress. The cancelled guards are why ownership
is not inductive alone: a replaced supervisor must find its predecessor's entry gone
before it records its own. Assumed are `SubIdAssumption` and `BoundsAssumption`.

**ConfigStore.** `Inv` relates a command's clone to the config it was taken from while
the lock is held (`WriterInv`), keeps what was promised out of the hands of who is
writing (`StoreInv`), and gives the label one owner from the claim to the commit
(`CommandInv`). Assumed are `PinsAssumption`, `BoundsAssumption` and
`NobodyAssumption`.

**WsConnection.** `ConnInv` follows one start_listening through its phases: who has
the nodes (`HasNodes`), that the receiver is past the drain (`PastTheMark`), and that
what it took since is known or being sent (`TakenIsKnown`). Assumed are
`CapacityAssumption` and `BoundsAssumption`.

**StackThread.** `Inv` says that a waiting caller has exactly one request in the
channel and that a closed channel is empty (`QueueInv`), so that dropping the channel
answers everyone; and what a call has done as far as its place tells (`CallInv`): no
session before the exchange, no effect of the request without a session, a follow-up
only of a window or a label, and nodes left to tell only while it goes on. What ends an
exchange goes through one lemma (`ExchangeEndsKeeps`): a result that is true of the
request (`TrueResult`) leaves a true answer, whichever exchange it ends. Every answer
of the device and every error is then shown to be such a result (`DeviceAnswersTruly`);
that `PhaseMapper` looks at the session of the exchange at hand is why a NotFound of
the device is one. Assumed are `MaxCallsAssumption` and `CallerAssumption`; the bound
`Asks` is not used.

**Commissioning.** `TypeOK` says also that the browse slot belongs to the one task
that browses and that the fail-safe runs while the device is armed. What is reported
when the timer runs out depends on both timers and on the wait, so the invariant
relates them (`TimersAgree`): while a task waits for the slot, its wait and its outer
timer make up the budget; while it browses, the outer timer is ahead of the inner one
by the margin (budget less inner budget) less the wait. At an outer timer of 0 the
wait is then at least the margin, and `InnerIsShorter` says that the margin is not 0,
down to a budget of 1 ms; `BudgetType` says that a browse never gets less. For
`SweepInBounds`, `BudgetBound` says that the budget of what is left, in ticks again, is
longer than that by less than a millisecond, whatever the tick rate; from there outer
timer and deadline count down together. `JoinInv` adds that a device on the fabric is never armed
again, so `joined` does not move to a later attempt while an earlier one is being
answered. The assumptions are `BudgetsAssumption` (timers other than a sweep's are not
0, and a millisecond has a tick), `InstanceAssumption` (finitely many instances) and `NobodyAssumption`.

**Migration.** `IInv` says that `server.json`, if it is there, holds an identity with
all its fields, and that the tool about to write holds one; so a correction or a hand
edit of one field leaves the CA key. For `FabricIsStored`, `MemoryInv` adds that a
server that does not run has no fabric.

*The replay.* `ReplayIsAlwaysExact` says that no commits, however many and in
whichever files, make the reader see anything but what matter.js holds. `StoreInv` is
the invariant: the log ends in one plain segment without a twin, twins are equal, no
two snapshots have the same time, the next line will stand after what the snapshot
covers (`Continues`), and the replay of the files over the snapshot that would be
loaded gives what is committed, or an error if a line it does not cover is torn
(`Exact`). It speaks of the files as matter.js meant them; which of them are half
written decides only whether the reader gets that far, so `half` is not in it, and a
kill in a snapshot or a compression is for it the step that was cut short
(`TakesSnapshot`, `GetsTwin`). The writer's steps are then shown to keep it: a commit is one more step at
the end of the replay (`AppendedLine`, `LastFile`), rotation, compression and pruning
change files the replay does not see (`UnseenIsExact`), and a snapshot leaves nothing
to replay (`SnapshotLog`, `NothingToReplay`). That the newest snapshot is the one the
reader chooses (`CoveredIs`) is what makes pruning safe. The replay is a recursive
function over the lines and files. That it has a value at each index, and each
comparison of two replays, is an induction over the set of indexes at which the claim
holds (`UpTo`), which needs only that a non-empty set of naturals has a least element
(`LeastNatural`, from the well-foundedness of the subsets of a finite set). What a
commit does to the data (`apply_ops`) is not looked into. The theorem is also the
reason why the run migrates only from a log of one segment (`MayCutOver`): the tool
sees the same data of any other. No proof uses this bound.

*The identity.* `PlanInv` says that an identity about to be written passed every check,
and can be installed; `OriginInv` that `server.json` holds, until someone edits it, an
identity that was migrated or minted, and `StrictInv` that a minted root has a strict
serial. Migrated and minted roots are told apart by their keys (`FreshKeyAssumption`,
`CountersInv`). The checks compare an identity with three fields of the old store, so
they can show no more than that it agrees with them: that matter.js committed there
what it uses towards its devices is the hypothesis `StoreNamesTheFabric`. It speaks of
what is committed; that the tool reads the same is the theorem before. It and
`StoreLabelIsText` hold in every state of the run `migration`; for its first commits
`MCMigration` states the first one as an assumption that TLC evaluates.

*The label.* `TextInv` follows a label from the store or an earlier config to the boot,
and `TruncatedFits` shows that what is cut between characters fits, for every limit.

*The directory.* `AccountedInv` and `WrittenInv` follow the tool through its writes:
the first records of the plan are on disk as planned, `next_node_id` is above all of
them, and a count that matches leaves no room for a file of an earlier use of the
directory (`LoadedArePlanned`, by counting). That the plan names exactly the
commissioned nodes is `PlanIsExact`, a property of the run and the hypothesis here.

Assumed of the constants: `SegmentsAssumption`, `DrawsAssumption`,
`SerialsAssumption` (serials are sequences of bytes), `LabelAssumption`, `NodesAreU64`,
`LeftoversAssumption` (files left in the directory are of the formats the code writes)
and `FreshKeyAssumption`.

## 6. Model-checked only

- All liveness properties (`AvailabilityFollowsLink`, `Resubscribes`, `CatchesUp`,
  `ShutdownReachesAll`, `EveryCallIsAnswered`, `ProcessEnds`, `OperationsEnd`): the
  prover does not do fairness and ENABLED.
- `ReportIsExact`, `EventsAreKept`, `WriteReadsBack`: the conversions are recursive
  over data, and what they compute needs an induction the prover cannot do.
- `PlanIsExact`: it compares folds over the tables and the map of nodes, and a sort,
  with their results for every content of the store, which needs the same induction.

## 7. Plan

In order; all steps are done.

1. `NodeManager` and its runs: availability is what clients act on.
2. `NodeCommands`: the races of commands and consumer, crashes.
3. `Subscription`: the stack side of availability and data.
4. `ConfigStore`, `WsConnection`.
5. `NodeManagerProofs`: types, `ConnectedIsAvailable`, `OutageIsTimed`.
6. `StackThread`, `Commissioning`: the way of a command to a device and back.
7. `CommissioningProofs`: types, `SweepInBounds`, `ContentionIsReal`,
   `CommissionedMeansJoined`.
8. `TlvJson`, `ReportMerge`: the values of reports and writes.
9. `Provisioning`, `JsDb`, `Migration`: the identity, and the migration with a
   failure between any two writes.
10. `NodeView`, implemented by `NodeManager`.
11. Proofs: the refinement of `NodeView` and the rest of `NodeManager`; the safety
    properties of `Subscription`, `ConfigStore`, `WsConnection`, `StackThread`;
    `NodeIdsAreFresh`, `DroppedStaysGone` and `AddedIsKept` of `NodeCommands`;
    `FabricIsKept` and `FabricIsStored`.
12. Proofs: `JoinedIsAvailable`, with `LinkInv` stated of a set of nodes; the replay
    of the old store; what the tool's checks guarantee of the identity and the
    directory it writes, and the rest of `ServedIsStored` and `MintedIsStrict`.

## 8. Not modelled

- Cryptography and the PASE/CASE handshakes (rs-matter): out of reach of a model
  checker. Keys and certificates are symbols, a phase of a commissioning or the
  opening of a session has an outcome. The passcode, verifier and QR code of a
  commissioning window are computations with published test vectors.
- The generated cluster tables (parameters of `TlvJson`) and the wire types.
- The mDNS responder and its choice of interfaces (`mdns.rs`): network input and
  output. The cache of addresses.
- The lists of ACLs and bindings as such, the ping processes.
- Panics of detached tasks (`runtime.rs:441`). Snapshots that are damaged in other
  ways than by a kill during their write.
- Command-line options and logging; vendor names; the stub controller; the spike.
- The report the migration tool prints, and its scan for leftovers of the Python
  server, which only prints.
- File modes. A race of the tool with a server that starts for the first time on the
  same directory: the tool is run offline, and `create_identity` refuses an existing
  file.
