# Fleet for Agent: a verification development

Fleet lets an AI agent operate the machines of its owner: a *tool* (an MCP
server next to the agent) sends envelopes through a *hub* to the *device agent*
that runs on the machine, or directly to it over WebRTC. This directory holds
TLA+ specifications of the parts of that system where several actors, crashes,
retries and restarts meet, TLC runs that check them on small instances, and
TLAPS proofs for all instances.

Paths below are relative to `src/`.

## 1. Inventory

| Part | State it keeps | Operations | What makes it correct |
|---|---|---|---|
| **Recoverable operations** (`packages/fleet-agent/operation.go`) | `a.operations` (rows in memory), `a.runAdmissions` (counters), the files `operations/<key>.json` | `handleRecoverableRun`, `tracked`, `replyUpdateBusy`, `handleResultQuery`, `admitRun` | a request is executed at most once over retries, crashes and restarts; the intent is durable first; nobody is told something false about it |
| **Work admission and consent** (`update_guard.go`, `main.go`, `autoupdate.go`, `restart.go`) | `activeWork`, `pending`, `permit`, `enabled`, `updateCommitting`, `restarting` under `a.mu` | `dispatchEnvelope`, `handleRun`, `approve`, `deny`, `setPermit`, `disconnectLocked`, `beginAutoUpdateCommit`, `handoffRestart` | an automatic update never interrupts admitted work; a request is answered by the user once; reservations are neither leaked nor returned twice |
| **Invocation receipts** (`internal/receipts/store.go`, `plugin_invocations.go`, `input_invocations.go`) | one index file with an entry per correlation id, a reply file per finished id, `a.pluginInvocations` in memory | `Open`, `Claim`, `finish`, `Close`, `claimInvocation`, `finishInvocation`, `dispatchInput`, `executePlugin` | a plugin call, keys, a desktop action or a command without a `request_id` is performed at most once per correlation id for as long as its receipt is kept, within a bounded store |
| **Panes and the live shell** (`internal/pane`) | the supervisor's panes, a bounded set of retained completions, one interactive shell | `SpawnForObserved`, `GetFor`, `retainCompletion`, `Type`, `Screen` | completed output is retained within bounds and goes to its owner only; shell turns do not mix |
| **Plugins and plugin tasks** (`plugin.go`, `plugin_pages.go`) | installed plugins, running tasks, paged results | `handlePlugin`, `executePlugin`, `cancelPluginTasks` | cancelled tasks end, results are paged without loss |
| **Plugin peer sessions, agent side** (`plugin_peer.go`, `plugin_peer_process.go`) | sessions, rounds, cancel-recovery records | `handlePluginPeerDelivery`, `Claim`, `approve`, `cancel` | deliveries are processed once, a cancelled plugin is reaped also after a crash |
| **Peer sessions, hub side** (`packages/fleet-worker/src/peer-session.ts`) | per session: owners, rounds, tickets, outbox with leases and retry times | `/create`, `/authorize`, `/signal`, `/event`, `alarm` | both ends see the same rounds in order; at-least-once mail with acknowledgements; a terminal state is final |
| **Hub** (`packages/fleet-hub`, `packages/fleet-worker/src/index.ts`) | connected devices, results by `corr`, waiters, payload cache with limits | `acceptDevice`, `onDeviceMessage`, `run`, `get_result`, `waitHubResult` | a result reaches the one who asked; a known result is not replaced by a later weaker one; bounds hold |
| **MCP sessions, expiring rows, signalling** (`packages/fleet-worker/src/index.ts`) | MCP sessions and streams, sessions and pending logins with an expiry index and an alarm, RTC rows and tickets | `McpDO`, `McpSseSession`, `FleetDO.alarm`, `rtc_*` frames | what is used lasts, what is not ends; what was told outlives the instance; a cancelled connection is not authorized |
| **Web site's hub** (`src/lib/fleet`) | sockets and results in memory; devices, aliases, tokens and history in a database | `acceptDevice`, `handleHubHttp`, `onDeviceMessage`, `writeDeviceAlias`, `issueHubToken` | open sockets are reachable, aliases and history are true, what has ended does not run again |
| **Rooms** (`packages/fleet-worker/src/room-*.mjs`, `packages/fleet-room`) | tasks, leases with epochs, messages, agent slots | claim, renew, complete, expire, relay, runner | one lease holder per epoch, stale completions are refused, an unknown outcome is never re-run automatically |
| **Tool** (`packages/fleet-tool/operator.mjs`, `rtc.mjs`, `plugin-peer-runtime.mjs`) | checkpoints, pending calls, RTC sessions | `execOnDevice`, `waitForResult`, `recover_session` | a timeout is not taken for "not executed", fall-back from RTC to WS does not execute twice |
| **Transport** (`packages/fleet-agent/rtc.go`) | RTC sessions and tickets | offer, ticket, cancel | an expired or cancelled session delivers nothing |
| **Update and restart** (`update.go`, `update_extract.go`, `restart.go`) | update phase, staged and backup binaries, handoff flag | `startUpdate`, `applyUpdate`, `handoffRestart`, `recoverAfterFailedHandoff` | a failed hand-over leaves a serving agent |
| **Desktop** (`desktop.go`, `internal/desktop`) | grants with an expiry, last frame | screenshot, action, `clearDesktopSessionLocked` | a grant expires and does not survive a disconnect |
| **Local storage** (`storage.go`, `internal/vault`, `internal/activity`, `internal/filelock`) | encrypted configuration and activity log | unlock, release and restore around a hand-over | one writer; a hand-over does not lose the key |
| **Policy** (`internal/policy`) | rules | `Blocked`, `Unfolded` | (string rules) |
| **Settings UI, CLI, tray, keepalive, host audit, daemon, web site, scripts** | presentation, platform glue, build | | |

How they interact: the hub forwards envelopes to `dispatchEnvelope`, which is
shared by WebSocket and RTC. A `run` is admitted (work counter and admission),
handed to a goroutine, recorded as a receipt, judged by the permission check,
perhaps parked as `a.pending` for the user, launched as a pane, polled until it
ends, recorded as done and answered. A restart starts a successor process that
shares the receipts on disk with its predecessor.

The hard behaviours are the interleavings of the goroutines that hold `a.mu` and
`operationMu` only for single steps; the crash or restart between an intent, a
launch and a completion; processes that overlap during a hand-over; duplicates
and retries over two transports; failing and full disks; queries that race the
work they ask about; counters that must come back to zero for an update to
happen; at-least-once mail between hub and devices; leases that expire while
their holder still works. They are listed with their lines in `PROJECT.json`
under `hazards`.

## 2. Modules

| Module | Models |
|---|---|
| `OperationRecovery`, `OperationOnce` | recoverable commands of one machine: deliveries, receipts, launches, completions, queries, crashes, overlapping restarts; and what that promises: an operation is bound to one input, launched at most once, and its verdict is final |
| `WorkAdmission` | admission, consent, switches, revocation, update commit and hand-over of one Agent process |
| `InvocationReceipts`, `ReceiptPromises` | the ledger of invocations over processes and restarts; and which part of its promises holds on which device |
| `PeerSession`, `PeerLife` | a peer session at the hub with its rounds, tickets, interruptions, outbox and the drains that await the signer; and its abstract life |
| `PeerDelivery` | the way of an outbox item to a device and back, with the Agent's end: prepare, approval, cancellation, and the recovery of an aborted plugin |
| `PeerRuntime` | one row of the tool's peer runtime: its plugin processes, the watcher, `cancel()`, hand-overs and clean-ups |
| `HubDevices` | the hosted hub's account of its devices: handshake, claim, heartbeats, close, token reset with its tree of kicks, bans |
| `HubResults` | requests for a job, owners, results and waiting callers at the hosted hub |
| `HubExpiry` | rows with an expiry, their index and the alarm that sweeps it |
| `HubMcp` | MCP sessions at the hosted hub, over HTTP and over SSE |
| `NodeHub` | the self-hosted hub as one Node process: caches, owners, waiters, jobs |
| `RtcSignals` | how a direct connection is arranged through the hub, with the Agent's side of it |
| `Operator` | the operator's tool: direct and relayed calls, fall-back, polls, and the session file it recovers from |
| `RoomTasks` | tasks of a room: the leader's ledger with its leases, and the runners that execute |
| `RoomRelay` | the relay of rooms, its sockets, and the calls that wait for a leader |
| `RoomConsole` | the console of a room in the browser: pages shown, requests kept and made again |
| `AppHub` | the hub on the web site's origin: sockets in memory, devices, aliases and history in a database |
| `OperationRecoveryProofs` | proofs about `OperationRecovery` and `PeerDelivery` (section 5, as the following) |
| `WorkAdmissionProofs`, `InvocationReceiptsProofs`, `OperatorProofs` | proofs about the module of that name |
| `PeerSessionProofs` | proofs about `PeerSession` and `PeerRuntime` |
| `HubDevicesProofs` | proofs about `HubDevices`, `HubResults`, `NodeHub` and `RtcSignals` |
| `HubRowsProofs` | proofs about `HubExpiry`, `HubMcp` and `AppHub` |
| `RoomsProofs` | proofs about `RoomTasks`, `RoomRelay` and `RoomConsole` |
| `MC_*` | instances for TLC, section 4 |

The modules meet at their edges and share no variable that two of them would
write; each is checked with the other's part left free. `OperationRecovery`
takes the verdict on a request as a free choice, which `WorkAdmission` models;
`WorkAdmission` treats a reply and its receipt as one step, which
`OperationRecovery` (a `run` with a `request_id`) and `InvocationReceipts`
(everything else) take apart. `PeerSession` has sessions and an outbox,
`PeerDelivery` the way of one item of that outbox, `PeerRuntime` a tool that
sees the session only as a `PeerLife`, which `PeerSession` implements. `Operator`
keeps of hub and Agent what the tool can tell of them; `HubResults`, `NodeHub`
and `OperationRecovery` have the rest.

### What is left of the plan

1. **Panes** (`internal/pane`): retention of completions within its bounds, the
   live shell's turns.
2. **Desktop consent and grants**; the web site's login and join codes.

## 3. How the modules correspond to the code

`PROJECT.json` gives the lines of every definition. In every module an action is
what the code does between two points at which another actor may move: a hold of
a mutex in the Agent, a stretch between two awaits in JavaScript, a transaction
or an event of a Durable Object. Counters of the environment (crashes, losses,
attempts) are bounded by constants that are named in the module.

### OperationRecovery

A `Proc` is a process of the Agent, `Call` a delivery of a `run` envelope in its
goroutine, `Query` a delivery of `get_result`. `ops`, `admitted`, `pane` and
`opLock` are `a.operations`, `a.runAdmissions`, the supervisor's panes and
`operationMu`; `disk` is the directory `operations/`; `closed` is
`updateCommitting || restarting`. A key stands for `corr` together with the
namespaces it is hashed with, an `Input` for a command digest. Writes and reads
of the keys in `Faulty` may fail; a process in `Hasty` is one whose successor
may start while it still runs.

`operationMu` is released between finding no row and creating the intent and
while a command runs, so the handler is several actions:

| Action | Code |
|---|---|
| `Dispatch` | `dispatchEnvelope`, `beginWork`, `admitRun`, or the way to `replyUpdateBusy` |
| `FindRow`, `ReplyStoredRun`, `CreateIntent`, `SealIntent` | `handleRecoverableRun`, `writeOperation(create)`: the file exists before its content does |
| `HandleRun`, `Approve`, `RejectPending`, `SpawnPane` | `handleRun`, `approve`, `rejectPending`, `spawnPane` |
| `PaneExit`, `PollFinished`, `RecordDone`, `SendResult`, `RetirePane` | the polling goroutine, `tracked`, the retention of panes |
| `SnapshotAdmission`, `ReadRow`, `ReplyQuery` | `handleResultQuery`, which looks at the admission before the row |
| `ReplyUpdateBusy` | `replyUpdateBusy` |
| `Start`, `SetClosed`, `Die` | boot, the start of a hand-over, the end or crash of a process at any step |

`said` is the last reply only: every property about replies is about the moment
one is sent. `starts`, `ran`, `before`, `qknown` and `outcome` record history
for the properties.

`OperationOnce` has three variables per key (`bound`, `launches`, `verdict`) and
three actions. The mapping reads `bound` and `verdict` off the receipt file,
`launches` off the history variable. A binding appears when an intent is sealed,
a verdict when the receipt is rewritten.

### WorkAdmission

One process; a `Job` is a request of one of four kinds. The code passes the job
from goroutine to goroutine, each one reserved by `goWork` and returned by
`finishWork`: `goroutine[j][r]` follows each of them, and `phase[j]` is what the
one that is `on` does next. `device`, `locked`, `committing`, `restarting`,
`pending`, `activeWork` and `admissions` are the fields of the same meaning
under `a.mu`. One action is what the code does in one hold of `a.mu`.

| Action | Code |
|---|---|
| `Begin`, `Busy`, `GoWork` | `beginWork`, `replyUpdateBusy`, `dispatchEnvelope` |
| `Refuse`, `Proceed`, `Park` | `inputVerdict` and its callers |
| `DisabledBeforeStart` | the second look of `executePlugin` |
| `Start`, `CannotStart`, `End`, `Record` | `spawnPane`, `deliverType`, `executePlugin` |
| `Release`, `Return` | the release of `admitRun`, `finishWork` |
| `Approve`, `Transfer`, `DenyPending`, `Reject` | `approve`, `deny`, `rejectPending` |
| `SetPermit`, `Disable`, `Enable`, `Connect`, `SocketClosed`, `AuthRevoked` | `setPermit`, `setEnabled`, `maintain`, `readLoop`, `handleAuthRevoked`; the ones that disconnect include `disconnectLocked` |
| `BeginCommit`, `EndCommit` | `beginAutoUpdateCommit` and the deferred end |
| `BeginHandoff` ... `Recover`, `Quit` | `handoffRestart`, stage by stage, and `recoverAfterFailedHandoff` |

### InvocationReceipts

Two layers. In memory, `receipt[p][i]` names the call whose `object` later
deliveries of the id wait for (`a.pluginInvocations`). Below, `index[p]` is a
process's copy of the index that is also `disk`, and `reply` are the reply
files. `Claim` is the decision of `Store.Claim` as an operator; `Finish` writes
the reply before the index, as `finish` does. `lock`, `locked`, `restart` and
`ledger` follow `releaseStorageForHandoff`, `restoreStorageAfterHandoff` and
`openStorage`. The hand-over of a process in `Frail` may fail at every stage.

An hour is not counted: an entry lapses at any moment after its calls have ended
(`LongCalls = FALSE`), or at any moment at all (`LongCalls = TRUE`). `effects`
counts executions since the last receipt of the id lapsed. `ReceiptPromises`
states what holds on any device and what only where no frail process has run
(`Orderly`) and calls end before their receipts lapse.

### PeerSession

One session id. `session` is the record, `outbox` its deliveries and ticket job,
`mail` the mailbox of a tool, `clock` the place of `expiresAt` and `gcAt`. Each
storage transaction is an action (`Create`, `Authorize`, `Signal`, `Cancel`,
`Active`, `Complete`, `Interrupt`, `Fail`, `Expire`, `Collect`). `drain` awaits
the signer between reading and writing: `AskSigner` puts the record it read into
a `Worker`, `IssueTicket`, `DropJob` and `SignerFails` come later, whatever has
happened since. The order of the outbox and the times of its attempts are left
open, and a refused request is no action. `PeerLife` keeps the phase, the round
number and who has completed.

### PeerDelivery

One item of an outbox (prepare, cancellation or another end) on its way:
reservation of the account, list of the device's object, frame on a socket that
breaks, handler of the Agent, acknowledgement. `sess` and `plug` are the Agent's
session and its plugin, `must` and `paid` are `cancelRequired` and
`cancelApplied`, `recovery` and `receipt` what is kept for a session that is
gone, `checkpoint` what the plugin has on disk. A handler that answers and hands
its answer to the hub is one step. A crash of the Agent is left out: all of what
it owes is in memory, so that nothing could hold across one.

### PeerRuntime

One row of the manager with three threads: `run` (`at`, with the error it
carries), the watcher of the hub and `cancel()`. A plugin process is known by
its attempt; `run`, `stop`, `known`, `retained`, `current` and `kept` are the
fields of a row that refer to one. `cancelRowPlugins` and `abortRowPlugins`
run in any of the threads, so `job[t]` says how far each has come with one. The
hub's session is `PeerLife`, of whose mail only the end matters.

### Hosted hub: HubDevices, HubResults, HubExpiry, HubMcp, RtcSignals

Every object (`FleetDO`, `DeviceDO`, `RevocationDO`, `McpDO`) handles an event as
a step up to its await of another one. `HubDevices` has a connection's handshake
(`at`, `nonce`), the catalog `row`, and resets (`rpc`, `copy`, `kick`) with the
user's mutation lock. `HubResults` has `own:` and `res:` rows, the waiters of
`result-waiters.mjs` with a reading that is under way (`entry`), and frames that
a closing socket loses. `HubExpiry` has the rows, their index and one alarm that
may die between two writes and is started again. `HubMcp` has what is stored and
what is in memory, so that an eviction loses the difference, and the queue of a
stream. `RtcSignals` follows one attempt per `sid` from the offer to the first
direct call, at hub, Agent and operator.

### NodeHub and AppHub

`NodeHub` keeps everything in memory: its caches are sequences of rows with
weights, evicted as `payload-cache.mjs` does, and a restart empties them.
`AppHub` has a database that every handler awaits: a request is a `task` that
awaits its next statement, and what the device says meanwhile is handled.

### Operator

`mem` and `disk` are the maps of correlations in memory and in the session file,
saved before a recoverable command is sent; `session`, `rows`, `far`, `out` and
`inn` are a direct session and its channel; `post`, `own` and `res` the hub as
far as the tool can tell. A ticket of a recoverable command is the hash of its
request id, so that one name stands for both.

### Rooms: RoomTasks, RoomRelay, RoomConsole

`RoomTasks` has the rows of the leader's ledger and, for each execution of a
runner, where it is (`x`): every request of it to the leader may be lost with or
without its effect, or arrive late. `RoomRelay` has both ends of each socket,
the calls that wait for a leader, and the reconnection of a client.
`RoomConsole` has the pages that are shown, the request ids that are kept until
a reply confirms them, and the leader's receipts of them.

### Mutations

Some definitions have a faulty variant next to them, marked `Fault:`, such as
`MayCreateOver` for `MayCreate`. No action uses one. They are the mutations of
`PROJECT.json`: put in place of the definition, each makes TLC find the
property violated that it is listed with.

## 4. Model checking

`CHECK_DEADLOCK FALSE` stands in all configurations: every instance has finitely
many deliveries, processes or attempts and may simply be done. A module that
checks several instances has a variable `focus` that chooses one for a
behaviour; the others stay in their initial states. The instances of
`MC_OperationRecovery` and `MC_InvocationReceipts` share their constants and use
a part of the processes, keys and inputs each, which is why `Faulty`, `Hasty`
and `Frail` are sets: one configuration can show what is promised where nothing
of that kind is involved.

| Run | Instance | Shows |
|---|---|---|
| `recovery` | "overlap": 2 processes that overlap, 1 key, 2 inputs, 2 deliveries, failing disk; "restart": processes in turn, room for 1 receipt, failing disk, and 2 keys, 2 inputs or a query; "query": processes in turn, healthy disk, a query at any moment, 2 exit codes | `OperationIsSafe`, `AnswersAreTrue`, `ReceiptsAreTrue`, `ImplementsOnce` |
| `recovery_live` | 2 processes in turn, 2 deliveries, healthy disk; or one peer item, one frame, one late drain, 2 breaks | `DeliveriesSettle`, `DebtIsOwed`, `CancelIsApplied` |
| `work` | a command with a plugin call, keys with a call of a local page, or one of them alone | `WorkIsSafe`, `ConsentIsSafe`, `UpdateInterruptsNothing`; alone `GateReopens` |
| `receipts` | "restart": 3 deliveries of a desktop action; "handoff": 2 deliveries, hand-overs that fail at any stage; "limits": 2 ids, room for 1 receipt, failing disk | `ReceiptsAreSound`, `RepliesAreTrue` |
| `peer_rounds` | 2 rounds, 2 drains, a mailbox for 1 item, 2 fingerprints | `RoundsAreBound`, `JobIsKept`, `EndsAreFinal`, `ImplementsLife` |
| `peer_rows` | one row, 2 rounds | `ProcessesAreSound`, `EndAckedAfterCleanup`, `RowSettles` |
| `hub_reset` | 2 connections, 2 devices, 2 resets, 1 eviction | `LockedOut`, `ConnectionsAreTrue`, `ResetEnds` |
| `hub_rows` | a session and 2 logins; an MCP session of either transport; 3 sockets of 2 devices with aliases, or one run with its history | `ExpiryIsSound`, `McpIsSound`, `AppIsSound`, `AppKeeps`, `SessionsLast`, `McpEnds` |
| `results` | 1 job, 2 callers, 1 token reset; 2 jobs of 2 operators in caches of 2, 1 restart; 2 attempts to connect, 2 sockets | `ResultsAreOwned`, `ResultsAreKept`, `NodeIsSound`, `RtcIsSound` |
| `operator` | a recoverable command or a plugin task, and a desktop operation, one call at a time, 2 tries, 2 links, 1 crash, 1 loss | `EffectsAreKept`, `AnswerReachable`, `CallReturns` |
| `operator_plugin` | a plugin task, nothing fails | a disagreement, section 6 |
| `rooms` | a parent task and its child; 2 leaders, 1 client, 2 calls; a message and a delegation, 3 revisions | `TasksAreSound`, `StopsAreFinal`, `RelayIsSound`, `ConsoleIsSound` |

**Bounds.** Nearly every hazard here is a race of two: two deliveries, two
processes, a delivery and a query, a request and a restart, a late drain and an
interruption. Two of each meet in every order. A third delivery is needed where
the second changes what the third finds (a retry after a request for consent, in
"restart" of `receipts`), and a second round where something of the first may
turn up late. Keys and ids are independent but for capacities, so two with room
for one reach the limit. Codes are two where a wrong one could be told from the
right one. Time is counted where the code compares two durations (`HubExpiry`,
`HubMcp`), and a lapse may otherwise come at any moment. Symmetry is used for
safety only. Where a theorem of section 5 states a property, the bound matters
no more.

**Fairness.** The Go scheduler runs every goroutine that can run, a mutex is not
withheld for ever, a promise that is settled resumes who awaits it, and an alarm
of a Durable Object is delivered.

* `recovery_live`: weak fairness for what a goroutine does on its own, strong
  fairness for the handlers that wait for `operationMu`, which others may take
  again and again.
* `work`: weak fairness for the goroutines of the request, the stages of the
  hand-over and the deferred end of a commit. Commands, key strokes and plugins
  end, and each stage of a hand-over ends one way or the other, which the code
  enforces by time-outs.
* `peer_rows`: weak fairness for the steps of `run`, of a launch, of `cancel()`
  and of clean-ups, for the end of a plugin process that was told to stop, and
  for the clock `totalMs`. None for the peer, the hub or the user.
* `hub_reset`: weak fairness for the steps of a reset that is under way. Objects
  answer, if only with an error.
* `hub_rows`: time passes, alarms and the timers of streams fire (`HubMcp`).
  `HubExpiry` needs none: a row that outlives its time is a state.
* `operator`: weak fairness for the tool's calls and polls, for the device, and
  for the end of an attempt at a connection, which has a time-out. None for
  crashes, losses, the break of a channel or new calls.
* Nothing is assumed of the user, of sockets, of crashes and of the hub's
  deliveries: a request may stay parked for ever, a connection never come back.

**What the liveness properties are about.** `DeliveriesSettle` and `GateReopens`
say that no delivery is left without an answer and that the device gets idle
again, without which no update would ever happen; `RowSettles` that no row of a
tool waits for ever for a plugin, a launch or another thread; `ResetEnds` that
the user's lock comes back; `McpEnds` that an unused session goes; `CallReturns`
and `AnswerReachable` that a client gets its result over lost sessions and a
restarted tool.

## 5. Proofs

Proved with TLAPS for every value of the constants that satisfies the
assumptions named in the modules: bounds and capacities are natural numbers,
there is a device, flags are Boolean, `Faulty`, `Hasty` and `Frail` are any sets
of operations or processes, exit codes are integers, `Nobody`, `None` and their
like are no members of the other sets, the kinds of requests, the two transports
and the sockets of the two sides are disjoint, a session is touched more often
than it would lapse, the history of a task has room for two events, a queue for
one frame. Processes, requests, deliveries, jobs, sockets and texts are any
sets, finite or not; where reservations or the weight of a cache are counted,
that only finitely many are out is part of the invariant and proved. Three sets
are assumed to be finite, because the code counts or lists all of them: the tasks
of a room, the calls of a relay and the keys of `HubExpiry`.

Every safety property and every action property that a run checks is stated by a
theorem. A run whose module has several components beside each other
(`MC_Rooms`, `MC_HubRows`, `MC_Results`, `MC_Deliveries`, `MC_PeerRows`) has a
specification of its own; the theorems say so of that one, and rest on those of
the component.

| Theorem | Statement |
|---|---|
| `TypeCorrect` | type correctness of `OperationRecovery`, and that replies are addressed |
| `OwnershipHolds` | its inductive invariant `OwnershipInv` |
| `AtMostOnceHolds`, `IntentPrecedesStartHolds`, `OperationIsSafeHolds` | what it implies |
| `ReceiptIsFinalHolds` | no step replaces a completed receipt |
| `ImplementsOnceHolds` | `OperationRecovery` implements `OperationOnce` |
| `AnswersHold`, `AnswersAreTrueHolds` | the inductive invariant of the answers, and that they are true |
| `ConsentHolds`; `OneConsentHolds`, `OffClearsConsentHolds`, `DenialIsFinalHolds`, `ConsentIsSafeHolds` | consent in `WorkAdmission` |
| `WorkIsSafeHolds` | every reservation is counted once, every request is in one goroutine's hands |
| `UpdateInterruptsNothingHolds` | an automatic update finds an idle device and leaves it so |
| `ReceiptsAreSoundHolds`, `RepliesAreTrueHolds` | the promises of `InvocationReceipts` |
| `InvHolds` | the inductive invariant of `PeerSession` |
| `RoundsAreBoundHolds`, `JobIsKeptHolds`, `EndsAreFinalHolds` | its safety |
| `ImplementsLifeHolds` | `PeerSession` implements `PeerLife` |
| `DevicesInvHolds` | the inductive invariant of `HubDevices` |
| `LockedOutHolds`, `NonceIsUsedOnceHolds` | a reset token opens no socket, bans hold, a handshake authenticates once |
| `ConnectionsAreTrueHolds` | given `InOrder`: the catalog tells the truth about the sockets |
| `OperatorInvHolds`, `EffectOnceHolds` | the inductive invariant of `Operator`, and one effect of every operation |
| `EffectsAreKeptHolds` | given `Serial`: the session file also names the command that was dispatched last |
| `ReceiptsAreTrueHolds` | a completed receipt stays, and who is told that a command was not started is told the truth |
| `DebtHolds`, `DebtIsOwedHolds`, `CancelIsAppliedHolds` | what an aborted plugin left behind is owed by someone; the hub forgets a cancellation only when it was applied (`PeerDelivery`) |
| `ProcessesAreSoundHolds`, `EndAckedAfterCleanupHolds` | one plugin process at most, of the current attempt; an end is acknowledged with none left (`PeerRuntime`) |
| `HubHolds`, `ResultsAreOwnedHolds`, `ResultsAreKeptHolds` | given no reuse of a request id: owners and results of `HubResults` |
| `NodeHolds`, `NodeIsSoundHolds` | the inductive invariant of `NodeHub`, and its safety |
| `RtcHolds`, `RtcIsSoundHolds` | the inductive invariant of `RtcSignals`: no cancelled connection is authorized |
| `AppHolds`, `AppIsSoundHolds`, `AppKeepsHolds` | sockets, devices and history of `AppHub` |
| `McpHolds`, `McpIsSoundHolds` | `HubMcp`: the newest command that was answered, or a newer one, is in storage; queues are bounded |
| `ExpiryHolds`, `ExpiryIsSoundHolds` | `HubExpiry`: nothing is forgotten, a due row goes within a bounded number of rounds |
| `SessionsLastHolds` | no login and no MCP session ends before its time |
| `TasksInvHolds`, `TasksAreSoundHolds`, `StopsAreFinalHolds` | ledger and runners of `RoomTasks` |
| `RelayInvHolds`, `RelayIsSoundHolds` | one leader, one effect, bounded waiting in `RoomRelay` |
| `ConsoleIsSoundHolds` | one effect of each request of `RoomConsole`, nothing sent unread |

**`OwnershipInv`.** That a command is launched at most once does not follow from
the launches alone. What the code relies on is that the exclusive creation of
the receipt file makes its creator the owner of the operation. `Ownership` says
so for every call between the creation and the last answer: no other call owns
the key, the file keeps pace with its owner (empty, then running, with its
command), and nothing was launched before the launching step. `Accounted` says
that what was launched is in the file. A step disturbs only its own key, so the
proof has a lemma for each way a step may touch a receipt, and one step per
action.

**`AnswerInv`.** Who is answered "done" gets it from a row in memory, a receipt on
disk, a copy that a handler took, or a pane. The first layer holds for any
constants: an outcome is settled once, by the owner (`OutcomeInv`), and each of
these places repeats it (`RowsInv`); a process that was not started has nothing
in memory (`BornInv`); admissions are counted as calls (`Counted`). The second
layer holds while no process overlaps another (`OneByOne`): memory agrees with
the disk (`Agreed`), who comes after the end of an operation finds it
(`LateInv`), a process to which the first delivery of an operation has come knows
of it or is writing its receipt (`Begun`), and a query that arrived during an
admission sees the admission or the row, because it looks at them in this order
(`SeenInv`).
`AnswersAreTrue` is therefore unconditional about "done" and conditional about
"unknown": section 6 says why.

**`VacantInv`.** That a delivery which is told "command not started" has left
nothing behind is decided in the window between finding no row and creating the
intent. While processes do not overlap, nobody else can write a receipt of the
operation in that window (`Vacant`): who is then refused, by the capacity or by
the disk, was not forestalled by another delivery.

**`ConsentInv`.** `OneConsent` alone is not inductive: approving or denying a
job needs that the job has not been answered yet and has not been launched
(`Unanswered`, `Unlaunched`), and a job answered with a denial must be at its
end. With these, every action is one of three shapes: it changes no job
(`QuietStep`), it moves one job (`MoveStep`, `SilentMove`), or it takes the
pending job from the user (`SettleStep`).

**`WorkInv` and `GateInv`.** `activeWork` is the number of goroutines that hold a
reservation, and that is only inductive if one knows which goroutine of a request
may be reserved while which one is on: `Hands` says in what order loop, task,
consent, executor and poller pass a request on, and `Accounted` that the counter
is the number of those reservations. Two lemmas about the cardinality of a set
with one member more or less carry the arithmetic. `GateInv` adds what the
committing update and the hand-over have closed; with `WorkInv` and `ConsentInv`
it says that a device found idle has no request under way.

**Receipts.** Five layers hold on any device: types; the ledger (the index of
whoever has it is the disk's, and one process at most may save); the processes
with their lock and stage; the objects that later deliveries wait for; and that
each unfinished receipt has a call that will finish it. `Handover`, `Held` and
`Counted` hold where restarts are orderly, and give `AtMostOnce` and
`IntentIsDurable`; with `Owned`, `Agreed`, `DeniedStored` and `Waits` they give
that what is told is true. That these parts need the condition is not a gap of
the proof: section 6 says what happens without it.

**`PeerSession`.** The invariant says, item by item, what may be in the outbox, in
a mailbox and in the hands of a drain that awaits the signer, for the round the
session is in: an item of an earlier round may still be held by a drain, never be
queued. `JobIsKept` is one of its conjuncts, since the ticket of a connecting
session is what the queued job is for. For the refinement every action maps to
one step of `PeerLife` or to a stutter.

**`PeerDelivery`.** What an aborted plugin has left is owed by the session, its
clean-up or the recovery, and the debt passes from one to the next while frames
of the hub are on the wire. So the invariant adds what these may say: the Agent
is told of an end only when the session ended otherwise than by a cancellation
(`ToldOfEnd`); a plugin runs in a session and a recovery only without one
(`PluginInSession`); and a receipt of a cancellation means that the plugin has
nothing left, until a session of the same id begins (`ReceiptMeansClean`), from
which `CancelIsApplied` follows.

**`PeerRuntime`.** `ProcInv` says which process may live: that of the current
attempt, and only while the row was not told to stop. `CtlInv` says where `run`
is, and that it is done only when the row was stopped or no process is left. Both
are needed at each step that replaces the attempt, since the watcher, `cancel()`
and a clean-up may each stand between two awaits.

**`HubDevices`.** That no socket of a dead key is open cannot be shown from the
sockets: a claim that FleetDO granted before the reset comes back to its
DeviceDO at any time after it. `Kicked` therefore speaks of two kinds of
connection. A key is locked out of a device (`LockedOutOf`) if no socket has it
and every claim still on its way back will find it in `revokedKids`; every dead
key is locked out everywhere, and the key whose reset is under way of the devices
that were kicked (`Barred`). Such a key has its marker, so nothing new is
claimed with it, and a DeviceDO may be evicted only with no claim in hand.
`Locking` says that who has the user's lock has read the user that is stored,
which is why a reset cannot undo a ban. `Nonces` says that a nonce is in the
book once or was taken out of it by one connection, and `Catalog` that the row
of a device names a connection to it; its clause about rows that are online
holds only where `InOrder` does.

**`RtcSignals`.** That a cancelled attempt is never authorized is a matter of the
order of a socket: an offer is made once, and its cancellation is never before it
in the queue (`Ordered`, `TakenOnce`). While an offer is unanswered there is no
answer, no signature and no ticket of it anywhere (`Unanswered`); once the Agent
has seen the cancellation it is not authorized, and what is left of it finds
neither a row at the hub nor a ticket (`Over`). Sessions live on the socket of
their offer, and claims carry the operator of their call.

**`HubResults`.** `HubOwner` says that a correlation is its operator's or was
never given out. A result that comes late is harmless only if the row it makes
again has an owner: `HubForgotten` says that what has forgotten its operator has
nothing on its way that would make a row. `HubAsks` and `HubHears` are about what
callers wait for and are told, `HubWaiters` that a waiter is in an entry that is
being read or has its timer. All of it is under the hypothesis that no request
id comes with another command (`~Reuse`), which the run assumes as well; section
6 says what happens without it.

**`NodeHub`.** A cache is a sequence with one row of a job, and its bytes are the
weight of its rows, which the model counts as the cardinality of the set of their
units: so the proof follows an insertion and its evictions with lemmas about
cardinalities (`NodeCaches`). `NodeBook` relates jobs, owners and sessions.
`NodeEnds` says that what was told to have ended is no session and has no row
that says otherwise; `NodeOwn` that what an operator waits for, is told and
drives is its own; `NodeSockets` that the newest socket of the device counts.

**`HubExpiry`.** `IndexInv` says that every deadline is in the index and that the
alarm comes no later than the first of them. What a death of the alarm may leave
is an entry that its key has no more (`Left`), and there are no more of those
than deaths. A row that is due may have others before it, so its end needs a
count (`RoundsInv`): the entries up to it, and a batch for every round it has
been due, are no more than the keys and the deaths together. `LoginsInv` says
that the entry of a login is as late as its row allows or later, and that a use
which is not written down is recent, although the sweep decides on an index that
is older than the row.

**`HubMcp`.** A request works on the row in memory and saves it only when that is
due. `MemoryIsRow` says that the memory is the row in storage, with a use that is
no older; `Numbers` that the newest command answered is no newer than the row's;
and `UsesKept` that a use which is only in memory is newer than the stored one by
no more than `TouchMs`.

**`AppHub`.** One invariant each for the sockets (an open one is what its device's
slot names, and the account's set knows the device), for the requests, for the
devices (no alias twice) and for the runs: what is about to be written to the
history is what the device said, and a run that has ended is completed.

**`Operator`.** An operation that is not recoverable is in one place at most:
with a call that has not sent it, in a frame on the channel, in a frame of the
hub, or done (`Once`); `begun` keeps a second call from taking it up. A
recoverable one may be in several, and the device's receipt is what makes its
effect one. For the session file, `Handled` says that the one call there is has
noted in memory what it is about to save; it needs that no call outlives the
process (`Awake`), since the next process reads the file anew.

**`RoomTasks`.** Tools in two executions at once are ruled out by an agreement
(`Agree`): an execution that may still act is the one the ledger has, and no
request of an execution that was given up ends the present one. On the side of
the ledger (`LedgerInv`) one task of a session goes at most, who waits has
children, and each receipt beyond the limit ended a task or took it from its
runner. That the end of a task is never refused is a matter of room: every row
keeps free the events that its end will need (`FitsIn`). `Shapes` says what an
execution has at each of its steps.

**`RoomRelay`.** One runtime of a given id (`OneRuntime`); what waits is the
client's who is connected, and within the limit (`PendingIsOwned`, `PendingBound`);
every "ok" comes from a receipt (`Answered`), which a retry over another socket
finds; and of the sockets of a client only the current one lives, and one that
was not shut down has an attempt or a timer (`Retries`).

**Only model-checked.** Liveness under fairness, and with it `ENABLED`, is out of
the prover's reach: `RowSettles`, `ResetEnds`, `AnswerReachable`, `CallReturns`,
`McpEnds`, `GateReopens`, `DeliveriesSettle`. These are shown on the instances of
section 4 alone.

## 6. Where the code and its documentation disagree

* `operator_plugin`. While a direct session to the device is open, `tryRpc`
  answers `plugin_result` from the rows of that session alone (`rtc.mjs:410`).
  For a plugin task that was dispatched through the hub, or on a session that has
  been replaced, it says pending for as long as the session lasts, although the
  hub has the result. `operator.mjs:715` tells the agent to poll with the ticket.

What follows was met while modelling and has no run of its own; the modules
follow the code, and their properties are stated so that they say what holds.

*Commands and receipts.*

* A successor that starts while its predecessor still runs a command reads the
  receipt as interrupted, keeps `unknown` in memory (`operation.go:184`) and goes
  on answering it after the predecessor has completed the receipt on disk, while
  `docs/OPERATION-RECOVERY.md:71` says that a completed receipt reports its code.
  Of two such processes that both find no receipt, the one that loses the
  exclusive creation answers "command not started" (`operation.go:193`), which
  the comment at `update_guard.go:79` rules out. This is why `AnswersAreTrue` and
  `ReceiptsAreTrue` are about processes that do not overlap (`OneByOne`).
* A receipt of an invocation expires an hour after its claim whether or not it has
  ended. If a command takes longer, a transport retry of the same correlation
  runs it again (`plugin_invocations.go:84`), which the comment at
  `plugin_invocations.go:11` rules out: `LongCalls` in `Orderly`.
* Between the release of the storage and its reopening after a failed hand-over
  there is no ledger, and a claim is kept in memory only
  (`plugin_invocations.go:64`): `Frail` in `Orderly`.
* A call from a page that the device serves locally does not pass `beginWork`
  (`plugin_pages.go:229`), so `UpdateInterruptsNothing` excludes it.
* `deny()` settles and answers the pending request without a reservation
  (`main.go:1145`); an update may begin before the answer is written.
* The verdict looks at `enabled`, not at a revocation (`main.go:257`): a request
  admitted before the revocation may still be parked and approved after it.
* Keys that wait for consent are forgotten when the read loop ends
  (`main.go:683`); a retry on the same process waits until its own socket closes.

*Peer sessions.*

* `peerCancelReceipts` is not deleted when a later prepare of the same session id
  creates a new session (`plugin_peer.go:2147`, `:2636`), so that an old receipt
  may acknowledge a later cancellation. `CancelIsApplied` excludes this case
  (`stale`). A prepare that is delayed may create a session again after its
  cancellation was acknowledged.
* A cancellation that reaches the tool after it has aborted the plugin of an
  interrupted round and before it has launched the next one clears the retained
  plugin with the transition (`plugin-peer-runtime.mjs:1432`), cancels nothing and
  acknowledges the end, while the plugin's checkpoint stays. The comment at `:661`
  says that a cancellation is never acknowledged after an abort alone;
  `EndAckedAfterCleanup` claims only that no process is left.

*Hosted hub.*

* An operator that sends a request id again with another command gets a conflict.
  The conflict is stored with the owner and ends the session, which removes `own:`
  (`index.ts:3280`); an `accepted` that comes afterwards, in answer to a query,
  replaces the row by one without an owner (`:3243`), and the job, which still
  runs, is nobody's. This is why `ResultsAreOwned` and `ResultsAreKept` are about
  requests without such a reuse (`Reuse`).
* A request of `rtc_cancel` that comes between the two locks of `handleRTCOffer`
  leaves a session that is never authorized, and the limit of sessions may be
  exceeded by one for each of those (`rtc.go:275`). An answer that was under way
  while its attempt was cancelled puts the row back (`index.ts:3184`). A lost
  `rtc_claim` leaves a result at the Agent that nobody takes.
* `PresenceIsTrue` of `HubDevices` needs that a device's touch and its release
  arrive in the order in which they were sent (`InOrder`); Durable Objects
  promise that for one sender.

*Tool.*

* Calls that overlap on one device: a late reply leaves the correlation of one
  call with the request id of another, and the hub answers 400 to the poll
  (`index.ts:2967`). `docs/OPERATION-RECOVERY.md:67` holds for a client that makes
  one call at a time, which is what `Serial` says.
* An attempt to connect that is shared by several calls and aborted by the one
  that began it sends the others through the hub.

*Rooms.*

* A removed member's execution fails its permit, its `tasks.fail` is refused and
  the task ends as unknown; so does one whose lease expires between the permit
  and its completion. A cancellation that reads a stale row overwrites the
  "resumed" event of the parent.
* The relay of the self-hosted server may be pruned between an upgrade and the
  opening of the socket, which leaves an Agent connected to a relay that nobody
  can find (`room.server.ts:127`).
* In the console, a remount forgets the request ids that were kept; a text that
  was refused for a conflict keeps its old envelope; a delegation without a device
  uses the leader's default at the time it arrives; `rooms.create` draws a new id
  for every submit (`room-console.tsx:386`).

*Web site's hub.*

* A result that comes before the row of its command is inserted leaves the row
  "running" (`v1.server.ts:453`). A "pending" row of a plugin run stays when the
  send fails.
* A token reset between the look-up of the actor and the attachment of the socket
  leaves a socket of the old token. A removed device comes back by the upsert of
  its socket. The close of a socket that was replaced writes "offline".
* The comment at `device-alias.ts:129` says that a new id may not reuse an alias.
  The look-up and the insertion are two statements, and so are those of an alias;
  the unique index covers two aliases, not an alias and the id of a device that
  connects meanwhile.

## 7. What is not modelled

* Panes and the live shell, desktop grants, file transfer, the policy on command
  strings, user interfaces, the daemon, build and start scripts, accounts and
  login. `PROJECT.json` lists every part with its reason.
* In the Agent: a reply handed over while a restart closes the connection is
  lost (`Tell`), and the redelivery of a plugin result after a reconnection is
  left out; the pending desktop request and peer sessions, which take part in the
  idle test as `pending` and `activeWork` do; a second manual restart after a
  hand-over that has succeeded; locking and moving the storage from the settings
  page. Downloading, verifying and staging an update are one step, and so are the
  pages of a plugin's result.
* Files are written atomically by rename; a crash between the steps of a write
  is the crash before or after it, except for the intent, whose file exists
  before its content. Loss of data that the system call had accepted (a power
  failure without `fsync`) is not modelled.
* At the hubs: requests between Durable Objects are not lost, but for kicks;
  an alarm comes on time; screens and static routes of `NodeHub`, and the
  heartbeat, desktop and selection state of `AppHub`.
* In rooms: the directory of Agents, a room's settings in the console, one session
  per Agent, renewals of leases as steps that change nothing else.
* In the tool: the choice of a device by name, the catalogue of tools, the
  deadline of an idle session after an await.
