# WireMudder in TLA+

WireMudder is a MUD client: the Mudlet desktop client (C++/Qt), a thin layer of
its own on the Qt side (`src/src/wiremudder/`) and a sidecar process with the
"WireCore" services written in Rust (`src/wirecore/crates/`). This directory
models the parts of WireMudder's own code in which things happen concurrently,
fail, or depend on the order of calls, checks them with TLC and proves the
properties that matter most with TLAPS.

All paths below are relative to the repository, with a leading `src/`.

## 1. The system

| Part | State it keeps | Operations | Talks to |
|---|---|---|---|
| Bridge supervisor `src/src/wiremudder/bridge` | process, socket, handshake and restart flags, connect attempts, pending frames, timers | `start`, `stop`, `postRequest`, the socket's, process's and timers' handlers | the sidecar over a local socket; the application by callbacks |
| Sidecar runtime `wirecore-runtime/src/main.rs` | `running` flag, per connection a bounded queue | accept loop, one thread per connection, frame dispatch | the supervisor |
| Command policy `wire-policy` | rules per command; pacing window | `evaluate`, `should_send` | called by the gateway |
| Action gateway `wire-actions` | command database, pacing, visible queue, emergency stop, proposal counter | `propose`, `evaluate`, `approve_and_send`, `queue_entry`, engage and release | called by every automated source of commands |
| Autopilot `wire-autopilot` | mode, active profile, stale mark, pending proposals, rate window, audit | `enable`, `disable`, `set_stale`, `clear_stale`, `propose`, `confirm_and_send`, `auto_send`, `cancel`, emergency stop | owns a gateway |
| Session scheduler `wire-headless` | sessions, their states and queues, the rotation, the stop | `create_session`, `set_state`, `enqueue`, `serve_round`, `emergency_stop` | called by the headless host |
| Telemetry `wire-telemetry` | capture switch, ring of recent events, drop and coalesce counters; the journal file | `enable`, `disable`, `record`, `record_coalesced`, `recover_journal` | the file system |
| Storage `wire-storage` | bounded write queue; in SQLite the schema, its versions, transcripts and their full-text index | `open`, `migrate`, `enqueue`, `drain_into`, `append_transcript`, `delete_profile` | SQLite |
| Voice companion `wire-voice` | state, microphone, speech queue, emergency stop, combat and load flags, wake phrase, remote policy | the state setters, `begin_listen`, `end_listen`, `enqueue_speech`, `cancel_job`, `barge_in`, `submit_remote`, ... | called by the user interface, the game and speech workers |
| Updater, router, privacy, replay, ... | see `PROJECT.json`, "components" | | not modelled (sections 7 and 8) |

What is hard about them, and what makes each one correct:

* **Bridge and runtime.** Qt handlers run one at a time on the main thread, but
  timers outlive `stop()`, sockets deliver late signals, callbacks call back
  into the supervisor while a handler has work left, and the sidecar crashes,
  hangs or dies at any moment. The
  bridge is correct if its pointers and flags agree, no second sidecar is left
  running, requests are neither repeated nor reordered, and a lost sidecar is
  replaced. In the sidecar each connection has a thread; the `running` flag is
  read before a blocking read and acted on after it, and a write blocks while
  the peer does not read.
* **Command safety.** Proposals are values that callers keep, so the decision
  that was right when a command was proposed has to be right when it is sent.
  Pacing works on a wall clock. Correct means: nothing is sent past the
  emergency stop, the database or a required confirmation; nothing twice; not
  more than the windows allow; every proposal is accounted for.
* **Scheduling.** A busy session must not starve another; the emergency stop is
  global and final.
* **Persistence.** A process dies between any two writes, inside one too, and a
  write may fail half way. Correct means: what was acknowledged comes back, in
  order and once; what is recorded as applied is applied; what the index says is
  in the table; and what is lost is counted.
* **Voice.** A dozen operations in any order over one queue and one microphone.
  Correct means: the stop is silent and final, nobody is listened to in a state
  that does not allow it, and interruptions never take speech that matters.

`PROJECT.json` lists the hazards line by line with the properties that cover
them.

## 2. Modules

| Module | Models | Uses |
|---|---|---|
| `BoundedQueue` | push onto a bounded queue that drops its oldest entry (`BoundedQueue::push`, and `m_pending`) | |
| `LossyFifo` | abstract: a channel that may lose requests and repeats none, and in which only urgent requests overtake | |
| `WireCoreBridge` | `WireCoreSupervisor` composed with the sidecar processes it launches | `BoundedQueue`; implements `LossyFifo` |
| `WireCoreRuntime` | the sidecar's main thread and connection threads | `BoundedQueue` |
| `CommandPolicy` | `CommandDatabase::evaluate`, `HumanTempo::should_send`, as operators | |
| `ActionGateway` | the gateway's state and the effect of its operations | `CommandPolicy` |
| `GatewayCallers` | the gateway used by callers that hold proposals and come back at will | `ActionGateway` |
| `Autopilot` | `AutopilotEngine` and the gateway it owns | `ActionGateway` |
| `SessionScheduler` | `SessionScheduler` of `wire-headless` | |
| `TelemetryJournal` | `TelemetryEngine`, its ring and its journal, across crashes | `BoundedQueue` |
| `TranscriptStore` | `WriteQueue` and `Storage`, across failing statements and crashes | |
| `VoiceCompanion` | `VoiceCompanion` of `wire-voice` | |
| `ActionGatewayProofs` | lemmas about the gateway's operations and about burst windows, for any user of it; theorems about its callers | `GatewayCallers` |
| `AutopilotProofs` | theorems about the autopilot | `Autopilot`, `ActionGatewayProofs` |
| `WireCoreBridgeProofs` | theorems about the bridge, its refinement of `LossyFifo` and what that implies | `WireCoreBridge` |
| `WireCoreRuntimeProofs`, `SessionSchedulerProofs`, `TelemetryJournalProofs`, `TranscriptStoreProofs`, `VoiceCompanionProofs` | theorems about these components | the component |
| `MC...` | small instances of the module they are named after | |

Definitions whose comment begins with "Mutant:" are deliberately wrong versions
of the definition that follows them. Nothing uses them; `PROJECT.json` pairs
each with the property that fails when it takes the definition's place.

### WireCoreBridge

Every handler is one action, because Qt runs it to completion. Two handlers
still have work to do after a callback of the application, and are split there:
`inside` names the callback the Qt thread is in, during which no event is
delivered, and the application's calls (`Start`, `Stop`, `PostRequest`) are what
the callback does. A *slot* is one
launch: the `QProcess`, its process and the `QLocalSocket` made with it; the
pointers `m_process`, `m_socket`, `m_pid` are slots or `NoSlot`. Slots are
reused when nothing refers to them, so restarts are unbounded.

| Code | Action or definition |
|---|---|
| `start`, `stop`, `postRequest` | `Start`, `Stop`, `PostRequest` |
| `launchAndConnect` (launch fails / starts, connect succeeds / is retried) | `LaunchAndConnect`, `LaunchFails`, `LaunchStarts`, `RetryOrReport`, `RetryConnect` |
| `onReadyRead` and `processFrame` | `OnReadyRead`, `OnPong`, `OnOtherFrame`; `OnStrayReadyRead` for a socket that was replaced |
| `processFrame` of a hello_ack, to the call of `readyCallback`; `flushPending` and the rest of the loop | `OnHelloAck`; `ReadyCallbackReturns`, `FlushPending` |
| `onDisconnected`, and a `crashCallback` that calls `stop()` | `OnDisconnected`, `OnDisconnectedThenStop` |
| health timer: `sendPing`, `maybeRestartUnhealthy` | `SendPing`, `MaybeRestartUnhealthy`, `MaybeRestartUnhealthyThenStop` |
| `scheduleRestart`, `restartNow` | `ScheduleRestart`, `RestartNow`, `RestartNowStopping` |
| `restartNow` of a connected socket without `m_restartPending`, to the `crashCallback` that its disconnect calls; the rest | `RestartNowDisconnects`; `CrashCallbackReturns` |
| the sidecar | `CoreListen`, `CoreHandle`, `CoreCrash`, `CoreHang` |

Frames are their kind and, for requests, a number in posting order. Times are
health-timer intervals. `fault` records a null dereference and ends the
behaviour, because what follows is undefined. `urgent` (the requests that
`readyCallback` wrote) and `abandoned` (the sidecars
still running that `restartNow` overwrote) are history: they name what the
properties have to except, and nothing else sets them.

### WireCoreRuntime

One action per atomic step of a thread: `CheckRunning` loads the flag;
`HandleFrame`, `ReadEof` and `ReadError` are the return of `read_line` and the
handling of what it read, up to the response. The write of the response is a
step of its own, `Reply`, `ReplyIgnoringErrors` (`write_ack`) or `ReplyThenStop`
(shutdown, which clears `running` only after it): it waits while `outbox`, the
responses the peer has not read, is at `SocketCapacity`. `Accept` and
`AcceptError` are the accept loop, which looks at
`running` only after an error. Peers connect, send, read and hang up at will.

### CommandPolicy, ActionGateway, GatewayCallers, Autopilot

The operations of the gateway are definitions over its state that the two users
of the gateway build their actions from. `time` is the time that passes, `skew`
how far the wall clock was set back; the code reads `Now == time - skew` and
subtracts modulo `ClockRange`, as `u64` does in a release build. Arguments are
"good" or "bad" for the argument policies that check them. `sends` records
every command that left, for the properties. The audit log of the autopilot is
kept as the outcome of each proposal.

### SessionScheduler

Commands are interchangeable, so a queue is its length. The map of sessions
(`sessions`, with `state` and `backlog`) and the rotation (`roundRobin`) are
separate, as in the code: `create_session` checks and fills the map and appends
to the rotation, `serve_round` takes ids from the rotation and looks them up in
the map (`HasWork`). `bypassed` is a history
variable: how often others were served while the session was waiting.

### TelemetryJournal

The journal is the sequence of its appends, each with what it left in the file:
a whole `line`, a `bare` record whose newline is missing (`writeln!` writes it
with a second call), or a `torn` record. `Parses` says which of them recovery
can read: a bare record only as long as nothing follows it.

| Code | Action or definition |
|---|---|
| `record`, with and without a journal; its error path | `Record`, `RecordFails` |
| `append_journal`; `RingBuffer::push` and `dropped_total` | `AppendJournal`; `PushEvent` |
| `record_coalesced` | `RecordCoalesced` |
| `recover_journal` | `RecoverJournal`, `Recoverable`, `NewestOf` |
| `enable`, `disable` | `Enable`, `Disable` |
| the process ends, between calls or inside `append_journal` | `Crash`, `CrashInRecord` |

Events are numbered in the order they happen. `acked`, `safe` and `damaged` are
history: what was acknowledged, what of it before any append was cut short, and
whether one was. `books` counts this process's events for the accounting.

### TranscriptStore

SQLite commits each statement on its own (the code opens no transaction), so
`migrate` is a sequence of steps, one per statement, with `at` as its program
counter, and `drain_into` one step per line. A migration is the sequence of the
schema objects its statements create; `Strict` are those created without
IF NOT EXISTS. Nothing in the code asks whether the migrations went through
before it writes or deletes, and neither do the actions: what an append needs is
the table, and what it leaves depends on which triggers exist. `unrecorded` is
history: the last row number given out before a version was recorded.

| Code | Action |
|---|---|
| `open` | `Open` |
| `migrate`: read the version, 0 on any error; skip; a statement; the version's row; return | `BeginMigrate` with `ReadVersion`; `SkipMigration`, `RunStatement`, `RecordVersion`, `EndMigrate` |
| a statement fails for a reason outside | `MigrateFault`, `DrainFails` |
| `enqueue`; `append_transcript` | `Enqueue`; `AppendTranscript` |
| `drain_into`: call, a line, an error, return | `BeginDrain`, `DrainNext`, `DrainFails`, `EndDrain` |
| `delete_profile` and the delete trigger | `DeleteProfile`, `IndexWithout` |
| the process ends | `Crash` |

### VoiceCompanion

Every method that changes state is one action of the same name (`set_ready` is
`SetReady`, and so on). A job is its number, whether it is a summary, critical,
approved for remote speech and cancelled; a remote policy is whether it is
local-only and whether everything else `allow_remote` asks for is there.
`bargedIn` is history: whether `barge_in` was called since `set_disabled` or
`emergency_stop` was last called.

## 3. Runs

| Run | Specification and bounds | Checks | Shows |
|---|---|---|---|
| `bridge_safety` | `Spec`; 4 slots (symmetric), 2 requests, 2 faults, 3 calls of start/stop, 1 abandoned sidecar, queue of 1, 1 connect retry | `TypeOK`, `ConnectedConsistent`, `PendingDisciplined`, `NoOrphanSidecar`, `RestartPendingIsArmed`, `HandshakeFirst`, `RefinesLossyFifo` | the supervisor's state stays consistent under every interleaving and with calls from its callbacks, and it implements a lossy FIFO, with the exceptions of section 5 |
| `bridge_liveness` | `FairSpec`; 4 slots, no requests, otherwise the same | `PeerLossIsRepaired` | losing a connected sidecar ends in a running one, a failed launch or a stop |
| `bridge_restarts_settle` | `FairSpec`; 1 fault, otherwise the same | `RestartsSettle` **violated** | a restart timer left over from before `stop()`/`start()` restarts for ever a sidecar that answers its pings |
| `runtime` | `FairSpec`; 2 connections, 3 and 1 frames, queue of 1, room for 1 response, 1 error of accept or read | `TypeOK`, `QueueAccounts`, `ShutdownStopsThreads`, `FramesAreRead` | every lost request is counted, shutdown stops the threads within one frame, and a peer that does not read its responses blocks only itself |
| `gateway_callers` | `CallersSpec`; 5 commands, 2 proposals, burst of 2 in 2 ticks, 2 ticks, 1 clock step back | `CallersTypeOK`, `GateHolds`, `BurstBudget` | callers that hold and replay proposals get nothing past the gate or the pacing |
| `autopilot` | `Spec`; all modes, 3 commands, 3 proposals, queue of 2, 3 ticks, 1 clock step back | `TypeOK`, `StoppedMeansQuiet`, `SentAtMostOnce`, `OnlyPolicySends`, `AuditAccountsForAll`, `RateBudget` | what the autopilot sends, when, by whom and how often, and that nothing is silently dropped |
| `autopilot_audit` | `Spec` | `AuditIsTruthful` **violated** | a failed send is recorded as sent |
| `scheduler` | `FairSpec`; 4 session ids of which 3 may exist, queues of 2 | `TypeOK`, `RotationComplete`, `BypassBounded`, `StopIsFinal`, `WorkIsServed` | the rotation is fair and has exactly the ids of the map, and the emergency stop is final |
| `telemetry` | `Spec`; ring of 2, 4 events, 2 fingerprints, 2 times, any number of crashes | `TypeOK`, `AckedSurvives`, `RingIsRecentHistory`, `EventsAccounted` | what was acknowledged before any append was cut short survives every crash; the ring is recent history; no event vanishes uncounted |
| `telemetry_crash` | `Spec`; ring of 1, 3 events | `CrashLosesOnlyTail` **violated** | one append cut short makes everything acknowledged after it unrecoverable |
| `storage` | `FairSpec`; 2 migrations of 4 and 2 statements, one of them not repeatable, 2 profiles, 3 lines, queue of 2, 1 fault, 2 crashes | `TypeOK`, `VersionMeansApplied`, `IndexMatchesTable`, `TranscriptInOrder`, `LinesAccounted`, `MigrationsComplete` | schema, table and index stay in step, for rows since the first recorded version, although lines are written under any schema; interrupted migrations resume; lost lines are counted |
| `voice` | `Spec`; queue of 2, 3 jobs | `TypeOK`, `StoppedMeansSilent`, `StateAgrees`, `CriticalSpeechKept` | no order of calls breaks the stop, the microphone's state (`barge_in` apart) or critical speech |

### Bounds, and why they are enough

* *Bridge.* The defects and the guarantees of restarts need one sidecar that
  goes away while an older timer or socket is still around: two faults and three
  calls allow stop, start and a crash on either side of each. `MaxAbandoned` is
  the one sidecar that a `crashCallback` can leave behind. Four slots are enough
  for a free one at the next launch, except that with the budgets of faults and
  calls all but used up a stray socket, an abandoned sidecar, the process and an
  older `m_pid` can hold all four, and a launch is then left out; the proofs have
  no such bound. Two requests and a queue of one reach overflow, reordering
  (a request posted from `readyCallback` ahead of one held back) and
  repetition. `MaxRetryTimers` caps retry timers; they are interchangeable, and
  more than one of them only repeats the same connect.
* *Runtime.* Three frames on one connection overflow a queue of one before and
  after a cancel; the frame of the other connection is the interference
  (shutdown, hang-up, malformed). With room for one response
  (`SocketCapacity`) the second one already blocks.
* *Gateway and autopilot.* Times are ticks around the pacing window; the horizon
  covers the end of one window and the start of the next, where a burst can be
  doubled. Two proposals suffice for a replay of one with another in between,
  three for the autopilot's queue of two plus one refused.
* *Scheduler.* Three sessions distinguish "the next one" from "everybody else";
  a fourth id is refused at the limit.
* *Telemetry.* Four events against a ring of two: recovery of more than the ring
  holds, then one more. Crashes are unbounded, because they do not grow the
  state. Two times and a window of one tell "recent" from "not recent".
* *Storage.* The first migration is the one of `init_schema` (without its update
  trigger: no row is ever updated), the second has a statement that cannot be
  repeated, followed by another, so that it can be interrupted on either side.
  Two crashes interrupt a migration and its resumption. Three lines and a queue
  of two let a failing drain leave a line behind that is overtaken by nothing, or
  a direct append come before, between or after two queued ones; lines are
  appended before, between and after the interruptions.
* *Voice.* Two queued jobs are one that a step is about and one it is not; the
  third is refused at the limit.

The runs with `CHECK_DEADLOCK FALSE` stop when the bounds are used up; the
scheduler, the telemetry engine, the store and the companion, which can always
be called again, are checked for deadlock.

### Fairness

* `WireCoreBridge`: Qt's event loop delivers pending signals and fires armed
  timers, a callback of the application returns, and the operating system
  schedules a sidecar that does not hang. The
  application's calls, crashes and hangs carry no fairness.
* `WireCoreRuntime`: the main thread and each connection's thread are scheduled;
  peers owe nothing. A thread in a write of a full socket is not ready to run, so
  its fairness promises nothing. `FramesAreRead` is therefore about the frames of
  a peer that keeps reading its responses, whatever the others do.
* `SessionScheduler`: the host keeps calling `serve_round`. The stop and the
  sessions owe nothing.
* `TranscriptStore`: the host opens the store again after a crash and calls
  `migrate` until it succeeds, and a call that runs (`migrate`, `drain_into`) goes
  on. Faults and crashes are bounded by their number, as an environment that lets
  nothing through for ever refutes nothing; no drain, write or deletion is ever
  begun by obligation.

All are weak fairness: every one of these steps, once possible, stays possible
until it is taken or its reason is gone.

## 4. What is proved

Each proof has the shape Init => IInv, IInv /\ [Next]_vars => IInv', IInv => P,
with an `IInv` made of the properties and the strengthening they need. Every
safety invariant the passing runs check is also a theorem, and so are their two
action properties and the refinement of `LossyFifo`. The only
assumptions are the named ASSUMEs of the modules: natural numbers, a queue
capacity that is not 0, a clock that starts later than it is ever set back,
migrations in ascending order of version the first of which creates the triggers.

### Gateway

`ActionGatewayProofs` says what the operations keep for any user of the gateway. Its core is
`GatewaySendIsGated`: `approve_and_send` sends nothing, or the proposal it was
given with the stop released, the database allowing it and no confirmation
needed. `GateAlwaysHolds` follows, because the database never changes after
construction; `CallersTypeCorrect` bounds the burst count by `max_burst`.

`CallersKeepBurstBudget` (`BurstBudget`) counts sends in any span of
`burst_window_ms`, while `HumanTempo` only remembers when its window began and
how many it has counted. `WindowInv` relates the two: the window has counted
every send since it began; all of those came within one window length, because
a later one would have rolled the window over; and the sends of the window
length *before* it began were at most `max_burst`. That third part is the one
that makes it inductive. A span that holds the newest send reaches back no
further than one window length before the current window began, so that it
holds at most `max_burst` of the earlier sends and at most `max_burst` of the
current ones (`TakeKeepsWindow`). When the window rolls over, everything in the
length before now was counted by the old one (`RollKeepsWindow`). Elapsed time
is taken modulo the range of the clock and therefore never exceeds the true one
(`ElapsedIsBounded`), which is all the argument needs as long as the clock was
not set back. The lemmas are about times and counts only; the autopilot's rate
window uses them too.

### Autopilot

`AutopilotProofs`, for every database, allowlist, capacity, rate and number of
proposals: `TypeOK`, `StoppedMeansQuiet`, `SentAtMostOnce`, `OnlyPolicySends`,
`PendingDisciplined` and `AuditAccountsForAll` always hold. None is inductive
alone, because `confirm_and_send` of a risky proposal trusts the queue:

* `PendingAllowed`: what is pending was allowed by the database when it was
  proposed and still is, and its recorded `confirm` is still the database's
  answer. `OnlyPolicySends` rests on it.
* `PendingOpen`: what is pending has a number that was given out, no audit entry
  yet, and no twin in the queue; `NumbersSettled`: numbers not given out have no
  audit entry and sent ones have. Together they keep the queue and the sends
  disjoint (`SentAtMostOnce`) and make each audit entry count once
  (`AuditAccountsForAll`, by `AuditEntryCounts`). The type bound of
  `bulkCancelled` in turn follows from the accounting.

`SettlingKeepsInvariant` treats every way out of the queue for a single proposal
at once; confirm, auto-send and cancel are shown to be such steps.

`RateIsBudgeted` (`RateBudget`) is the window argument of the gateway applied to
`propose`, which rolls its window even when it refuses; `BurstIsBudgeted` shows
`BurstBudget` for the autopilot, whose own sends of confirmed proposals are not
paced.

### Bridge

`WireCoreBridgeProofs`, for every number of slots, requests, faults and calls,
every queue capacity and every retry limit: `TypeOK`, `ConnectedConsistent`,
`PendingDisciplined`, `NoOrphanSidecar`, `RestartPendingIsArmed`,
`HandshakeFirst` and `RefinesLossyFifo`. The checked invariants are not inductive
together. The invariant adds

* `AliveIsCurrent` (a sidecar that runs is `m_process`, *and* `m_socket` was made
  for it, or it is `abandoned` and no connection leads to it) and
  `ReapedHasExited` (`QProcess` is NotRunning only once the process has exited).
  `launchAndConnect` overwrites both pointers. That this abandons nobody is only
  true because each of its callers has just killed the old process, or found it
  NotRunning; all but the rest of `restartNow` after a `crashCallback`, which may
  have launched another (`CallbackReturnKeepsInvariant`).
* `QuietUnlessUp` and `StoppedHasNoSocket`: nothing is in transit on a
  connection that is down or to a process that ended, so that a slot that is
  used again starts with empty channels, and a late timer after `stop()` has
  nothing to write to.
* `GreetingIsAlone` and `GreetedOnce`: a hello, and then its answer, is alone on
  its connection, and once `m_connected` is set there is none in transit. This
  is why no second acknowledgement finds requests ahead of it: when
  `readyCallback` runs nothing is on its way, so that what `flushPending` writes
  has only that callback's requests before it (`FlushedFrames`).
* `Ordered`: requests on their way `Precede` each other and everything held back,
  by posting order or because `readyCallback` wrote them (`urgent`); what is held
  back is in posting order and never urgent.

The last two carry the refinement. Under the mapping `InFlight` (held back, or on
their way to a sidecar) `PostRequest` is `Post`; `CoreHandle` of a request is
`Handle`, because by `Ordered` and `AliveIsCurrent` the first request of the only
sidecar anything is on its way to comes before all others in flight; every other
step is `Lose` or a stutter,
because it only moves requests from the queue to the connection, or discards
them (`StepRefines`, by a lemma for each kind of step). `HandledOnceInOrder` then
proves of `LossyFifo` that requests are handled each at most once and in posting
order, but for the urgent, and carries it over to the bridge by the refinement.

`ConnectionIsWatched` and `LossIsAlwaysAnswered` are the part of
`PeerLossIsRepaired` that is safety. While the bridge is connected its health
timer runs and has a pong to count from, also on the socket that a failed
`start()` leaves in place; and a step that gives the connection up is a stop,
launches another process, or leaves a restart armed, or about to be by the
handler whose `crashCallback` runs. The second rests on
`RestartPendingIsArmed` (a disconnect during a pending restart arms nothing) and
on `GreetedOnce` (no late refusal of the handshake clears `m_connected`). They
are proved only: `ConnectionWatched` and `LossIsAnswered` are defined with their
proofs.

### Sidecar runtime

`WireCoreRuntimeProofs`, for any number of connections, frames and any capacity:
`TypeOK`, `QueueAccounts`, `ShutdownStopsThreads`. The first two need only
`PushIsBounded`, what one `push` keeps and discards, and `WritesAreBounded`. The
last needs `LateIsLast`:
no frame is late while `running`, and a thread that handled a late frame is not
at `read_line`, so that its next look at `running` ends it.

### Session scheduler

`SessionSchedulerProofs`, for every set of sessions, every `MAX_SESSIONS` and
every positive queue capacity (`SchedulerAssumption`):

* `TypeCorrect`, `RotationIsComplete`, `BypassIsBounded`: `TypeOK`,
  `RotationComplete` and `BypassBounded` always hold.
* `StopStaysFinal`: the action property `StopIsFinal`.

`BypassBounded` is not inductive: it says nothing about where the waiting
session stands. The strengthening `BehindWhenBypassed` says that a session at
position p of n that has work was bypassed at most n - p times. Serving the k-th
session moves everybody behind it k >= 1 positions ahead and adds one bypass,
and those in front of it have no work. It needs `IdleIsNotBypassed`, for the
moment a session gets work, and it holds only until the emergency stop, after
which `serve_round` rotates without serving; then `BypassBounded` is kept
because nothing is served. `StopIsFinal` needs `StoppedIsCanceled`. The lemmas
`RotatedShifts`, `RotatedKeepsSessions` and `SessionCount` are about the
rotation: where each id goes, that none is lost, and that the map has as many
sessions as the rotation has ids. `RotationComplete` relates the two structures,
so that every id `serve_round` takes off the rotation is found in the map
(`WorkAtPosition`).

### Telemetry

`TelemetryJournalProofs`, for every capacity, set of fingerprints, window and
number of events: `TypeOK`, `AckedSurvives`, `RingIsRecentHistory`,
`EventsAccounted`. The invariant adds

* `SafeLines`: as long as no append was cut short the journal is whole lines,
  and every safe event is on one that nothing cut short precedes.
  `AckedSurvives` does not say where the event is, so that it could not rule out
  that the next append spoils its line.
* `Chronicle`: numbers increase along the journal, and whatever is in journal or
  ring or was acknowledged is below `nextId`. It makes recovered events come
  before those recorded later.

The set `Recoverable` contains 1..n with every n. `RecoverableIsPrefix` concludes
without induction that it is 1..k with k its cardinality: n <= k for each of its
members, so it is a subset of 1..k of the same cardinality.
`PushShifts` and `RecoveryShifts` say where push and recovery put each event.

### Storage

`TranscriptStoreProofs`, for every list of migrations, set of strict objects,
queue limit and number of lines, faults and crashes: `TypeOK`,
`VersionMeansApplied`, `IndexMatchesTable`, `TranscriptInOrder`,
`LinesAccounted`. The invariant adds

* `MigrationInv`: the versions recorded are those of a prefix of the list
  (`Applied`), every migration of the prefix is applied to its last statement,
  and a `migrate` that runs is skipping what it found applied, or is at the
  migration after the prefix and has executed the statements before its own
  (`Resumed`), or could not read the version and repeats the first migration,
  whose version it will fail to insert (`Misread`). Without it nothing
  links `at.current`, read when `migrate` began, to what is recorded now.
* `LinesInv`: lines of the table and of the queue carry numbers already given
  out, the queue is in order, and everything queued is newer than every queued
  line in the table; row numbers name rows.
* `IndexInv`, for `IndexMatchesTable`: row numbers in the index have been given
  out, and as long as no version is recorded every number given out is
  `unrecorded`. Once one is recorded the first migration is applied, so that both
  triggers exist whenever a row that counts is written or deleted
  (`TriggersExist`); a `migrate` that fails later drops nothing.
* `AccountInv`, for `LinesAccounted`: a queued line was accepted and is not yet
  in the table nor deleted from it, and numbers not given out name nothing. The
  accounting alone does not say so; a line that was queued *and* stored would
  not count as lost when the queue dies with the process. A crash turns
  `Len(queue)` lines into losses, which takes that the queue's numbers are as
  many as its entries (`QueuedIds`, an injection from positions to numbers).

### Voice companion

`VoiceCompanionProofs`, for every queue limit and number of jobs: `TypeOK`,
`StoppedMeansSilent`, `StateAgrees`, `JobIdsNameJobs` and the action property
`CriticalSpeechKept`. `JobIdsNameJobs` (numbers in the queue increase and are
below the counter, so that one number names one job) is the strengthening:
`CriticalSpeechKept` says that `cancel_job` of a critical job touches no other,
which needs that no other has its number. It is proved only; the autopilot's
`PendingDisciplined` likewise.

### Only model-checked

The liveness properties (`PeerLossIsRepaired`, `FramesAreRead`, `WorkIsServed`,
`MigrationsComplete`): they need fairness and ENABLED, which are outside the
prover's reach. For the first, `ConnectionIsWatched` and `LossIsAlwaysAnswered`
prove that what fairness has to drive is always there. The three violated
properties of section 5 are counterexamples
and need no proof.

## 5. Where the code and its documentation disagree

With a run that shows it (details and quotes in `PROJECT.json`, "findings"):
`bridge_restarts_settle`, `autopilot_audit`, `telemetry_crash`. `RestartsSettle`
leaves aside a sidecar that is late with its pongs and the time a callback runs.

As an exception that a property of a passing run states, and the model reaches:

* "keeps WireCore alive ... and shuts it down cleanly" (`wirecore_bridge.h:37-38`):
  when a restart timer left over from before `stop()`/`start()` fires on a
  connected socket, `m_process` is null already when `disconnectFromServer`
  (`wirecore_bridge.cpp:249`) runs `onDisconnected` and with it `crashCallback`.
  A callback that calls `start()` is not refused; `restartNow` then deletes the
  new socket and overwrites the new process without ending it. The sidecar stays,
  and `pid()` no longer names it. `NoOrphanSidecar` excepts `abandoned`; a
  callback that calls `stop()` there makes `restartNow` read a null `m_socket`.
* `processFrame` sets `m_connected`, calls `readyCallback` and then flushes
  (`wirecore_bridge.cpp:180-188`). A `postRequest` from that callback is written
  at once and overtakes the requests held back, although they were posted before
  it. `LossyFifo` lets `urgent` requests, and only these, overtake;
  `PendingDisciplined` excepts the time the callback runs.
* "`set_disabled()` — voice off, queue cleared, mic shows disabled" and
  "`emergency_stop()` — ... state `canceled`, mic `off`"
  (`src/docs/wiremudder/voice/operations/runbook.md:20-22`, also 13-14):
  `barge_in` (`wire-voice/src/lib.rs:563-571`) looks at neither and moves the
  microphone to BargeIn, which its comment calls "returns to listening" (line
  562); `end_listen` does not leave it. `StoppedMeansSilent` and `StateAgrees`
  except a microphone that such a call has moved; no other call moves a stopped
  or disabled companion's microphone to anything but Off, Disabled or Error.
* `append_transcript`, `drain_into` and `delete_profile` do not ask whether the
  schema is complete. A line appended while the table exists and the insert
  trigger does not (`init_schema` interrupted between its statements) stays out of
  the index for good: `migrate` creates the trigger later and indexes nothing. A
  line deleted before the delete trigger exists likewise stays in the index.
  `IndexMatchesTable` is about the rows after the first recorded version.
* `current_version` takes every error of its query for "table not created yet"
  (`wire-storage/src/lib.rs:289`): a busy or failing read makes `migrate` run
  all migrations again, to the first INSERT of a version that is there. Nothing
  is lost by it, if the statements can be repeated.
* "a hung client cannot block others" (`wirecore-runtime/src/main.rs:209-210`)
  holds of reading. But a shutdown takes effect only when its response was
  written (lines 164-165): a peer that reads none of its responses keeps its own
  shutdown from reaching the other threads.

Met while modelling, visible in the code, without a run of their own:

* `restartNow` says "restart attempt launched; next health tick decides whether
  it succeeded" (`wirecore_bridge.cpp:256-257`). When `waitForStarted` fails
  there is no socket and `m_connected` is false, and `maybeRestartUnhealthy`
  (line 278) only acts when `m_connected`: the bridge stays without a sidecar
  until the application calls `start()`. `PeerLossIsRepaired` names this case.
* A `readyCallback` or `frameCallback` that calls `stop()` returns into
  `while (m_socket->canReadLine())` (`wirecore_bridge.cpp:155`) with `m_socket`
  null. `WireCoreBridge` has this step; it sets `fault`.
* "The `min_interval_ms` is the inter-group cooldown applied to the first send
  of a new burst window" (`wire-policy/src/lib.rs:197-198`). `should_send` rolls
  the window before it tests the cooldown (lines 201-205), so that the `Wait` it
  answers leaves a fresh window and the next attempt, even at once, is sent.
* "Stale or ambiguous state pauses the autopilot rather than guessing"
  (`wire-autopilot/src/lib.rs:7-8`). Only `propose` looks at `stale`;
  `confirm_and_send` (line 326) and `auto_send` (line 404) send what is pending.

* `onDisconnected` says "one restart in flight is enough"
  (`wirecore_bridge.cpp:206`), but `start()` clears `m_restartPending` while an
  older restart timer is armed; two can be in flight.
* A sidecar that dies before its socket connects is restarted by nobody:
  `onProcessError` is connected to no signal, although "the supervisor restarts
  it" (`wirecore_bridge.h:43-44`). `m_connectAttempts` is only reset by a
  successful connect, so a relaunched sidecar may get no retry.
* "The Qt main thread never waits on optional WireCore work"
  (`wirecore_bridge.h:5-6`); `restartNow` and `stop` call `waitForFinished`.
* `pid()` keeps the number of a process that has finished, although it should be
  "-1 when not running" (`wirecore_bridge.h:79`).
* After a shutdown frame the runtime's accept loop keeps waiting: `running` is
  read only after an accept error (`wirecore-runtime/src/main.rs:211`).
* `CommandDatabase::evaluate`: "deny wins" (`wire-policy/src/lib.rs:117-118`),
  but the first rule for a command decides.
* `HumanTempo::should_send` subtracts wall-clock readings without a check
  (`wire-policy/src/lib.rs:200`): after the clock is set back the difference
  wraps and the burst limit does not hold until the clock catches up.
  `BurstBudget` and `RateBudget` are therefore stated for a clock that was not
  set back; the other properties are checked with a clock that was.
* `ActionGateway::evaluate` never reads `source_visible`, which the module
  comment says the gate verifies (`wire-actions/src/lib.rs:6-7`), and
  `queue_entry` takes entries while the emergency stop is engaged.
* `AutopilotEngine::confirm_and_send` sends a proposal that needed confirmation
  itself, past the gateway, although "every send ... passes the deterministic
  Action Gateway" (`wire-autopilot/src/lib.rs:11-12`); and `emergency_stop`
  clears the stale mark, so that after the release the autopilot resumes on the
  state that was reported stale. `StoppedMeansQuiet` and `OnlyPolicySends` show
  what still holds for such sends.
* No operation of the gateway takes an entry off its visible queue once it was
  sent or denied (`wire-actions/src/lib.rs:190`); a full queue refuses every
  later entry until an emergency stop empties it.
* `serve_round` does not look at a session's state: what was queued while Ready
  is served after `set_state(Disabled)` (`wire-headless/src/lib.rs:248`).
* "resumable migrations" (`wire-storage/src/lib.rs:7`): `migrate` resumes only
  scripts whose statements can be repeated. One that creates an object without
  IF NOT EXISTS and is interrupted after it fails on every later call.
  `MigrationsComplete` excepts exactly this; `init_schema` has no such statement.
* `delete_profile`, "Delete all data for a profile" (`wire-storage/src/lib.rs:492`),
  leaves the profile's queued lines alone; they are stored at the next drain.
* `drain_into` has taken a line off the queue when its append fails: the line is
  lost, and only its error tells. `LinesAccounted` counts it.
* `cstr` turns a text with a NUL byte into the empty string
  (`wire-storage/src/lib.rs:198`); the line is stored empty, without an error.
* `record_coalesced` never writes to the journal, so that what it stored does not
  survive a crash; `recover_journal` into a ring that is not empty brings events
  back twice and evicts others without counting them.
* A wake phrase is "paused under Local Only policy when the provider is not
  local" (`wire-voice/src/lib.rs:434-435`), but the policy is looked at only when
  the phrase is set; likewise a job approved for remote speech stays approved
  when the policy is revoked, and `submit_remote` approves cancelled jobs.
* Summaries queued while combat suppresses narration are not suppressed, and
  cancelled jobs keep their place in the bounded speech queue; both are left to
  a consumer of the queue that the repository does not have yet.
* `PriorityRouter`: "P0 and P1 are never starved by lower-priority work"
  (`wire-bug-automation/src/lib.rs:674-676`), but `next` walks the rings with
  `.rev()` over a map in which P0 is the smallest key, and so serves P4 first.
  Its test gives all reports the same id and cannot tell.
* `verify_egress`: "A failed probe marks the selected route unavailable; the
  decision then blocks" (`wire-routing/src/lib.rs:327-329`); nothing is marked.

## 6. Abstractions

* Frame contents, identifiers, log and audit texts, callbacks' arguments and
  error messages are left out; an operation that is refused without changing
  state is the absence of a step.
* `HumanTempo`'s `Wait` durations are not modelled: no caller in the repository
  acts on them.
* The autopilot's mode is fixed when the engine is built although the field is
  public; a profile is "the configured one" or none.
* `session_mut` of the scheduler hands out a session whose public state the host
  could set directly, also after the emergency stop; nothing in the repository
  does, and `StopIsFinal` is about the scheduler's own operations.
* The sidecar in `WireCoreBridge` acknowledges, answers and handles in one step;
  its threads are the subject of `WireCoreRuntime`. A sidecar that was abandoned
  keeps running; that the next one re-binds the socket path under it is left out.
* Callbacks of the bridge are split off where the handler goes on to something
  they can affect. Elsewhere the call and the handler are the two steps one after
  the other: `postRequest` or `start()` in `frameCallback`, and in the
  `crashCallback` of `onDisconnected` and `maybeRestartUnhealthy`, after which
  only the timer is armed; and `readyCallback(false)`, called last. (A `stop()`
  from the latter inside `launchAndConnect` leaves in addition the health timer
  running, which does nothing while not connected.) A callback that runs an event
  loop of its own is not modelled. The late `disconnected` of a socket deleted at
  the end of `restartNow` is taken to come with that step.
* The response counted in `outbox` stands for as many as fit in the socket; a
  write that blocks half way is one that has not ended.
* Draining an empty queue, and appending to or deleting from a table that does
  not exist, change nothing and are no steps. What deleting an un-indexed row
  does in the delete trigger (FTS5's 'delete' of a row it does not hold) is taken
  to leave the other rows' entries alone, and such a deletion may also be
  refused, which is no step.
* A crash in `TelemetryJournal` and `TranscriptStore` is the end of the process:
  what it wrote, and what SQLite committed, stays. Power loss is not modelled
  (the journal is not synced; SQLite runs with `synchronous=NORMAL`).
* The host recovers the journal into a new engine before it records anything,
  the use `recover_journal` is written for; nothing in the code enforces it. It
  changes the ring only through the engine, not through `buffer_mut`.
* Redaction and the bound on an event's size decide what an event contains, or
  that a call changes nothing; neither is modelled. The text and time of a
  transcript line are left out: a line passes the table's CHECK or does not.
* `drain_into` borrows queue and store for as long as it runs, so nothing is
  queued meanwhile; statements in a call of `migrate` are interleaved only with
  `enqueue`, faults and crashes.
* In the companion, styles, macros and subtitles are separate lists that nothing
  modelled reads; the audit texts are left out.

## 7. Not modelled

The inherited Mudlet client (`src/src/*.cpp`, telnet, Lua, mapper, editor) is
upstream code. Of WireMudder's own crates the ones listed as `not_modelled` in
`PROJECT.json` are either planned below, text processing and formatting
(redaction, narration, help), or thin adapters that forward state owned
elsewhere. `src/translations/**/*.ts` are Qt Linguist message catalogues: XML
data, without state or operations to model. The bug automation's report
workflow is a linear sequence of stages; its priority router and the routing
store are described in section 5 and planned below.

## 8. Plan

1. Updater: staged update, health check, quarantine and rollback, with a crash
   between any two steps; an abstract specification "there is always a healthy
   version to start" that it implements.
2. The C++ command gateway as a second implementation of the gate, against the
   abstract promise of `GateHolds`.
3. Priority router and route store, once section 5 is settled; router and token
   budget decisions as operators against a reference.
4. Proofs: of the modules planned above; and the safety that the other liveness
   properties rest on, as `LossIsAlwaysAnswered` is for `PeerLossIsRepaired`.
