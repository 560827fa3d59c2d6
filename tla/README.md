# A TLA+ development of CodexWarden

CodexWarden (`src/`) keeps a connection to a Codex app-server daemon, observes
the threads and turns of its graphical client, and controls them
(`interrupt`, `steer`, `start`). These modules model its concurrent core, TLC
checks them on small instances, and TLAPS proves the results that matter most
for instances of every size.

## 1. Inventory

| part (crate) | state | operations | interacts with |
|---|---|---|---|
| transport | socket, command channel (256), ingress channel (8192), `pending`, `reconcile_ready`, health watch, sequence counter | `request`, `request_action`, `notify`, `mark_reconciled`, `shutdown`; the task `connection_loop` / `initialize` / `drive` | every other part calls it; the daemon; the ingress task |
| core | `shutdown_tx`, `stopped`, the ingress task, the reconnect task | `CodexControl::run`, `Handle::shutdown`, the handle's pass-through methods | all crates |
| control | per-thread locks, correlation counter | `interrupt`, `steer`, `start` | transport (`request_action`, `request`), reducer (waiters) |
| ingest | `states` per thread, `watermark`, `reactivation_verified` | `process`, `discover`, `handle_signal`, `reconcile`, `release_if_idle`, `unsubscribe_all_best_effort` | transport, reducer, store, streaming |
| reducer | thread snapshot, `subscribing`, replay log, waiters | `apply`, `register_waiter`, `events_since`, the subscription marks, `reconcile_thread`, pruning | control, ingest, streaming |
| streaming | two broadcast channels, a cursor per lifecycle stream | `publish`, `LifecycleStream::recv`, `DeltaStream::recv` | reducer |
| store | events, byte counts, gaps, anchors | `record`, `record_reconstructed_active_turn`, prune, `query_sequence`, `query_time`, `evict_idle_content` | ingest |
| supervisor | none of its own but `restart_gui_on_initialize`: processes, the daemon's socket | `initialize`, `check`, `monitor` | the operating system; core starts both |
| protocol | none | parse and classify one frame | transport |

What makes them hard:

* the connection may fail between any two steps, with requests queued, written,
  or answered but not read; commands and events outlive the connection;
* the gate that protects action requests is an atomic flag set by three tasks;
* channels are bounded: the connection task blocks on the ingress, callers on
  the command channel, without timeouts;
* a timed-out request is not a cancelled one;
* watch and broadcast channels lose values;
* responses resolve their caller before the event they are part of is applied,
  so a caller acts on state that is older than the answer it holds;
* most operations check a map, drop its lock, await a request, and write the map;
* processes come and go between the commands that look at them.

What makes each part correct:

* transport: a result means what `RequestError` says; nothing is written twice;
  every call returns; the ingress is complete and in order.
* core: actions wait for the reconciliation of the connection they are written
  on; a connection that needs one gets it.
* control: an action reaches the daemon at most once; `Rejected` means it never
  will; `Confirmed` is backed by evidence of this action; actions on a thread
  do not overlap.
* ingest and reducer: one resume of a thread at a time, the cap, no tracked
  thread pruned, and each turn in flight known, or its absence explained.
* streaming: a subscriber sees each lifecycle event once, or is told of the gap.
* store: a query returns all that happened in its window, or reports the gap.
* supervisor: what died comes back, nothing is launched over a running GUI,
  every wait has an end, an attachment is really the client's.

The hazards are listed one by one, at their lines, in `PROJECT.json`.

## 2. Modules

* `RequestContract` - what a caller of `RpcClient` may conclude from each
  result. Abstract: a call, what the daemon did, and the result.
* `Transport` - the connection task, the handle and its callers, one action
  per step between two awaits. The refinement `ImplementsContract` maps a call
  that is being sent or waited for to an open one.
* `ReconnectGate` - extends `Transport` with core's reconciliation on start,
  its reconnect task, and `Handle::shutdown`. Pass p of the reconciliation is
  request p (`thread/list`) and call p of `mark_reconciled`.
* `ActionControl` - the controller. Its client is an instance of
  `RequestContract`, so what holds of it holds above any client that keeps the
  contract; attempt k of action a is request `<<a, k>>`.
* `ThreadTable` - the reducer's thread snapshot and subscription marks, with the
  pruning that follows each event: every operation under the reducer's lock, in
  any order.
* `Ingest` - extends `ThreadTable` with `ThreadIngestor`: discovers started by
  signals and by the reconciliation, their resumes, retries and reads, the
  watermark, and a daemon behind a connection that is lost and made again.
* `Supervisor` - `initialize`, then the monitor, against processes that start,
  die, connect and quit by themselves.
* `EventStore` - crate store: a bounded buffer, its pruning, its gaps, its
  queries.
* `LifecycleStream` - the reducer's replay log, the lifecycle topic, and one
  subscriber that recovers from the log when the topic has left it behind.
* `EventPlane` - composes the two as the ingress task does, event by event,
  with discovery's anchors and a subscriber running beside it.
* `MCTransport`, `MCReconnectGate`, `MCActionControl`, `MCIngest`,
  `MCEventPlane` - instances for TLC (`Supervisor` has one number for a
  constant and needs none).
* `TransportProofs`, `GateProofs`, `ActionControlProofs`, `IngestProofs`,
  `SupervisorProofs`, `EventStoreProofs`, `LifecycleStreamProofs`,
  `EventPlaneProofs` - theorems and proofs.

Operators whose comment begins with *Mutant* are deliberate faults, each placed
before the definition it stands in for. No specification uses them.

### How `Transport` and `ReconnectGate` correspond to the code

| model | code |
|---|---|
| `call[r]` | the position of `request_inner`: `sending` is the await of `commands.send`, `waiting` the await of the oneshot, otherwise the result |
| `reply[r]` | the oneshot; `dropped` when its sender is dropped without a value |
| `queue`, `CommandCap` | the `mpsc` channel of commands |
| `link` | where `connection_loop` is: `connect`, `initialize`, the backoff select, `drive`, or returned |
| `pending`, `held` | drive's map, and the frame in `ingress.send(..).await` |
| `ready`, `health`, `fresh` | `reconcile_ready`; the watch channel's phase and whether a change is unseen |
| `wire`, `onConn`, `answers`, `runs`, `verdict` | external: frames the daemon may still perform, what it performed, and its answers that can still be read |
| `seq`, `ingress`, `consumed` | sequence counter, ingress channel, the consumer's position |
| `watcher` | `run` up to the first `mark_reconciled`, the reconnect task after it |
| `closing`, `booted` | `shutdown_tx`; the closure has the handle |

`Refuse`/`Pass` are the gate test; `Enqueue`, `EnqueueFails`, `Return`,
`TimeOut` the rest of `request_inner`; `MarkReady`, `MarkSend`, `MarkFails`
`mark_reconciled`; `Connect*`, `Handshake*`, `Retry`, `RejectWhileDisconnected`
the loop; `Write*`, `Take*`, `Read*`, `HandOver*`, `ConnectionLost` the
branches of drive's select, each with the drain that follows a break and the
loop's reaction to it. `socket.send` in `WriteRequest` either succeeds or ends
the connection. A request identifier is fresh for each call, so a request is
its own identifier.

### How `ActionControl` corresponds to the code

It keeps one position per call (`pc`), the queue of each thread's mutex (`line`,
its head holds the lock), the waiter in the reducer, and the turns of the daemon
with the notifications on their way. Waiting out the correlation window and the
retry delay are steps that may come at any time.

### How `ThreadTable` and `Ingest` correspond to the code

| model | code |
|---|---|
| `entries`, `active`, `subscribed` | the keys of `Snapshot.threads`, and `active_turn_id` and `subscribed` of each |
| `subscribing` | `ReducerState.subscribing` |
| `signals[t]` | tasks core has spawned for `thread/started` or a status change to active, not yet in `discover` |
| `states[t]`, `attempt[t]` | the `SubscriptionState`, and the counter of the resume loop |
| `pc[t]` | the discover of t past its check: `begin_subscription`, the resume, the retry delay, the read |
| `cancels[t]` | discovers that have set `Failed` or `Ephemeral` and have `cancel_subscription` still to do |
| `above` | threads with `updatedAt` past the stored watermark or, while a list is being read, past the time stamp its first page has shown |
| `pass`, `found`, `cur` | `reconcile`: its list (`page` between two pages), the candidates left, the candidate it reads and discovers |
| `behind` | threads past the watermark that the pages to come would show |
| `due`, `booted` | the reconnect task has been woken; the first reconciliation has succeeded |
| `status`, `attached`, `feed` | external: turns at the daemon, threads resumed on the connection, events on their way to the ingress |
| `moved` | history: threads updated while they were `behind` |
| `listed`, `skipped`, `unsure`, `undone` | history, for the properties only: a list of this connection was answered, threads listed and not looked at, threads whose read failed or was not the newest, resumes whose mark was cancelled |

The list is one request per page. `FirstPage` and `NextPage` each answer one, with
up to `PageSize` threads; the daemon and every task may act in between. A thread
that is updated then gets ahead of the cursor (`Updated`): no later page shows it,
and it is above the watermark the pass will store, which is the newest time stamp
of the first page. The cursor stands for the time stamp its page ended with, since
the daemon pages by `updated_at`; within the threads of a page, and among those
left for the next, no order is kept. A page with fewer threads than `PageSize` is
the last.

`Enter` is discover's check and the reservation of its place, one lock section.
A read is two steps, the daemon's answer (`AnswerRead`, `AnswerCandidate`) and
its use (`ReadOk`, `CandidateRead`): events go through the ingress in between.
`Reconnect` drops what was on the socket and keeps every task going, as the code
does; a read of the old connection that had been answered is still used.

### How `Supervisor` corresponds to the code

| model | code |
|---|---|
| `pc` | where `initialize` or `monitor` is; each step is one command (`ps`, the version command, `lsof`, `open`, `osascript`, the start of the daemon) and the decision on its result |
| `seen` | the last `ps` listing, which later decisions still use |
| `event` | the last `MonitorEvent` |
| `daemon`, `compatible`, `gui`, `linked`, `other`, `own` | external: the processes, and who is connected to the socket |
| `asked` | the GUI has been asked to quit and has not yet |
| `faults`, `MaxFaults` | bound of the model: deaths, failed commands, changes of version, the user's doings |

### How the event plane corresponds to the code

| model | code |
|---|---|
| `stage` | where `AuthoritativeIngress::process` is with its event: `apply` (first lock `Arrive`, the log's lock `ApplyToLog`), `record` (`RecordEvent`, then pruning), `publish` |
| `recorded`, `retained` | the store's deque is the entries of `recorded` at the positions in `retained` |
| `lock` | the store's write lock, and which of its loops holds it: each eviction is a step, and no other operation of the store runs in between |
| `gaps[None]` | the entry of `gaps` under the key `None` |
| `logged`, `sent` | lifecycle events applied; those of them published. The replay log holds the last `LogCap` of the former, the topic the last `RingCap` of the latter |
| `next`, `cursor` | the receiver's position in the topic; `LifecycleStream.cursor` |
| `mode` | `recv`: in the topic, after `Lagged`, or between `events_since` and the snapshot that comes with `GapTooOld` |
| `anchor`, `sampled` | `discover` has read `current_sequence` and is about to call `record_reconstructed_active_turn` |
| `heard`, `known`, `since` | history: what the subscriber was given, what it asked not to get or was told it had lost, where it began |

`query_time` differs from `query_sequence` only in selecting by a timestamp;
both look up the gap alike. `evict_idle_content` is in `EventStore` and in the
theorems, but no crate calls it, so `EventPlane` has no such step.

## 3. Runs

| run | instance | shows |
|---|---|---|
| `transport` | 1 action, 1 `mark_reconciled`, 1 notification and 1 shutdown compete for a channel of 1; an ingress of 1; 2 connections; an event before or after a handshake | the ingress is lossless, the transport refines `RequestContract`, every call returns, shutdown completes |
| `gate` | 2 passes, 1 action, channels of 1, 2 connections, 1 event | what each result means, nothing written twice; first reconciliation first; no lost wake-up; the gate of a stable connection ends up open |
| `gate_stale` | as `gate`, channels of 2 | *violated*: the gate is open on a connection nobody reconciled |
| `gate_crossing` | as `gate_stale` | *violated*: an action is written while the gate is closed |
| `control` | an interrupt and a start on a thread, 1 retry, 2 turns | what the outcomes mean; the events a waiter is for reach it |
| `control_live` | an interrupt and a steer on a thread, 1 retry | every action returns |
| `ingest` | 3 threads, with 2, 1 and no turns; pages of 1, 2 candidates, a cap of 1, 2 attempts, 2 connections | one resume at a time, the cap, no tracked entry pruned, none during its resume; at rest each turn in flight is known, or its absence has one of the named causes |
| `ingest_reconnect` | as `ingest` | *violated*: a Subscribed thread is not resumed on the new connection |
| `supervisor` | up to 5 faults | `initialize` ends; daemon and GUI come back; the reports settle; no launch over a running GUI |
| `supervisor_attachment` | as `supervisor` | *violated*: Healthy with no client but Warden |
| `events` | 2 threads, limits of 1 and 2 events, retention 1; a log of 2, a topic of 1, 5 events | a subscriber is told what it lost; queries about a thread admit what is gone; the counts of a gap are exact; the limits hold |
| `store_gap` | as `events`, 1 thread | *violated*: a query about all threads reports the gap of the events without one |

### Bounds

One slot per channel makes full channels the common case; two connections are
needed for anything to cross a reconnect, and a third would meet the same
states again, since what crosses is the queue and the gate. One event beside
the responses is enough to fill the ingress. A second retry repeats the first.
In `gate` two passes cover one that fails or is stale and one that follows it;
a third that the code would start is the escape `OutOfPasses` of the liveness
property. `MaxConns`, `MaxFrames`, `MaxFaults`, the sets of calls, threads and
turns are bounds of the models; `CommandCap`, `IngressCap`, `Retries`,
`SubscriptionCap`, `RetryLimit`, `PageSize` and `CandidateLimit` are parameters of
the code. `reconcile_page_bound` is not one of the model's: pages times their size
are the limit of candidates (4 * 50 and 200 in the code).

`ingest`: two threads under a cap of one make the cap refuse, two turns of one
thread let a read overtake or be overtaken by a newer turn, and a second thread
with a turn in flight makes a pass of two candidates. Pages of one thread and a
third, idle thread make lists of several pages, and lists that the limit cuts
short. The turns of the first thread are interchangeable (`Symmetry`; no property
under it is a liveness property). The constraint `Bounds` of `MCIngest` has the
second thread's turn run from the beginning to the end; has that thread updated
before a list or between its pages, where it changes what the pass sees, and not
after, where it only awaits a pass to come; leaves the idle thread, of which no property speaks,
out of `skipped`; has a connection lost only after the first pass (one lost before
it differs in that the same pass goes on); and holds two events in the feed and
one signal task or cancel of a thread at a time. A cancel still owed beside a new
discover of the thread is within it.

`supervisor`: five faults are enough for the daemon to die, its restart to die,
the version to change, the GUI to quit and be opened again in one behaviour.
The liveness properties are about what happens once the faults are used up, and
a bound on them is therefore part of what they say. `CHECK_DEADLOCK` is off in
its two runs, as the supervisor stops.

`events` explores the two halves of the plane each to its own bound (the
constraint `Bounds` of `MCEventPlane`): a subscriber among up to five events
that belong to no thread, or the store alone among up to three events and one
anchor. The two halves share only the order of the stages, so a longer history
of one beside a longer history of the other adds combinations and no
interaction. Five events make a topic of one lag, a log of two replay, and a
log of two be too old for its reader. Three events and an anchor meet the limit
of a thread, the limit of the store, both at once, and expiry (a pause of 2
against a retention of 1), with deltas before and after the lifecycle events
they are preferred to.

### Fairness

`Transport`: the connection task, the ingress task and the callers run (weak
fairness of their steps); tokio's channels serve blocked senders in order,
which is strong fairness of `Enqueue`, `MarkSend` and `StopSend`; `select!`
chooses among ready branches at random, hence strong fairness of `TakeCommand`.
The latter also assumes that `socket.send`, which has no timeout, returns: a
peer that stops reading for good would block the task. The ingress task always
consumes because it awaits locks only: discovery is spawned.

`ReconnectGate` adds the passes, the reconnect task, and a daemon that answers:
`GateReopens` is about a connection that stays up. The transport's own
liveness does not assume an answer.

`ActionControl`: every step of an action in progress is taken, which rests on
`EveryCallReturns` below it and on the fair queue of tokio's mutex.

`Supervisor`: the commands return (weak fairness of `Initialize` and `Monitor`).
None of them has a timeout in the code, so this is an assumption on `ps`,
`lsof`, `osascript` and the Codex binary. A
deadline is looked at in every round of its loop, hence strong fairness; a
daemon that was started and a GUI that was launched come up unless a fault
prevents it. Nothing is assumed of what the user does.

`Ingest` and `EventPlane` state no fairness: their properties are safety
properties.

### Disagreements found

* `gate_stale`: `mark_reconciled` does not name a connection, so the end of one
  reconciliation opens the next connection's gate, and the reconnect task then
  skips its own pass.
* `gate_crossing`: the gate is tested before the command is queued only.
* `ingest_reconnect`: a connection's subscriptions end with it and the local
  states do not, so `discover` answers `AlreadyManaged` on the next one.
* `supervisor_attachment`: any accepted connection on the daemon's socket counts
  as the GUI's, Warden's own transport included.
* `store_gap`: `None` as the thread of a query means every thread, as the key of
  a gap it means the events that have no thread, and the one is used to look up
  the other.

Seen while modelling, and allowed by the models rather than run against them:

* calls in the command queue are left pending when the connection fails, and are
  written on the next one, instead of being told `NotWritten`
  (`src/openspec/changes/codex-control-daemon/specs/daemon-transport/spec.md:54`);
* the lock of a thread is dropped with an action whose outcome is unknown, and
  the daemon may perform it during the next one
  (`.../specs/action-control/spec.md:19`);
* a read whose answer is older than an event already applied overwrites the
  newer state, and the ghost of an ended turn, or the loss of a running one,
  stays until the next event (`.../specs/thread-ingestion/spec.md:80`); these are
  the threads of `unsure` in `TurnIsKnown`;
* events of the old connection that are still in the ingress are applied after
  reads of the new one, and a thread that the pass after a reconnect reads as
  idle keeps the active turn it had;
* the watermark is stored before the reads of its pass: a read that fails, or a
  list that the limit cuts short, leaves its thread to a signal (`skipped`);
* a thread with a turn in flight that is updated between two pages of a list is
  on neither; no signal announces it, and it stays unseen until the next pass. The
  next pass would list it (`BlindSpotsAreReported`), but the code makes one per
  connection, though `.../specs/thread-ingestion/spec.md:22-23` asks for periodic
  ones;
* a discover that has failed gives up its place before it removes its mark, and
  may remove the mark of the next discover of the thread, whose entry an event can
  then take away during the resume (`undone` in `ResumesAreMarked`);
  `finish_subscription` makes the entry anew;
* an entry of a thread whose resume timed out, but was performed, is not protected
  from pruning, though its turn events arrive;
* a GUI that was asked to quit may do so after the deadline, and then nobody
  launches one until the monitor runs; a daemon that dies while `initialize`
  waits for its version is not started again by `initialize`;
* `check` reports `Incompatible` before it looks at the GUI, so a GUI that was
  quit is not launched while the version command fails;
* pruning for one thread takes its oldest delta and, if it has none left, the
  oldest event of anyone, so lifecycle events of other threads leave while
  their deltas stay (`src/README.md:191` says deltas first);
* after a replay the topic still holds events that were replayed, and the
  stream returns them again and behind newer ones
  (`.../specs/event-streaming/spec.md:76`);
* a replay may return an event that the store has not recorded yet, since the
  log is written first;
* an anchor carries a sequence sampled before it is recorded, so the deque is
  not in the order of sequence numbers; this is why a gap must keep the highest
  sequence it has covered and not the last;
* `lifecycle(after)` consults `after` only once the receiver lags: events
  between `after` and the subscription are in the log and not delivered until
  then, which is why `NoSilentLoss` speaks of events published after `since`.

## 4. Proofs

`TransportProofs`, for any callers, capacities and bounds satisfying the
assumptions of `Transport` (`DistinctRequests`, `Capacities`, `Bounds`):

* `TypeCorrect`, `RetrySafety`, `AnswersAreTrue`: the three invariants of the
  same content. The inductive invariant `IInv` is `TypeOK`, no request twice in
  the command queue, and for each request a relation between its caller, its
  oneshot, the queue, the pending map and the daemon: a request in the queue is
  neither pending nor written, a pending one has been written, and a reply
  other than `Unknown` agrees with what the daemon did. Without the relation
  `NotWritten` of a queued request could meet a copy on a socket. `NoTwinsStep`
  and `RequestStep` prove it step by step; lemmas on `Append` and `Tail` come
  first.
* `PendingIsCurrent`, `NeverWrittenTwice`: the pending map ends with its connection,
  and a request is written on one connection only. They follow from `DInv`, which adds to `IInv`
  that a caller waiting on an empty oneshot is in the queue or pending, that
  what is pending was written on this connection, and that what may still be
  written never was.
* `IngressComplete`: the ingress loses nothing. `IngressInv` adds that a frame
  held by drive is the latest one read, and is held only while driving.
* `TransportImplementsContract`: initial states map to initial states, and each
  step to a step of `RequestContract` or to none, under `IInv`.

`GateProofs`, for any passes and actions, with `PassesReadAndMark` besides:

* `GateTypeCorrect`: each step of core's tasks is a step of the transport or a
  look at the health (`GateSteps`), which carries `DInv` over to `GateSpec`.
* `ResultsHoldUnderCore`: and with `DInv` the transport's invariants on results
  and pending requests.
* `WrittenOnceUnderCore`, `IngressUnderCore`, `CoreKeepsContract`: so is the rest
  carried over. A look at the health changes nothing of the transport but whether
  a value is new (`LookOnly`), so what is stated of the transport's steps
  (`WriteStep`, `IngressStep`, the refinement) holds of core's; in the end the
  client that core hands to the controller implements `RequestContract`.
* `ReconciledBeforeActions`: no action is written before a `thread/list` has
  succeeded there or on an earlier connection. The strengthening `FirstInv` says
  that the closure, and with it any action, exists only after a pass succeeded.
* `OpenGateHasAList`: an open gate stands for a list that succeeded on this
  connection or an earlier one; `gate_stale` shows why the earlier one cannot be
  excluded. `OpenInv` includes the commands of `mark_reconciled` under way
  (`Announced`), since one left in the queue opens the gate when it is taken.
* `NoWakeUpLost`: the reconnect task sleeps through no connection. `WakeInv`
  says where it may be while a connection is up with its gate closed and no look
  at the health due (`Unnoticed`): on a pass whose request is owed an answer, or
  asleep after one that timed out and whose answer is to come. `UnnoticedBefore`
  is its heart: no step makes a connection unnoticed except the task's own look,
  because reading a frame and every change of the connection publish a value.

`ActionControlProofs`, for any actions, turns, threads and number of retries
satisfying `Kinds`, `Targets` and `RetriesBound`, above any client that keeps
`RequestContract`:

* `TypeCorrect`, `OncePerAction`, `RejectionIsFinal`, `ConfirmationIsSound`:
  the invariants `TypeOK`, `AtMostOnce`, `RejectedNeverHappens` and
  `ConfirmedHappened`. The inductive invariant relates each result of the client
  to what the daemon did (`ClientInv`); says of each action that its earlier
  attempts were not written and its later ones not begun (`AttemptInv`, without
  which two attempts could both have run); that a completion in the feed has
  happened (`EventInv`); and that an action under way is at the head of its
  thread's line (`LockInv`), which makes the release of a lock well typed and
  is mutual exclusion. `FinishStep` and `MoveStep` are the two shapes of a step
  of the controller; the step lemmas instantiate them.

* `StartSeesTurn`: the invariant `StartSeesItsTurn`. `FirstInv` says of the whole
  action what the property says of its wait: the waiter, registered with the lock,
  holds a turn/started of its thread as soon as one has been applied since, and the
  first one. `MadeInv` adds that the turn made for an attempt is of the thread of
  the action, so that its event is one the waiter accepts.
* `InterruptSeesCompletion`: the invariant `NoCompletionMissed`, which speaks of
  the wait for the completion only. `WatchInv` says it of the whole action: the
  waiter is registered with the lock, and from there on no completion passes it.

Together with `TransportImplementsContract` this carries the guarantees of an
`ActionOutcome` down to the socket: the contract is proved of the transport and
assumed by the controller.

`IngestProofs`, for any finite set of threads, any turns, caps and limits
satisfying `Limits` and `TurnsAreNamed`:

* `TableKeepsEntries`: no order of the table's operations, idle release and
  eviction included, takes away the entry of a thread that is subscribed, being
  subscribed, or active.
* `TypeCorrect`, `IngestImplementsTable`, `EntriesKept`: `Ingest` refines
  `TableSpec`, and so inherits the former.
* `ResumesKeepTheirMark`: the invariant `ResumesAreMarked`. `MarkInv` says that a
  resume has its mark or is in `undone`; that the mark protects the entry is
  `EntriesAreKept`, the table's own guarantee. An event never takes a mark, and a
  cancel that comes during a resume is an earlier discover's (`MarkStep`).
* `SubscribedAreTracked`, `OneDiscoverAtATime`: from `ManagedInv`, in which a
  discover past its check holds its place to the end, and the flag of a
  Subscribed thread is never taken back, not even by a late cancel.
* `CapRespected`: `EnterStep` shows that a place is taken only below the cap, and
  every other step gives places up or keeps them (`OldPlaces`); the count
  is by the library's theorems on cardinality.
* `SubscribedIsAttached`: on the first connection every Subscribed thread is resumed
  at the daemon; that this ends with a reconnect is what `ingest_reconnect` shows.
* `BlindSpots`: the invariant `BlindSpotsAreReported`, which speaks of states at
  rest. On the way there these facts hold in every state. The daemon runs one turn
  of a thread (`OneRunning`). A discover owns the state of its thread while it is
  Subscribing or waits for a retry, and what it resumed is attached as long as
  the connection is the first (`OwnedInv`). Threads are `behind` only between two
  pages (`ListInv`). An Unseen thread with a turn in flight is above the watermark,
  or the pass has it before it, behind the cursor or among the candidates, or has
  skipped it (`Ahead`, `SightInv`):
  an update moves it from behind the cursor to above the watermark, never out of
  both. And if it is above the watermark though a list was answered, and has not
  moved there between two pages, its signal is in the feed or has a task
  (`CallInv`); so at rest nothing Unseen is left but what was skipped or moved.
* `KnownTurns`: the invariant `TurnIsKnown`. `NewsInv` follows every read and every
  event on its way. For a thread that is not in doubt, the newest turn event in
  the feed agrees with the daemon (`Latest`), and what ends is what the event
  before it started (`Paired`). A value on its way to the snapshot, or in it,
  `Fits`: it is the daemon's if no event of the thread is left, and if only the
  end of a turn is left, it is that turn or already none. `Latest` alone is not
  inductive for the snapshot: an end that is applied takes away only the turn it
  names, or none, so what it will meet must be known. `Started`, `Ended` and
  `Applied` are lemmas about sequences of events; the steps cite them.

`SupervisorProofs`, for any number of faults: `TypeCorrect` and
`LaunchesAreSafe`; their conjunction is inductive. `InitializeSeesOthers` rests on
it: during initialize Warden's own transport does not exist, so the lsof records
that end it are those of the GUI or of another client, whereas the monitor's may
be Warden's own, which is what `supervisor_attachment` shows.

`EventStoreProofs`, for any threads, limits and entries, recorded in any order
of sequence and time, and with `evict_idle_content` called at will:

* `StoreIsHonest`: the invariant `NamedQueriesAreHonest`. The strengthening is
  `GapInv`: every entry that was pushed and is not held lies at or below
  the gap of its thread, and that gap is not the empty one. `RemoveStep` proves
  it once for every way an entry can leave.
* `StoreCountsEvictions`: the invariant `EvictionsAreCounted`, inductive together
  with the former, by the library's theorems on cardinality.
* `StoreStaysWithinLimits`: the invariant `WithinLimits`, which is about the events
  held and not about the counters the loops run on. `CounterInv` says that the
  counters are the bytes held, in all and of each thread, so that `remove_at`
  never saturates; `LimitInv` that outside the loops they fit the limits. The
  bytes of a set of events are counted as the set of its octets, a pair of
  position and place for each (`Octets`): cardinality is within the provers'
  reach where a sum over a set is not.

`LifecycleStreamProofs`, for any log and topic of at least one event, and
events whose sequence numbers rise with steps of any size:

* `StreamLosesNothingSilently`: the invariant `NoSilentLoss`. The strengthening
  `StreamInv` says that the log is ordered (`Ordered`); that `NoSilentLoss`
  holds of events applied and not yet published too, which a replay may have
  passed (`Covered`); that the cursor is ahead of the log only where the
  subscriber was told so (`CursorKnown`); and that the receiver is never ahead
  of the topic (`Behind`). `ReplayIsComplete` is its
  heart: unless `TooOld`, the log still holds each event after the cursor.

`EventPlaneProofs`, for any such store and stream and any bounds:

* `PlaneTypeCorrect`: the invariant `PlaneTypeOK`.
* `PlaneImplementsParts`: each step of the plane is a step of `StoreSpec` or
  leaves the store alone, and likewise of `StreamSpec`. The strengthening says
  at which `stage` an event is in the log and not yet in the topic.
* `PlaneIsHonest`, `PlaneStoreIsSound`: both honesty properties, the count and the
  limits then hold of the composition, by the theorems about its parts.

Every safety property that a passing run checks is thus a theorem too, for any
value of the constants. Model-checked only is all liveness (`EveryCallReturns`,
`ShutdownCompletes`, `GateReopens`, `EveryActionEnds`, `InitializeEnds`,
`DaemonComesBack`, `GuiComesBack`, `ReportSettles`), which is out of the prover's
reach: it needs ENABLED under fairness.

## 5. Not modelled

* Parsing and classification of frames (crate protocol), wording of details and
  evidence notes, logging: pure functions of one value. The mock app server is a
  test double of the daemon.
* `release_if_idle` has no caller outside the tests. Its effect on the snapshot
  is `Unsubscribe` of `ThreadTable`; its request and the state `Released` are
  left out. `unsubscribe_all_best_effort` sends requests, ignores their results
  and changes nothing here.
* `RunGuard`, and the end of the topic: a `LifecycleStream` returns `Closed` only
  when every `EventHub` is gone, and the handle a closure holds has one.
* The delta stream: it counts what it skips and recovers nothing.
* The status of a completed turn: no property speaks of it; it is listed among the
  hazards.
* A caller that drops the future of an action, which releases the lock of the
  thread with the outcome unknown, as the end of a timed-out action does.
* Pages of a list that are short and have a cursor all the same; a page whose cursor
  the daemon takes for a position and not for a time stamp.
* The identity of the turn that `record_reconstructed_active_turn` compares: where
  the code finds a genuine start of that turn it records nothing, where it finds one
  of another turn it records the anchor; the model, whose events carry no turn,
  allows both for any start of the thread that is held.
* Waiters whose action has returned stay in the reducer's list; the models drop
  them with their action.
* Two updates of threads in one tick of the daemon's clock, one of them at the
  watermark; timestamps other than those the retention compares.
* A crash of Warden itself: nothing is persisted, and a restart is `Init` with
  the processes in any state, which is how `Supervisor` begins.
