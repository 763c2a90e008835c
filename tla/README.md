# Verification of dahua-companion

TLA+ models of dahua-companion, a Go service that turns the events of a Dahua
or Amcrest doorbell camera into MQTT messages, with the TLC configurations that
check them and the proofs of their main properties. Paths below are relative to
the repository's `src/`.

## The system

| Part | Source | State it keeps | Operations |
| --- | --- | --- | --- |
| Camera stream | `pkg/dahua/stream.go`, `dahua.go` | connected flag, backoff interval, idle watchdog | `Listen`, `retryStream`, `stream`, `setConnected` |
| Event scanner | `pkg/dahua/stream.go` (`scanEvents`), `events.go`, `ivs.go` | the IVS data block being read, time of the last human detection | `scanEvents`, `feed`, `report`, `coolingDown` |
| Snapshot stream | `pkg/dahua/snapstream.go` | event waiting for its image, a cooldown of its own | `ListenSnapshots`, `readSnapshotParts` |
| Online keeper | `pkg/dahua/online.go` | whether the last attempt failed | `KeepOnline` |
| Event queues and delivery loop | `pkg/mqtt/mqtt.go` | two channels of 100 events, the event in hand, the reconnected signal | `PublishPress`, `PublishHuman`, `ProcessQueue`, `deliver`, `drain` |
| Availability | `pkg/mqtt/mqtt.go`, `dahua.go` | last recorded state, the retained message, the last will | `PublishAvailability`, `republishAvailability`, `Disconnect` |
| Snapshotter | `pkg/snapshot/snapshot.go` | in-flight flag, priority, cancel function, generation | `Request`, `finish`, `Wait` |
| Health endpoint | `pkg/health/health.go` | time of the last good probe, under a mutex | `healthCheckHandler`, `probeCamera` |
| Metrics | `pkg/metrics/metrics.go` | counters | `Inc`, `Observe`, the scrape handler |
| Service lifecycle | `main.go` | the shutdown context, the wait group | `main` |
| Configuration, logger, capture tool | `pkg/config`, `pkg/logger`, `capture.go`, `pkg/dahua/capture.go` | settings, results of one recording | run once; not part of the running service |

How the parts interact. The goroutine of `Listen` reads lines from the camera
and calls back, synchronously, into `PublishPress`/`PublishHuman` (which queue
the event and never block) and `Snapshotter.Request` (which starts a goroutine).
Every connect and disconnect of the stream calls `PublishAvailability`.
`ProcessQueue`, on a goroutine of its own, hands queued events to the MQTT
client library (paho) and waits for the broker's acknowledgement. The library
calls `OnConnect` on goroutines of its own, which signal `ProcessQueue` and
announce the availability again. All of them share one context, done on SIGINT
or SIGTERM; `main` then waits for the goroutines, for the snapshots, and
disconnects.

What is hard here is almost entirely concurrency and time: a delivery loop that
waits in five different places and must stay responsive to a press, to a
reconnect and to shutdown in each; acknowledgements that come late or never; a
broker whose retained message is written by several goroutines and by the broker
itself; fetches that are superseded while they run.

What makes each part correct:

* Delivery: a press is never overtaken by more than one detection, no event is
  delivered late, none twice, none lost without a count, shutdown always ends.
* Snapshotter: one fetch with a live context at a time, the press wins, the slot
  is always freed, `Wait` returns.
* Availability: once things settle the retained message says whether the event
  stream is up, and a process that has gone leaves `offline`.
* Camera stream: a silent camera is noticed in bounded time, a talking one is
  not cut off, connect and disconnect are reported alternately, only consecutive
  failures grow the delay.
* Event scanner: a press is reported whatever came before its part of the
  stream; reported detections are a cooldown apart, also across reconnects.
* Snapshot stream: an image goes out with the event described just before it.
* Health: `okay` is backed by a probe that succeeded within the TTL.
* Online keeper: the setting is sent at every interval whatever an attempt
  takes, each attempt is counted once, one warning is logged for an outage, and
  an attempt that shutdown cut off is not taken for a failure.
* Lifecycle: shutdown ends the service against a camera and a broker that do not
  answer, and nothing the service waits for is still running when it disconnects.

## Modules

One module per part, a `*_proof` module with the theorems about it, an `MC*`
module and one or more `.cfg` files for TLC. `Companion` composes the event
queues and the snapshotter the way `main` does; `Companion_proof` holds the
theorems about it and those about `EventDelivery`, which it extends. `LossyFifo`
and `StillSlot` are the abstract specifications.

| Module | Stands for | Not in the model |
| --- | --- | --- |
| `LossyFifo` | what the queues promise: two lossy lines | - |
| `EventDelivery` | `enqueue`, `ProcessQueue`, `deliver`, `drain` | payloads and topics |
| `StillSlot` | what the snapshotter promises: one slot for the fetch that is wanted | - |
| `Snapshotter` | `Request`, the goroutine of a fetch, `finish`, `Wait` | image data, retries inside `FetchSnapshot` |
| `Availability` | `PublishAvailability`, `republishAvailability`, the will, `Disconnect` | the other topics |
| `CameraStream` | `Listen`, `retryStream`, `stream`, `watchdogReader` | digest authentication, HTTP |
| `EventScan` | `scanEvents`, `startIVS`, `feed`, `report`, `coolingDown` | the text of lines |
| `SnapshotStream` | `ListenSnapshots`, `readSnapshotParts` | image bytes, multipart framing |
| `HealthProbe` | `healthCheckHandler`, `probeCamera` | the two flags read beside the probe, the status line |
| `KeepOnline` | `KeepOnline`, the ticker, the attempt's context | what `ForceOnline` reads and writes on the camera |
| `Companion` | the callback of `Listen`, `main` from the signal on, `PublishSnapshot` | the set-up part of `main`, the wait for the goroutines of `KeepOnline` and `ListenSnapshots` |

Every module counts time in ticks. A tick passes only while the modelled
goroutines wait; their own steps take none, and no tick passes the end of a wait
that is over. A timer of the code is a number of ticks left.

**EventDelivery.** `queue` is the pair of channels, `pc`, `cur`, `line`, `timer`
are where `ProcessQueue` is, what it holds, which queue it is flushing and how
long it waits. Each place where the goroutine blocks or looks at shared state is
a step of its own: the two selects (`PollPress`, `PollNone`, `SelectEvent`), the
look at the connection (`CheckOpen`), the wait for the reconnected signal or the
poll (`KeepHolding`, `Wake`), the second look at the age (`SendStale`,
`SendFresh`), the token (`Acked`, `TokenFails`, `AckTimeout`), and the flush
(`Drain*`). `open`, `announcing`, `reconnected`, `inflight` and `arrived` are the
client library and the broker. `offered`, `published` and `dropped` are the
metrics; `overtakes` and `sent` are history.

**Snapshotter.** A fetch is a generation. `ctx` is its context, which expires or
is cancelled once and stays so; `phase` is its goroutine. `Request` runs under
`mu` and is one step; between the goroutine's look at its context and its
publish anything may happen. `Finish` is `finish` under `mu`. The event stream
may ask for a still after the shutdown context is done, until it has noticed
itself; `Refused` is the early return of `Request` then, which starts and counts
nothing. `outcomes` is the
metric and one more, `late`: the still that came just as its deadline passed,
which the code drops without counting it anywhere. `Slot` maps all this to
`StillSlot`: the fetch with the slot is the last one started, as long as its
goroutine runs, and the fetches told to stop are those whose context is done.
A closed slot is given to nobody, as `TestShutdownCancelsAndRefuses` expects.

**Availability.** `inside` and `payload` are `availabilityMu`: taking the lock
reads or sets the recorded state, and the publish is a second step under it.
`wire` and `got` are the messages the library holds and how many of them the
broker has received on this connection; `farewell` is the `offline` of
`Disconnect`. A process can crash at any step and another one starts.

**CameraStream.** `pc` is the goroutine of `Listen`: between attempts, waiting
for the answer, reading, or in a callback that keeps it from reading.
`watchdog` is `time.AfterFunc`; `Reset` is its reset by a read. `camera` answers,
hangs or refuses. The event stream and the snapshot stream are two instances of
the same code.

**EventScan.** The camera sends `Parts`, given line by line; a line is what the
scanner's decisions need of it: its event code, whether it starts an event, its
braces as the scanner counts them (`counted`) and as JSON has them (`nested`).
`Whole` says when a part's data arrives whole and names a human; only then is it
sure to be reported. `block` is the `ivsBlock`. `due` is what the part still has to be reported as.
The stream may end with a whole line (`StreamEnds`) or break off in one
(`StreamBreaks`): `bufio.Scanner` then hands over what came of it as a last line,
`tail`, which is one of `Tails`: the code or not, some of the braces, the name or
not, and an action that is whole, cut or missing. A missing one counts as a start.

**SnapshotStream.** `pending` is the event described last, local to
`readSnapshotParts` and so new with each connection; `cooldown` belongs to
`ListenSnapshots` and survives it. `event`, `imageDue` are the camera's side.

**HealthProbe.** `pc` is the handler of every request, `left` its context,
`trusted` what is left of `probeCacheTTL` since `lastProbeOK`. The mutex is held
by whoever is `locked` or `probing`.

**KeepOnline.** `pc` is the goroutine: `sending` inside `ForceOnline`, `sent` at
the switch on its result, `waiting` in the select. `left` is the attempt's
context. `ticker` and `ticked` are the `time.Ticker`, which runs on through an
attempt and holds one tick. `owed`, `warnings` and `lastFailed` are history.

**Companion.** It extends `EventDelivery` and instantiates `Snapshotter` with
`stopped` replaced by the delivery's `cancelled`, so that both run under one
context, and shares `listening` between them. `asking` is the callback between
`PublishPress`/`PublishHuman` and `Request`; `of` is the event a still was asked
for. The two publish on the same connection: `ImageDropped`, `ImageHanded` and
`ImageSettled` are `PublishSnapshot`, which looks at `open`, hands the image to
the library and waits for the token. `main` is where `main` is after the signal:
waiting for the goroutines, for the snapshots, about to disconnect, gone. A still
takes a tick at least to arrive (`fresh`), which is the code comment's "fetching
takes far longer than delivering", taken as weakly as it can be; with it a still
that overtakes its event does so because delivery waits, not because the fetch
took no time.

Definitions introduced with "A mutant" are variants of the definition after
them, as a plausible bug would have it. They are not part of a specification:
replacing the definition by the variant makes the property named for it in
`PROJECT.json` fail.

## Runs

Each passing run explores its instance completely.

| Run | Instance | States | Question |
| --- | --- | --- | --- |
| `event_delivery` | 3 events of either kind, channels of 1, limits of 1 tick, a drain of 2 | 3,996,980 | counters, ages, order, wakeups, how long shutdown takes, the refinement |
| `companion` | 2 events, one still of a press, limits of 1 tick or none | 524,926 | nothing left behind, shutdown ends the service, what was queued is settled |
| `snapshotter` | 4 requests | 596,644 | the flag is true, the press wins, one slot and none after shutdown (the refinement), the slot is freed, outcomes explained |
| `availability` | 2 connects per process, 2 lost connections, 2 processes | 110,820 | the retained message converges, in a bounded number of publishes, and the dead are offline |
| `camera_stream` | a timeout of 3 heartbeats, callbacks of up to 2 ticks | 5,444 | silence noticed, talk not cut off, failures counted, retries for ever |
| `event_scan` | 13 parts, blocks of up to 3 lines, a cooldown of 2 | 3,639 | presses and people reported, nothing else |
| `snapshot_stream` | 4 events, a cooldown of 2 | 1,214 | stills paired with their events, exactly the wanted ones delivered |
| `health_probe` | 3 requests, a timeout and a TTL of 2 | 28,710 | fresh results, the camera spared, recovery visible, all answered |
| `keep_online` | an interval and a timeout of 4 | 330 | the pace, the counters, the log |
| `event_delivery_losses` | 2 events | stops at the violation | violated: a loss no counter has |
| `companion_image` | 2 events with their stills | stops at the violation | violated: a still handed over while its event is queued |
| `availability_leaving` | 1 of each | stops at the violation | violated: a process gone, `online` retained |

Why the bounds are enough:

* *Delivery.* A full channel, a detection in hand with a press queued, and two
  events of one kind to be put out of order need two or three events and one
  slot. Limits of one tick still tell below, at and beyond a limit apart, and
  the ages stop growing beyond the largest sum a comparison uses (`AgeCap`). The
  drain is longer than one acknowledgement wait, so it can meet its deadline in
  the second one. `MaxCallbacks` caps only callbacks that have begun and have
  not signalled; the proofs do without any of these bounds.
* *Companion.* Two events, so that a press can be queued behind a detection in
  hand, and a still of the press only; `MaxRequests` ends the events too. The
  limits are as short as they can be without closing a wait (an event is stale a
  tick after it came). Liveness needs the smaller instance; the safety
  properties of the two parts are those of their own runs.
* *Snapshotter.* The longest story is: detection, press supersedes it, the
  superseded one finishes, a third request. Four requests cover it with one to
  spare.
* *Availability.* Two lost connections cover a resent backlog that is cut off
  again; two processes a will of the first that comes when the second is up.
* *Camera stream.* The timeout is three heartbeats, as in the code
  (`heartbeatSeconds` 5, `streamIdleTimeout` 15 s). The retry delay has no
  fixed values in the model, only that it may grow by one up to `MaxInterval`.
* *Event scan.* The parts hold every kind of event line, whole, split and
  single-line blocks, one too large, braces in names that make the count reach
  zero early or late, and starts and ends of each kind of event. The camera may
  stop a block after any line, and the stream may break off in any.
* *Snapshot stream.* Pairing involves the last event and the next.
* *Health.* One request probes, two wait: the first of them and the one that
  comes after it.
* *Keep online.* The configuration accepts no interval below the attempt's
  timeout (`Accepted`), so equal ones are the tightest there are: an attempt that
  hangs to its end meets the next tick. Four ticks leave room on both sides.

Deadlock is checked except of `Snapshotter`, `Availability` and `Companion`,
which come to rest: when `Wait` has returned, when the bounded processes and
connections are used up, and when `main` has returned.

The runs leave out what is proved and a stronger property of the same run
implies or would break with: `DrainInTime` (`ShutdownInTime`), `OnlyLatestLive`
(`ImplementsStillSlot`) and most type invariants. `EventScan` keeps its own, which
says that a block is bounded.

### What the violated runs show

* `EveryLossCounted` (`pkg/mqtt/mqtt.go:375`): when the context is done while
  `deliver` holds an event, the event is in no queue and no counter. The comment
  on `EventsDropped` (`pkg/metrics/metrics.go:206`) lists `shutdown` among the
  reasons events not delivered are counted under.
* `ImageAfterEvent` (`main.go:60`): the comment there says that "fetching takes
  far longer than delivering, so the image lands after the event it belongs to".
  The event is queued and the fetch starts at once, beside it; when the delivery
  loop is waiting for the acknowledgement of the event before, the fetched image
  is handed to the library while its event is still in the queue.
* `LeavesOffline` (`pkg/mqtt/mqtt.go:449`): `Disconnect` skips the wait for the
  acknowledgement on a connection that is down and disconnects cleanly from
  whatever the connection is by then.

Differences from the comments and docs that were met and are not worth a run:

* `src/README.md:16` measures the cooldown from the last *published* detection;
  the code measures it from the last one handed to the queue, which may still be
  dropped (`pkg/dahua/events.go:85`).
* "one camera round trip" for concurrent health requests (`pkg/health/health.go:31`)
  holds when the probe succeeds. A failure is not cached, so each request that
  waited asks again.
* "one at a time so memory stays bounded to roughly one image"
  (`pkg/snapshot/snapshot.go:1`): a superseded fetch past its context check still
  publishes its image while the press fetches its own.
* The watchdog is armed before the request and the answer does not reset it, so
  a camera that answers late is cut off before its first heartbeat is due
  (`pkg/dahua/stream.go:85`). `TalkingNotCut` therefore speaks of streams on
  which something was heard.
* A snapshot can have two outcomes: `Request` counts a fetch as superseded when
  its goroutine may already have counted it failed, or is about to count it
  published (`pkg/snapshot/snapshot.go:63`, against "by result" in
  `pkg/metrics/metrics.go:211`). `OutcomesExplained` therefore bounds the number
  of fetches by the sum of the outcomes and does not equate them.
* A fetch that succeeds just as its deadline passes is dropped under a comment
  that speaks of supersession and shutdown (`pkg/snapshot/snapshot.go:83`), and is
  counted under no outcome: the `late` of the model.
* "Each attempt is counted" (`README.md:61`): the attempt that shutdown
  interrupts is not (`pkg/dahua/online.go:61`). `AttemptsCounted` says both.
* "each event is followed by a JPEG still" (`README.md:30`): with the snapshot
  stream the two streams measure the cooldown apart (`pkg/dahua/snapstream.go:42`),
  so a detection may come without a still and a still without its detection.
* "Stop events are ignored" (`pkg/dahua/events.go:102`): the `Stop` line of a
  press or a human in which the stream breaks off before its action is read as a
  last line (`pkg/dahua/stream.go:135`), and a missing action counts as a start
  (`pkg/dahua/events.go:128`). `NothingInvented` says that this is the one case.
* `ProcessQueue` flushes its queues on the context that stops the event stream
  too (`main.go:77`), so an event that comes after its queue was emptied stays
  there, neither published nor counted. `EventsSettle` says that none queued
  before the signal does.
* The second select of `ProcessQueue` can hand over one detection with a press
  waiting; `PressOvertakenOnce` states what does hold of "presses first".

## Fairness

| Module | Assumed | Why |
| --- | --- | --- |
| `Companion` | WF of `LoopStep`, the callback, `MainStep` | a runnable goroutine is scheduled; the stream watches the same context |
| | WF of `SureStep` of each fetch | scheduling; contexts have deadlines; the HTTP client gives up on a context that is done; a wait for a token is bounded |
| | SF of `TimePasses \/ IdleTimePasses` | time passes, though each wait the loop is in may be ended early and begun anew |
| `Snapshotter` | WF of `GoroutineStep`, `Expire` | the same of a fetch on its own |
| `Availability` | WF of `Publishing`, `BrokerReceives` | scheduling; on a connection that stays up messages get through |
| `CameraStream` | WF of `StreamStep`, SF of `Tick` | scheduling and time |
| | WF of `CameraSpeaks`, SF of `Answered` | only of a camera that is up: it sends heartbeats, and answers when asked again and again. `Reconnects` is about such a camera |
| `HealthProbe` | WF of `HandlerStep`, SF of `Locks` and `Tick` | scheduling and time; a Go mutex hands itself over to a waiter that has starved for a millisecond |

No fairness is assumed of the broker in `Companion`, of the camera in
`Companion`, `Snapshotter` and `HealthProbe`, or of the connection anywhere:
those properties hold against a peer that never answers. Every other module is
checked for safety only.

## What is assumed of code that is not in the repository

* paho delivers publishes in the order of the calls, queues them while it
  reconnects, and after a reconnect resends the unacknowledged ones in order or
  has forgotten them. `OnConnect` runs on a goroutine of its own per connect.
* The broker keeps the last retained message it received and publishes the will
  when a connection ends without a clean disconnect, at the latest when the same
  client connects again.
* Cancelling an HTTP request ends a blocked read and closes the connection.
* Timers and deadlines fire when they are due. The randomised delay of the
  backoff library can exceed `MaxInterval` by its factor; only its growth and its
  bound matter here.
* The camera frames its parts: a boundary line before each, nowhere else
  (`Framed`), and a part means a human for sure only if its data arrives whole, with
  no brace in a string and below the limit (`Whole`). The callbacks of a stream block for less than its idle timeout
  (`HandleTime < IdleTimeout`): they queue an event, or hand a message to paho,
  or wait for the broker's acknowledgement of a still for `publishTimeout` at most.

## Proofs

TLAPS checks the theorems of the `*_proof` modules for every value of the
constants, under the `ASSUME` of the module, which TLC also evaluates.

* **EventDelivery** (`IInv`, in `Companion_proof`). `TypeOK`, `Accounting`, `HeldBounded` and
  `NoLostWakeup` are inductive together. `PressOvertakenOnce` is not: it needs
  `Overtaking`, that after a detection overtook a press the loop is not at its
  second select and the press is still queued, so the first select serves it.
  `DrainInTime` needs `DrainClock`, that the wait for a token never outlasts the
  deadline. The frame lemmas say once which steps change which variables.
* **How shutdown ends.** `ShutdownInTime` and `ShutdownStepsBounded` are the part
  of `ServiceStops` that is safety. Once the event stream has ended, `Within(t)`
  says that no more than `t` ticks are left until `ProcessQueue` returns: each
  tick takes one away and nothing gives one back. What makes it a bound is that
  everything still queued becomes too old to be sent together (`StaleIn`); it
  needs `WaitClock` and `DrainClock`, that no wait is longer than its limit. With
  the code's limits (30 s, 1 s, 5 s and 2 s) that is under 40 seconds. Since the
  second select may take a queued event instead of the done context every time,
  there is a count of steps too, which the capacity of the queues bounds.
* **The refinement of LossyFifo.** `LineInv`: a lossy line sends each event at
  most once and in order. `Refinement`: every step of `EventDelivery` is a step
  of the lines or changes nothing of them. `SentInOrder` puts the two together:
  the client is given the events of a kind in the order the camera reported them.
  `PublishedReachedBroker` rests on it too (`Reached`): what has arrived at the
  broker was sent, what is sent next was not, so the acknowledgement waited for is
  of an event not counted before.
* **Snapshotter** (`IInv`). The first three safety properties are inductive
  together; each needs the others: without `OnlyLatestLive` a finish could clear the flag
  of its successor. `OutcomesExplained` needs `LatestNotCancelled` besides, that
  before shutdown nothing cancels the fetch started last: only then does every
  fetch leave `Working` through a count. A request that starts a fetch while
  another is in flight adds one fetch and one count; otherwise the one before had
  its own (`Settled`).
* **The refinement of StillSlot.** `OneSlot`: every step of the snapshotter is a
  step of the slot or none; a refused request is none, and one that was not
  refused after the shutdown would be a step that a closed slot does not have. It
  needs `IInv` and two facts more (`SlotInv`), that
  `priority` is the flag of the fetch in flight (`PriorityOfHolder`) and that no
  generation is a press's before it starts. `OneWantedHolds` is what the slot
  promises of its holder. `SlotFreedInSteps` is the safety part of `SlotFreed`:
  `SlotWork`, nine at most, falls with every step of the fetch that has the slot,
  even as a press takes it over, and nothing else raises it.
* **Availability** (`IInv`). Behind `Converged` is `LastWordIsState`: with a
  connection up and no announcement to come, the last message on its way, or
  else the retained one, says the recorded state. A reconnect may lose the last
  word, and owes an announcement for it. Behind `DeadIsOffline` is
  `NothingAfterFarewell`: since `main` waits for the stream, no `online` follows
  `Disconnect`'s `offline` in the library's queue. `SettlesInSteps` is the safety
  part of `RetainedFollows`: `ToSay` counts the announcements, the report, the
  publish under the lock and the messages on their way; while the connection and
  the stream stay as they are each publish and each receipt lowers it, nothing
  raises it, and it is zero exactly when `Converged` speaks.
* **CameraStream** (`Inv`). Two inequalities tie the watchdog to the silence:
  `silent + watchdog` is at least the timeout once something was read and
  nothing waits to be, and at most the timeout and the callbacks' time. They are
  inductive because a callback ends before the watchdog it was entered with
  (`HandlingClock`) and unread data is never as old as the timeout
  (`ReadingClock`). `ReturnsInTime` is the safety part of `ReturnsOnCancel`: told
  to stop, `Listen` has seven steps left at most and twice the callbacks' time,
  one callback for the answer or the data being handled and one for data that has
  arrived; every step lowers the first and every tick the second.
* **EventScan** (`Places`). A block is open only on the lines after its event, or
  at the boundary that ends it (`BlockPlace`), so a press not yet reported is still
  to be read. `HumanAhead` says exactly what the block holds while a human's data
  arrives (`Collected`): the depth, size and name so far. It rests on `Whole`, what
  it is for a part's data to arrive whole, which is an assumption about the
  camera's parts and not about the scanner. `NobodyInBlock` is the other half: a
  block that need not be reported names nobody. `NothingInvented` needs two facts
  more, for the stream that breaks off: a line that was cut has no more braces,
  and no other code and name, than the line (`TailFact`), and a block whose data
  has balanced is not open any more (`Unclosed`), so that half a boundary, which
  has no braces, does not close one.
* **SnapshotStream** (`Pairing`, `Shown`). What is pending is the event whose
  image is next on this connection, and later than any shown; an event that is not
  published leaves none pending, and the image still to come of an event described
  here has not been shown. `OneStillPerEvent`
  and `CooldownFromStill` are proved without a run of their own.
* **HealthProbe** (`Age`, `Exclusion`, `UpSince`). The result's age and what is
  left of its life add up to the TTL, and nobody renews it while another probes.
  `AnsweredTogether` is about the line of requests behind a camera that hangs:
  because a context is made before the mutex is waited for, the contexts run down
  together, so the time that passes until all are answered is `probeTimeout` and
  not as much for each; requests that come later are not counted.
* **KeepOnline** (`IInv`). `Clocks`: the ticker and the attempt's context started
  together, so either clock is known from the time since; an attempt ends before
  the ticker's next tick because its timeout is at most the interval, which is
  where `Accepted` is needed. `OwedWhatIsUnderWay` and `OutageKnown` tie the
  history to the code's `failing`. `StopsInSteps`: told to stop, it waits for
  nothing and returns within three steps. Only that the goroutine is scheduled
  is missing to make it the liveness property, which no run checks again.
* **Companion** (`Ordered`, `StillsInv`). `DeliveryInCompanion` and
  `SnapshotterInCompanion`: every behaviour of the composition is one of
  `EventDelivery` and, under the mapping of its `INSTANCE`, one of `Snapshotter`,
  so what is proved of the parts holds in the service. `NothingLeftBehind` needs
  `Ordered` to be inductive: past the first wait the loop has stopped, the stream
  has ended and no callback is under way; past the second no fetch is.
  `QuietAfterWait` adds that none of it begins again. `StillsOfEventsHolds`: a
  still belongs to an event that was reported before it was asked for, no event
  has two, and a fetch has priority exactly when its event is a press.

The invariants that are proved were first checked by TLC.

Only model-checked: the liveness properties (`ServiceStops`, `EventsSettle`,
`SlotFreed`, `RetainedFollows`, `Reconnects`, `ReturnsOnCancel`,
`EveryRequestAnswered`), which the prover cannot do, and the
three violated properties. What is proved of the liveness properties is their
safety part, the measure that falls, as said above; that a step which lowers it
is taken in the end is ENABLED and fairness, and stays with TLC. `Reconnects` and
`EventsSettle` have no measure of their own: of the first
`OnlyConsecutiveFailuresGrow` bounds the delay between attempts, of the second
`HeldBounded` and `PressOvertakenOnce` bound what a press waits behind.
The invariant behind a theorem about the composition is carried over by hand:
the prover does not instantiate the theorems of a module that has variables, so
`OneSlot`, say, holds in `Companion` by `SnapshotterInCompanion` and is not
restated there.

## Plan

Done: the parts in the order delivery, snapshotter, availability, stream,
scanner, snapshot stream, health, online keeper, and `Companion`. Next, in this
order:

1. The event stream and the snapshot stream together: two cooldowns measured
   apart (`snapstream.go:42`), and what a listener gets when one stream was away.
2. An abstract specification of the retained message, a register that follows its
   source, that `Availability` implements.
3. Measures for `Reconnects` and `EventsSettle`.

## Not modelled

Home Assistant discovery builds retained JSON from constants. The capture tool
copies a stream to a file. Configuration is read once, before anything is
concurrent; of it the models keep the one rule a property rests on, the least
interval of the online keeper (`Accepted`). The logger and the metrics text format are formatting. Nothing in
them has state that the parts above depend on.
