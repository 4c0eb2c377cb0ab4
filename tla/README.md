# Specifications of the Marstek MQTT exporter

TLA+ models of `prometheus-marstek-mqtt-exporter`, checked with TLC and, where
it says so below, proved with TLAPS. Line numbers refer to the repository.

## 1. The system

A Marstek solar battery answers the text command `cd=1` on an MQTT topic, and
also publishes on its own. The exporter polls it, keeps the last values in a
cache, and serves them to Prometheus. An ESP32 on the battery's BLE link can be
asked for the battery's state, fill in for missing telemetry, and reprovision
the battery's WiFi. A cloud emulator answers the battery's HTTP requests to its
vendor.

| Component | Where | State it keeps | Operations |
|---|---|---|---|
| Poll loop | `main.go` `runPollLoop`, `runPoll`, `handleDevicePayload` | `missedPolls`, `seenSuccessfulResponse`, ticker, timer, `responseCh` (one slot) | poll, wait, forgive a timeout, fall back to the bridge, count misses, call the supervisor |
| Collector | `collector/collector.go` | `up`, `cached`, `lastUpdateAt`, counters, under one lock | `Update`, `UpdateMetrics`, `MarkUp`, `MarkDown`, `HasFreshPayload`, `Collect` |
| Recovery supervisor | `esp32bridge/supervisor.go` | four fields under `s.mu`, `triggerCh` (one slot) | `Run`, `Check`, `recoverWiFi`, `waitFor`; called from the poll loop: `EnableRecovery`, `TriggerCheck` |
| Bridge client | `esp32bridge/client.go` | none | `Status`, `ConfigureWiFi` over HTTP, 10 s timeout |
| Main | `main.go` `main` | the context | connect, subscribe, start the goroutines, wait for a signal, shut down |
| MQTT session | `mqtt/client.go` (paho) | connection, subscription | `Connect`, `Subscribe`, `Poll`, automatic reconnection |
| Configuration | `config/config.go` | none after start | `load`: flags over environment over defaults, validation, derived values |
| Payload parser | `collector/parser.go` | none | `Parse`, `intVal`, `floatVal` |
| Cloud emulator | `emulator/` | last device info, length of the last header, last warning per path, all under `e.mu`; the exported series | one HTTP handler per vendor endpoint, in a goroutine per request |
| BLE session | `esp32/marstek_ble.py` | `state`, connection and characteristics, one queue of notifications per opcode, `_lock` | `ble_loop`, `_notification_loop`, `send_command`, `send_command_multi`, `send_ff06_reset` |
| Bridge HTTP API | `esp32/webserver.py` | none of its own | one handler per command |
| Scripts | `scripts/` | none | offline reverse engineering |

**How they interact.** Three goroutines matter: the poll loop, the MQTT
library's callback, and the supervisor. The callback and the poll loop share the
collector (a lock) and `responseCh`; the poll loop calls the supervisor (a lock
and a channel); all of them watch one context. The collector does not know who
filled it: an MQTT payload and the bridge fallback both set `lastUpdateAt`, and
`HasFreshPayload` reads it.

**What is hard.** The callback can run between any two steps of a poll. A
timeout may be forgiven because of older telemetry, so `marstek_up` depends on a
chain of timers. On the ESP32, tasks of one event loop share a session that can
be lost at every `await`. The emulator's handlers cross each other between two
updates of one request. The supervisor retries against a bridge that fails, hangs or
answers without the field it needs, counts attempts against a budget, and can be
triggered in the middle of a check. Nothing is persisted, so there is no crash
recovery to model: a restart is `Init`.

**What makes each part correct.** Poll loop: `up` is backed by recent MQTT
telemetry, silence is noticed, no stale answer is counted, every poll is counted
as what it was, and silence brings an early bridge check. Collector: what `up`
promises is exported, a scrape is one update as a whole, no payload makes a
scrape fail. Parser: the last token of a key counts. Configuration: what loads is
what the rest of the program takes for granted, and flags win. Supervisor: one recovery at a time, a bounded number per
outage, none before the battery was heard, no lost trigger, every recovery and
the shutdown end. BLE session: an answer belongs to its command, a session called
ready is listened to, a lost one is noticed, every request ends. Emulator: what
is exported is what some request told, each event once. MQTT session: while
the subscription lasts the battery is seen to be up, and a lost one shows. Exporter: the parts, put together, still do
only what each promises.

## 2. Modules

| Module | What it is |
|---|---|
| `Bridge` | The replies of one `Status` call, as `/api/status` can produce them, as records. A missing JSON key decodes to `false`. |
| `RecoveryBudget` | Abstract specification of the supervisor: attempts used, recovery active, exhausted. |
| `Supervisor` | `supervisor.go`, one action per path between two points where someone else can act. Refines `RecoveryBudget`. |
| `PollLoop` | `runPollLoop`, the MQTT callback and what they read of the collector, in discrete time. |
| `Collector` | `collector.go` and `parser.go`: two writers and any number of scrapes over the cache, under its lock. |
| `Config` | `config.go`: from the defaults, the environment and the command line to the `Config` or a refusal. |
| `Exporter` | `main`: instantiates `PollLoop` and `Supervisor` and joins them by the two calls of `handleResult`, the context and the battery's WiFi. |
| `CommandChannel` | Abstract specification of the BLE session as a request sees it: a channel that serves requests one at a time. |
| `BleSession` | `marstek_ble.py` and the commands `webserver.py` sends with it. Refines `CommandChannel`. |
| `Emulator` | The handlers of `emulator/` over their shared state. |
| `MqttSession` | `mqtt/client.go` and what Paho does for it: actions for `Session`. |
| `Session` | Instantiates `MqttSession` and `PollLoop`: the poll loop on its session. Refines `PollLoop`. |
| `MCSupervisor`, `MCPollLoop`, `MCSession`, `MCExporter`, `MCCollector`, `MCConfig`, `MCBleSession`, `MCEmulator` | Modules for TLC. |
| `SupervisorProofs`, `PollLoopProofs`, `SessionProofs`, `ExporterProofs`, `CollectorProofs`, `ConfigProofs`, `BleSessionProofs`, `EmulatorProofs` | Theorems and proofs. |

A definition commented *Faulty on purpose* is a wrong variant of the one after
it, no part of any specification. Each property is tried against such a variant
(the `mutants` of `PROJECT.json`) and must fail there, which shows that it can
tell the code from a plausible mistake.

**Supervisor.** `run` is the program counter of `Run`'s goroutine: `select`
(Run's select), `status` (Check's HTTP call), `gate` (WiFi is down, before
`recoveryAllowed`), `provision` (`ConfigureWiFi`), `waitStatus` and `waitSelect`
(`waitFor`), `stopped`. The fields keep their Go names. Tickers and timers are
channels of one slot that fire in any order, so `CheckInterval`, `WaitTimeout`
and `PollPeriod` have no values and what holds does so for all of them. Three
history variables say what happened rather than what the code recorded:
`provisions` (calls of `ConfigureWiFi` since the last reset), `unsettled`
(attempts counted as started less outcomes counted) and `demand` (a trigger no
check has followed).

**PollLoop.** `loop` is the program counter of the poll loop, `handler` that of
the callback. A computation takes no time; `Tick` moves every clock by one unit
and needs each goroutine to be blocked, so within an instant the two interleave
at every lock, channel operation and blocking call. `age` is
`now - lastUpdateAt`; ages stop at `Horizon`, which stands for "longer ago than
anything compares with". `mqttAge` and `heard` are history variables that follow
MQTT payloads only, where `age` follows whoever wrote the cache. A blocking call
(publish, `Status`) takes 0 to `CallMax` units.

**Exporter.** Every component action is the instantiated one, conjoined with
what the other component keeps. `CallSupervisor` is `handleResult`'s part: with a
bridge `call` becomes `EnableRecovery` or `TriggerCheck` of the supervisor, and
without one the call goes to a nil pointer. The environment is closed by the
battery's WiFi: no WiFi, no payload; and a runtime frame over BLE tells the truth
about it.

**BleSession.** The tasks of one event loop: `loop` is the program counter of
`ble_loop`, `notifier` the notification task, `pc` one counter per HTTP request.
They are cooperative, so a step is the code between two awaits that can suspend.
`queue` counts the frames of each opcode, `lockQueue` is `_lock` with its holder
first. Timeouts fire at any time; the one statement about durations is `Drained`:
`ble_loop`'s sleeps between two sessions (2 s and more) outlast the other tasks'
polling (20 ms, 500 ms). History variables: `fresh` (answers since the write),
`primed` (the probe was answered on this connection), `pressed` (whose reset
press was the last thing written). The refinement mapping reads the channel's
connection off `primed`, its line off `lockQueue` (empty while `ble_loop` is at
its head: it queues only when no request does), and what is sent off the requests
past the lock. A frame is accepted or dropped; its bytes, the
MTU and `last_error` are left out. Two things are assumed of the BLE library:
any call of a setup may raise, and so may `disconnect()`, after which the link may
outlive the handle that `_disconnect_current` drops (`link` without `conn`); but
`notified()` and `disconnected()` end otherwise than by a timeout only when the
link is gone.

**Emulator.** One `pc` per request in progress. A step is one update of a series
or one critical section of `e.mu`; `updateSolarErrInfoHeader` lets go of the lock
before it touches a series, `updateDeviceInfo` does not. Events of code 75 are
decoded from what the firmware packs (`Value`), so `meant` says what the device
meant where the counters say what the code made of it; an event's reason is
counted in one step (`DecodeEvent`) and its signal strength set in the next
(`SetSignal`), since a scrape may come between. Time matters to the rate limiter
alone.

**MqttSession, Session.** Paho's connection, the broker's subscription, and the
methods in the order in which main calls them; `main` is its program counter.
`PollLoop` takes its environment as it comes: any publish may fail, any payload
may arrive, the battery may go silent for good. In `Session` the MQTT session
decides: a publish succeeds if the connection is up, the battery answers what
reaches it, a payload is delivered if the broker knows the subscription. The
refinement is `INSTANCE PollLoop WITH silent <- Lost`: what `PollLoop` calls a
silent battery is a lost subscription.

**Collector.** `at` is the place of each goroutine; `lock` and `readers` are `c.mu`. Under
the lock a step is one field written or one part of a scrape sent, so a torn
update would show. A payload is a sequence of tokens (a key and what `Atoi` and
`ParseFloat` make of its value); `Parse` goes through it as the code's loop does,
one `Put` per turn. A bridge status is a function from the fields that
were sent; the tables of `Update` and `metricValuesFromESP32Status` are sets of
rows. A sample keeps the key it was read from, so that a series fed twice has two
samples. `last` and `newest` are history variables: the whole of the last update,
and the latest time any writer stored. Time is a clock; `MaxDelay` bounds
what a writer takes from reading it to unlocking.

**Config.** `stage` follows `load`: the environment is read at once, the command
line one argument at a time (`next`), then the checks, in one step since none
changes anything. A setting is its form (empty, blank, only slashes, a word, junk, a
number, a number with a base prefix) and the number it reads as; the arithmetic
of durations wraps beyond `MaxInt`.

In `Supervisor` the history variable `status` is the last reply a check acted on.

## 3. What TLC checks

| Run | Question | Bounds |
|---|---|---|
| `supervisor` | All safety, liveness and refinement properties of the supervisor | `MaxRecoveryAttempts = 3`: first, middle and last attempt differ |
| `poll` | Poll loop with fallback, `Interval 4 > Timeout 2 + CallMax 1`, as in the defaults (30 s, 8 s) | `Threshold 2`, `TTL = 3 * Interval`, `Horizon 13` |
| `session` | Poll loop with fallback on an MQTT session that breaks and reconnects; `Interval 2 < Timeout 3`: a poll overruns the ticker | `TTL 12`, `Threshold 2`, `CallMax 1`, `Horizon 13` |
| `exporter` | Components inside the whole; provisioning needs MQTT | without the fallback (with it, see `fallback_enables`); the shortest times (1, 1), `CallMax 0`, one attempt |
| `ble` | Whose answer a request gets, that requests and session together implement `CommandChannel`, that a session is served, its loss noticed, and every request ends | two requests (one can cross, wait for and outlive the other), the probe's opcode and one more, queues of 2, two setup attempts |
| `emulator` | What stays whole when requests cross, and what is exported when they do not | two requests at a time, three in all; headers of 0 to 3 elements; one unknown path, a cooldown of 2 |
| `config` | What a configuration that loads is, and where its values come from | 12-bit integers and a second of 4 units, so that both products overflow, to a negative number, zero and a small positive one; each option in each of its forms on top of three environments (no bridge, a bridge, every feature), up to two arguments out of eleven |
| `collector` | What scrapes see while both writers update | two scrapes, so that one can run into the other (symmetric); payloads of one and two tokens of every kind and one with every key, three statuses; `MaxDelay 1`, a clock of 3 units, a TTL of 1, so that gauges expire and updates cross |
| `no_bridge`, `fallback_enables`, `timeout_race`, `reconnect` | Statements of the documentation that the code does not keep (section 6) | as above, `reconnect` with the shortest times (1, 1) |

`Horizon` is above `UpBound` and `TTL`, so every comparison of an age can go
either way. `UpBound` is tight: TLC finds `up` with an age of exactly `UpBound`,
and one unit less is violated. `MaxRecoveryAttempts` and `Threshold` are compared
and reset only; the theorems lift them to every value.

**Properties of the supervisor.** `AttemptBudget`, `AttemptsSettled`,
`FlagMeansSpent`, `NoLostTrigger` (state), `ManualLatch` (steps),
`TriggerServed`, `ShutdownStops` (liveness) and `BudgetSpec` (refinement).
`TriggerServed` needs that every recovery ends and that every path of `Check`
lets go of `recoveryInProgress`. `TypeOK` and `CheckReleased` are proved only.

**Properties of the poll loop.** `UpMeansExported`: with a TTL of at least
`UpBound` the gauges are there while `up` is 1. `AnswerIsRecent`: no answer
is a stale one. `EarlyCheckAfterSilence`: `Threshold` polls in a row that leave
nothing fresh in the cache, from MQTT or the bridge, bring a check (with the
fallback a refresh forgets a miss, section 6). Liveness: `ShutdownStops`,
`PollsForever`. `RecoveryNeedsMqtt`
holds without the fallback (proved) and is violated with it
(`fallback_enables`). `TypeOK` and `OutcomeCounted` are proved only.

**Properties of the session.** `UpIsBacked`: `up = 1` means an MQTT payload at
most `Interval + Timeout + 2 CallMax + max(Interval, Timeout + CallMax)` old
(`UpBound`), whatever the session and the fallback did. `PollLoopSpec`: the
refinement, so that what holds of `PollLoop` holds here. `SessionKeepsUp`: a
connection and a subscription that stay keep the battery up, however late its
answers. `LossShows`: once the subscription is lost, `up` goes to 0 and stays,
although polls go out and the bridge refreshes the gauges.

**Properties of the collector.** `ScrapeIsOneUpdate`: the gauges and the timestamp
of one scrape are those of one update, whole, or there are no gauges.
`ScrapeSucceeds`: no sample makes a scrape fail, by a label too many or by a
series sent twice. `StampLagBounded`: the writers read the clock before they take
the lock (`collector.go:338`), so the timestamp can go back; by a writer's delay
at most. `LastTokenCounts`: a series is exported exactly when the last token of
its key reads as a number, and with that number.

**Properties of the configuration.** `LoadedIsUsable`: what `PollLoop`,
`Supervisor` and `Exporter` assume of their constants holds of every configuration
that loads, with exceptions it names (section 6). `FlagsWin`: an option has the
value of the last flag that was read for it, or of the environment, or the default.
`DefaultTTLCovers`: the default TTL is at least `UpBound`, the premise of
`UpMeansExported`, as long as a timeout and two calls fit into an interval.

**Properties of the BLE session.** `AnswersAreFresh`: a request is answered by a
frame that arrived after it was written, never by the late answer to another.
(Frames carry no number, so a late answer that arrives after the next write of
its opcode cannot be told apart, by the code or by the property.)
`ChannelSpec`: the refinement of `CommandChannel`. `send_command_multi` and the
reset look at the state only before they wait for the lock, and yet nothing is
written to a connection that is still being set up, no connection is set up while a
request that saw the last one is unfinished, and the requests are served in the
order they came. `CommandsAfterProbe`, the first of these by itself, is proved only.
`ResetWhole`: between press and release nothing is written.
`ReadyIsServed`: a session called ready, with its link up, is listened to.
`AttemptStartsClean`: a setup attempt holds nothing of an earlier one, no handle,
characteristic, frame, listening task or lock, wherever that one failed and even
if its `disconnect()` did (its connection may then still be up, section 6).
Liveness: `RequestsEnd`, `LinkLossNoticed`.

**Properties of the emulator.** `DeviceInfoSingle` (at most one series
names a device), `EventsAccounted` (each event of code 75 counted once, as what it
meant; a signal strength shown is at any time one that such an event reported, and
once no upload is in progress every counted reason shows one) and `WarnsSpaced` hold
however requests cross. `LastRequestShows` is about requests
that did not overlap (section 6 says what happens when they do).

**Fairness.** Goroutines are scheduled (weak fairness of `RunStep`, `LoopStep`,
the rest of a callback that has started). HTTP calls and publishes end: the HTTP
client has a timeout; the token of a publish is completed by the library. A
`select` chooses at random among its ready cases, so a case that keeps being
ready is taken in the end: strong fairness of the cases that another ready case
can pass by (`Stop`, `CheckOnTrigger`, `WaitDeadline`, `AwaitCancelled`,
`LoopCancelled`). Time passes: strong fairness of `Tick`, since payloads may
arrive without end at one instant in the model. In `BleSession` the event loop
runs every task that can run, a timeout ends what waits for the battery, a
cancelled task ends. `Emulator`, `Collector` and `Config` state no
fairness and claim no liveness. In `Session` Paho retries for ever
(`SetAutoReconnect`), main goes on from one call to the next, the poll loop and a
callback that has started are scheduled, and the battery answers each command that
reaches it; the connection may still break at any time. Elsewhere nothing is
assumed of the battery, and nowhere of the bridge's answers or the signal.

## 4. What is proved

All theorems hold for every value of the constants allowed by the ASSUMEs
(`MaxAssumption`: a positive number of attempts; `ConfigAssumption`: positive
durations and threshold, what `config.go` checks, and `Horizon` beyond the ages
compared; `SessionAssumption`: the probe's opcode is one of the opcodes, retries
and queue limit positive; `EmulatorAssumption`: a positive cooldown, reports and
uploads of their shape; `ConfigInputs`: environments and command lines of their
shape, integers wide enough for the defaults; `CollectorAssumption`: a positive
second, writers that are no scrapes, payloads that are sequences of tokens).

* `SupervisorProofs`: the inductive invariant `IInv` ties the counter the code
  compares (`recoveryAttempts`) to what happened (`provisions`, `unsettled`) at
  each control point; none of the properties is inductive without it. From it:
  `TypeCorrect`, `BudgetKept`, `SettledOnce`, `FlagExact`, `AlwaysReleased`,
  `TriggerKept`, `LatchHolds`, and the refinement `ImplementsBudget` (each step
  is a `Start`, `Succeed`, `Fail`, `Heal` or a stutter).
* `PollLoopProofs`: `UpIsBacked` is far from inductive. `AgeIInv` bounds the age
  of the last payload at each control point while `up` is 1: the bound grows with
  the publish, the wait and the call, and a healthy result brings it back to what
  the rest of the ticker's period allows (`TickerInv`, `ResultAge`). `SourceInv`
  says when the cache is the payload's, `SignalInv` that a signal in the channel
  is of this poll. From it: `UpBacked`, `UpExported`, `AnsweredInTime`.
  `CountsOutcome` needs only what each control point has counted. Without the
  fallback, `MqttOnly` (the cache is MQTT's) gives
  `RecoveryAfterMqtt`. With calls no longer than the interval `CacheYoung`, which
  ties the age of the cache to the last payload, gives `SilenceTriggers`: the
  silent polls are among the missed ones.
* `SessionProofs`: `SessionImplements` maps each step of the session and of the
  poll loop on it to a step of `PollLoop` or a stutter; a lost connection is
  `GoSilent`, and a payload is delivered only while `Lost` is false.
  `UpBackedOnSession`, `PollPromisesOnSession` and `TypeCorrect` follow by way of
  the instance.
* `ExporterProofs`: inside the whole, each component takes only its own steps
  (`PollLoopHolds`, `SupervisorHolds`), so every theorem above holds of the
  running program; `PromisesKept` and `LatchKept` say so of those that matter
  most, and `TypeCorrect` is put together from theirs. `ProvisionAfterMqtt` joins two components: what the supervisor
  provisions needs `recoveryEnabled`, that needs `seenSuccessfulResponse` of the
  poll loop, and `RecoveryAfterMqtt`, used through the instance, ties that to a
  payload.
* `BleSessionProofs`: the invariant `IInv` says for each place of `ble_loop` what
  is set up (`StateInv`, `PlaceInv`), for each request where it stands in the
  queue of the lock (`LockInv`), and what a written request may rely on
  (`RequestInv`). That a request which passed the check of the state before the
  lock still finds the same connection after it rests on `Drained`, and on that a
  link is up while a request is unfinished only where `ble_loop` holds it: a link
  that a failed `disconnect()` left behind is never one that a request saw. From it:
  `TypeCorrect`, `ReadyServed`, `AttemptsClean`, `AnswersFresh`,
  `CommandsProbed`, `ResetsWhole`, for any number of requests and opcodes.
  `ImplementsChannel`, the refinement, needs `HistoryInv` besides (a probed
  connection is held and up), and goes by the kind of step: what `ble_loop` does
  is `Open`, `Close` or a stutter (`LoopMaps`, `LinkMaps`), and each step of a
  request is one of the channel's (`CallMaps` to `GiveUpMaps`).
* `CollectorProofs`: `IInv` says who holds the lock at each place (`LockOK`), when
  the cache is the last update and when it is half of the next (`CacheOK`), what
  an unfinished scrape has read of it (`PageOK`) and how far the times can be apart
  (`ClockOK`). From it: `ScrapesWhole` and `StampLags`. `ScrapesSucceed` rests on
  two facts about the tables: a key feeds one series per label, and a status field
  one series (`PayloadExportable`, `StatusExportable`). `LastTokens` says what
  `Parse` computes for payloads of any length: `ParseLast` follows the loop token by
  token. All for any number of scrapes, any payloads and any statuses.
* `ConfigProofs`: `IInv` says which argument set each flag so far (`ReadOK`), that
  each has a value of its kind (`FlagsOK`) and what `Accept` checked
  (`AcceptedOK`). From it: `FlagsWinOverEnv`, `LoadedUsable` and
  `DefaultTTLEnough`, for every environment, command line and width of integers.
* `EmulatorProofs`, in layers, each resting on those before. Who holds `e.mu` and
  what the series are meanwhile (`InfoInv`) gives `OneDevice`; how far the map of
  paths is ahead of the log (`WarnInv`) gives `WarningsApart`. The types, with the
  places a request of each endpoint can be at (`TypeInv`), give `TypesHold`: a
  decoded signal strength is an int16, a header series has a natural index. How far
  the one handler of an endpoint is while nothing overlaps (`HeaderInv`, `PackInv`)
  gives `LastShown`. `AllAccounted` sums over events: `CountInv` says that the
  counters are the cardinalities of the events accounted for so far, which each
  decoding extends by one event it has not met (`UploadInv`: uploads in progress
  have numbers of their own), `SignalInv` that a counted reason without a signal
  strength has a handler about to set one, and `ReportsInv` that a request is counted
  or still in progress. All for any number of requests, uploads, reports and paths.

**Induction over data.** The library's induction theorems take an operator as a
parameter, which the provers cannot instantiate. `CollectorProofs` does without:
a set of natural numbers that is not empty has a least member (`LeastNumber`, from
the well-foundedness of `<`), hence a set of numbers that has 0, and with each
number the next, has all (`Induction`), and `ParseLast` applies this to the
set of the prefixes for which its claim holds. It needs `Parse` to be a recursive
function, since a fold's value, or a RECURSIVE operator's, cannot be unfolded.

**Only model-checked.** Every invariant, action property and refinement of a
passing run is proved. What stays with TLC: the liveness properties
(`TriggerServed`, `ShutdownStops`, `PollsForever`, `SessionKeepsUp`, `LossShows`,
`RequestsEnd`, `LinkLossNoticed`), which need fairness and ENABLED, and the
violations of section 6.

## 5. Not modelled

* White space in a payload, JSON and HTTP beyond their outcome, logging
  (`SetupLogger`, `LogConfig`). In `PollLoop` a payload without a known field
  changes nothing and has no action.
* The collector's `Describe` and its counters of payloads, polls and timeouts, and
  the status gauges of `ObserveStatus` (`esp32bridge/metrics.go`).
* Of the emulator: base64 and AES (a report decodes or does not), the time that
  a getDateInfo reply tells, response headers, and the gauges that are set one by
  one in the way the cell voltages are.
* Of the bridge: how a handler builds a payload and parses a frame, `main.py`.
* The HTTP servers of `main` beyond their start and stop, and `Run`'s return at once
  for a check interval that is not positive (`supervisor.go:71`; `load` lets one
  through only by overflow, section 6).
* The scripts: offline tools.
* In `PollLoop` a computation takes no time. What a writer's delay does to the
  timestamp is `Collector`'s `StampLagBounded`.

## 6. Where code and documentation differ

1. `no_bridge`: without `ESP32BaseURL` a nil `*Supervisor` becomes a non-nil
   interface (`main.go:73, 90, 174`), and the first healthy poll crashes.
2. `fallback_enables`: a fallback refresh passes for MQTT freshness in the next
   poll (`main.go:267`, `collector.go:341`), which enables recovery although MQTT
   was never heard, against README line 206, and resets `missedPolls`.
3. `timeout_race`: a payload between the freshness check and `MarkDown` is taken
   down with the timeout (`main.go:267-281`), against README line 90.
4. `reconnect`: the session is clean, the OnConnect handler does not subscribe
   (`mqtt/client.go:37, 44`), so after a reconnection polls go out and no answer
   comes in until a restart, against README line 330. (`LossShows` says that
   `up` does tell.)

Also visible in the models, with no run of their own:

* with the fallback on, misses are forgotten in the same way as in 2, so the early
  check after missed polls may never come;
* the fallback replaces the whole cache (`collector.go:340`), so gauges of a
  payload disappear within their TTL, against README lines 149 and 215;
* a status without `wifi_connected` decodes to false (`client.go:19`;
  `esp32/webserver.py:159-166` replies so without a runtime frame) and counts as
  WiFi down, so the battery is reprovisioned on a report nobody made
  (`supervisor.go:119-127`), against README line 206;
* configurations that load and are not usable, the exceptions of
  `LoadedIsUsable`: three times a very long interval, and a very long check
  interval in seconds, overflow (`config.go:113, 194`); an
  `ESP32BaseURL` of nothing but slashes passes the checks of the features that
  need a bridge and is trimmed to nothing (`config.go:129-137, 192`); blank
  WiFi credentials count as none for `load` and as two for the supervisor
  (`supervisor.go:252`);
* an environment value that is not a number is replaced by the default
  (`config.go:282-305`), where Load's comment promises to exit, and flags behind
  a plain word on the command line are not read (`config.go:91`);
* a failed publish marks the device down although telemetry is fresh
  (`main.go:256`; README line 328 says only without recent telemetry);
* two overlapping puterrinfo uploads can leave a header series that no upload
  accounts for, or lose one, since `updateSolarErrInfoHeader` deletes and sets
  after it has let go of the lock (`solar_errinfo.go:327-338`; without the
  condition on overlaps TLC violates `LastRequestShows`);
* a getDateInfo request without labels leaves a series that is never deleted
  (`date_info.go:64`), and a report whose pack reads 0 leaves the spread of an
  earlier one (`report.go:187`);
* `_disconnect_current` passes over a `disconnect()` that raises or times out and
  forgets the connection with its link possibly up (`marstek_ble.py:239-243`), so
  nobody closes it before the next attempt connects;
* a scrape between the counter and the gauge of one code-75 event
  (`solar_errinfo.go:372-373`) sees a reason counted whose signal strength is
  missing or an earlier one's;
* `api_restart` and `api_factory_reset` answer `ok` whatever `send_command`
  returned (`webserver.py:343, 355`).

## 7. Plan

Done: the modules of section 2 and the proofs of section 4. Next, in this order:

1. `Session` within `Exporter`, in place of the free environment of the poll loop
   there.
2. End-to-end liveness in `Exporter`: an outage of the WiFi ends in recovery or
   in a request for a human.
3. The status gauges of `ObserveStatus`.
