------------------------------ MODULE PollLoop ------------------------------
(***************************************************************************)
(* The core of the exporter: the poll loop of main.go, the MQTT callback   *)
(* that runs beside it in a goroutine of the MQTT library, and the         *)
(* collector both of them write (collector/collector.go).                  *)
(*                                                                         *)
(* Time is discrete and relative: `age` is now - lastUpdateAt, timers count *)
(* down, and Tick moves all of them together.  A computation takes no      *)
(* time, so Tick waits until every goroutine is blocked in a select, a     *)
(* timer or a call; at one instant the goroutines interleave freely.  A    *)
(* step is the code between two places where another goroutine can be      *)
(* seen: a lock of the collector, a channel operation, a blocking call.    *)
(***************************************************************************)
EXTENDS Naturals, Bridge

CONSTANTS
    Interval,           \* cfg.PollInterval
    Timeout,            \* cfg.ResponseTimeout
    TTL,                \* cfg.MetricTTL
    Threshold,          \* cfg.ESP32RecoveryMissedPolls
    FallbackEnabled,    \* cfg.ESP32MetricsFallback (and a bridge to ask)
    CallMax,            \* longest a publish or a Status call blocks
    Horizon             \* ages are counted up to here: "long ago, or never"

Window == Interval + Timeout    \* freshTelemetryWindow

\* How old the last MQTT payload can be while marstek_up is 1 (see UpIsBacked).
\* A healthy poll leaves it Window old at most; the next one starts within an
\* Interval of it, and takes a publish, the Timeout and a Status call.
UpBound == Window + 2 * CallMax +
             (IF Timeout + CallMax > Interval THEN Timeout + CallMax
                                              ELSE Interval)

\* The first line is what config.go checks.  Horizon only bounds the model.
ASSUME ConfigAssumption ==
    /\ {Interval, Timeout, TTL, Threshold} \subseteq Nat \ {0}
    /\ FallbackEnabled \in BOOLEAN
    /\ CallMax \in Nat
    /\ Horizon \in Nat /\ Horizon > UpBound /\ Horizon > TTL

VARIABLES
    loop,                   \* control state of runPollLoop's goroutine
    timer,                  \* time left of runPoll's timer
    ticker,                 \* time to the next tick; 0: not created yet
    tickReady,              \* channel of the ticker
    callTime,               \* how long the current blocking call has taken
    result,                 \* what runPoll returned, until it is handled
    missedPolls,            \* locals of runPollLoop
    seenSuccessfulResponse,
    call,                   \* what handleResult called on the supervisor
    handler,                \* control state of handleDevicePayload
    responseCh,             \* one-slot channel: TRUE when it holds a signal
    up, age, source,        \* collector: up, now - lastUpdateAt, who filled it
    counted,                \* counters the current poll has incremented
    ctxDone,                \* ctx has been cancelled
    silent,                 \* the battery has stopped publishing for good
    \* history variables
    mqttAge,                \* time since an MQTT payload was last cached
    heard,                  \* an MQTT payload has been cached
    silentPolls             \* polls in a row that ended with nothing fresh,
                            \* since the last TriggerCheck

loopVars  == <<loop, timer, callTime, result>>
tickVars  == <<ticker, tickReady>>
missVars  == <<missedPolls, seenSuccessfulResponse, call, silentPolls>>
cacheVars == <<age, source>>
ghostVars == <<mqttAge, heard>>
envVars   == <<ctxDone, silent>>
vars == <<loopVars, tickVars, missVars, handler, responseCh, up, cacheVars,
          counted, envVars, ghostVars>>

Results == {"responded", "freshTelemetry", "publishFailed", "timedOut"}
Locations == {"drain", "publish", "await", "deadline", "fallback", "giveUp",
              "result", "select", "stopped"}
Counters == {"scrape", "publishError", "timeout", "fallback"}

TypeOK ==
    /\ loop \in Locations
    /\ timer \in 0 .. Timeout
    /\ ticker \in 0 .. Interval /\ tickReady \in BOOLEAN
    /\ callTime \in 0 .. CallMax
    /\ result \in Results \cup {"none"}
    /\ missedPolls \in 0 .. Threshold - 1
    /\ seenSuccessfulResponse \in BOOLEAN
    /\ call \in {"none", "EnableRecovery", "TriggerCheck"}
    /\ handler \in {"idle", "updated", "marked"}
    /\ responseCh \in BOOLEAN
    /\ up \in BOOLEAN
    /\ age \in 0 .. Horizon
    /\ source \in {"none", "mqtt", "esp32"}
    /\ counted \subseteq Counters
    /\ ctxDone \in BOOLEAN /\ silent \in BOOLEAN
    /\ mqttAge \in 0 .. Horizon
    /\ heard \in BOOLEAN
    /\ silentPolls \in 0 .. Threshold

Init ==
    /\ loop = "drain" /\ timer = 0 /\ callTime = 0 /\ result = "none"
    /\ ticker = 0 /\ tickReady = FALSE
    /\ missedPolls = 0 /\ seenSuccessfulResponse = FALSE /\ call = "none"
    /\ handler = "idle" /\ responseCh = FALSE
    /\ up = FALSE /\ age = Horizon /\ source = "none"
    /\ counted = {}
    /\ ctxDone = FALSE /\ silent = FALSE
    /\ mqttAge = Horizon /\ heard = FALSE /\ silentPolls = 0
-----------------------------------------------------------------------------
(* handleDevicePayload: Update, MarkUp, and the non-blocking send.  The MQTT
   library calls it for one message at a time.  A payload with no known field
   is dropped by Update and changes nothing, so it has no action. *)

PayloadUpdate ==
    /\ handler = "idle" /\ ~silent
    /\ age' = 0 /\ source' = "mqtt"
    /\ mqttAge' = 0 /\ heard' = TRUE
    /\ handler' = "updated"
    /\ UNCHANGED <<loopVars, tickVars, missVars, responseCh, up, counted,
                   envVars>>

PayloadMarkUp ==
    /\ handler = "updated"
    /\ up' = TRUE
    /\ handler' = "marked"
    /\ UNCHANGED <<loopVars, tickVars, missVars, responseCh, cacheVars, counted,
                   envVars, ghostVars>>

PayloadSignal ==
    /\ handler = "marked"
    /\ responseCh' = TRUE
    /\ handler' = "idle"
    /\ UNCHANGED <<loopVars, tickVars, missVars, up, cacheVars, counted,
                   envVars, ghostVars>>

HandlerStep == PayloadUpdate \/ PayloadMarkUp \/ PayloadSignal
-----------------------------------------------------------------------------
(* runPoll *)

\* Faulty on purpose: a signal of an earlier poll stays in responseCh.
BeginPollUndrained ==
    /\ loop = "drain"
    /\ counted' = {"scrape"}
    /\ loop' = "publish"
    /\ UNCHANGED <<timer, callTime, result, tickVars, missVars, handler,
                   responseCh, up, cacheVars, envVars, ghostVars>>

\* Drain, IncScrape, and the call of client.Poll.
BeginPoll ==
    /\ loop = "drain"
    /\ responseCh' = FALSE
    /\ counted' = {"scrape"}
    /\ loop' = "publish"
    /\ UNCHANGED <<timer, callTime, result, tickVars, missVars, handler, up,
                   cacheVars, envVars, ghostVars>>

\* Faulty on purpose: a failed publish ends the loop.
PublishErrorReturned ==
    /\ loop = "publish"
    /\ counted' = counted \cup {"publishError"}
    /\ up' = FALSE
    /\ callTime' = 0
    /\ loop' = "stopped"
    /\ UNCHANGED <<timer, result, tickVars, missVars, handler, responseCh,
                   cacheVars, envVars, ghostVars>>

\* pollPublishFailed: IncPollPublishError, MarkDown.
PublishFails ==
    /\ loop = "publish"
    /\ counted' = counted \cup {"publishError"}
    /\ up' = FALSE
    /\ result' = "publishFailed"
    /\ callTime' = 0
    /\ loop' = "result"
    /\ UNCHANGED <<timer, tickVars, missVars, handler, responseCh,
                   cacheVars, envVars, ghostVars>>

PublishSucceeds ==
    /\ loop = "publish"
    /\ timer' = Timeout
    /\ callTime' = 0
    /\ loop' = "await"
    /\ UNCHANGED <<result, tickVars, missVars, handler, responseCh,
                   up, cacheVars, counted, envVars, ghostVars>>

Responded ==
    /\ loop = "await" /\ responseCh
    /\ responseCh' = FALSE
    /\ result' = "responded"
    /\ timer' = 0
    /\ loop' = "result"
    /\ UNCHANGED <<callTime, tickVars, missVars, handler, up, cacheVars,
                   counted, envVars, ghostVars>>

TimerFires ==
    /\ loop = "await" /\ timer = 0
    /\ loop' = "deadline"
    /\ UNCHANGED <<timer, callTime, result, tickVars, missVars, handler,
                   responseCh, up, cacheVars, counted, envVars, ghostVars>>

AwaitCancelled ==
    /\ loop = "await" /\ ctxDone
    /\ loop' = "stopped"
    /\ UNCHANGED <<timer, callTime, result, tickVars, missVars, handler,
                   responseCh, up, cacheVars, counted, envVars, ghostVars>>

\* Faulty on purpose: freshness ignores the age.
AnyPayloadIsFresh == source # "none"

HasFreshPayload == age <= Window

\* pollFreshTelemetry: the timeout is forgiven, `up` is left as it is.
ForgiveTimeout ==
    /\ loop = "deadline" /\ HasFreshPayload
    /\ result' = "freshTelemetry"
    /\ loop' = "result"
    /\ UNCHANGED <<timer, callTime, tickVars, missVars, handler, responseCh, up,
                   cacheVars, counted, envVars, ghostVars>>

NoFreshPayload ==
    /\ loop = "deadline" /\ ~HasFreshPayload
    /\ loop' = IF FallbackEnabled THEN "fallback" ELSE "giveUp"
    /\ UNCHANGED <<timer, callTime, result, tickVars, missVars, handler,
                   responseCh, up, cacheVars, counted, envVars, ghostVars>>

\* metricValuesFromESP32Status has something to offer.
Usable(r) == r.ok /\ r.connected /\ r.telemetry

\* Faulty on purpose: the fallback makes the poll a healthy one.
FallbackAnswersPoll ==
    /\ loop = "fallback" /\ ~ctxDone
    /\ \E r \in Replies : Usable(r)
    /\ age' = 0 /\ source' = "esp32"
    /\ up' = TRUE
    /\ counted' = counted \cup {"fallback"}
    /\ callTime' = 0
    /\ result' = "freshTelemetry"
    /\ loop' = "result"
    /\ UNCHANGED <<timer, tickVars, missVars, handler, responseCh, envVars,
                   ghostVars>>

\* UpdateMetrics replaces the whole cache with the bridge's values.
FallbackApplies ==
    /\ loop = "fallback" /\ ~ctxDone
    /\ \E r \in Replies : Usable(r)
    /\ age' = 0 /\ source' = "esp32"
    /\ counted' = counted \cup {"fallback"}
    /\ callTime' = 0
    /\ loop' = "giveUp"
    /\ UNCHANGED <<timer, result, tickVars, missVars, handler,
                   responseCh, up, envVars, ghostVars>>

FallbackFails ==
    /\ loop = "fallback"
    /\ \E r \in Replies : ~Usable(r)
    /\ callTime' = 0
    /\ loop' = "giveUp"
    /\ UNCHANGED <<timer, result, tickVars, missVars, handler,
                   responseCh, up, cacheVars, counted, envVars, ghostVars>>

\* Faulty on purpose: MarkDown is forgotten.
TimeoutLeavesUp ==
    /\ loop = "giveUp"
    /\ counted' = counted \cup {"timeout"}
    /\ result' = "timedOut"
    /\ loop' = "result"
    /\ UNCHANGED <<timer, callTime, tickVars, missVars, handler, responseCh, up,
                   cacheVars, envVars, ghostVars>>

\* pollTimedOut: IncPollTimeout, MarkDown.
TimeOut ==
    /\ loop = "giveUp"
    /\ counted' = counted \cup {"timeout"}
    /\ up' = FALSE
    /\ result' = "timedOut"
    /\ loop' = "result"
    /\ UNCHANGED <<timer, callTime, tickVars, missVars, handler, responseCh,
                   cacheVars, envVars, ghostVars>>

PollStep ==
    \/ BeginPoll \/ PublishFails \/ PublishSucceeds
    \/ Responded \/ TimerFires \/ AwaitCancelled
    \/ ForgiveTimeout \/ NoFreshPayload
    \/ FallbackApplies \/ FallbackFails \/ TimeOut
-----------------------------------------------------------------------------
(* runPollLoop: handleResult, and the select on the ticker. *)

\* Faulty on purpose: a timed-out poll counts as healthy.
AnyPublishedPollIsHealthy(r) == r # "publishFailed"

IsHealthyPollResult(r) == r \in {"responded", "freshTelemetry"}

\* Faulty on purpose: the count is not reset at the threshold.
MissedPollsUnreset == missedPolls + 1

\* updateMissedPolls after an unhealthy result: the count goes back to 0 when
\* it reaches the threshold.
MissedPolls == IF missedPolls + 1 < Threshold THEN missedPolls + 1 ELSE 0

\* Faulty on purpose: one missed poll too many.
ThresholdOffByOne == missedPolls + 1 > Threshold

ThresholdReached == missedPolls + 1 >= Threshold

\* The history variable: what the last polls left of telemetry, from MQTT or the
\* bridge, whatever runPoll said of them.
CountSilence ==
    silentPolls' =
        IF age <= Window \/ ~seenSuccessfulResponse' \/ call' = "TriggerCheck"
        THEN 0
        ELSE IF silentPolls < Threshold THEN silentPolls + 1 ELSE Threshold

\* After any result: the ticker is created when the first one has been handled.
ResultHandled ==
    /\ CountSilence
    /\ ticker' = IF ticker = 0 THEN Interval ELSE ticker
    /\ result' = "none" /\ counted' = {}
    /\ loop' = "select"
    /\ UNCHANGED <<timer, callTime, tickReady, handler, responseCh, up,
                   cacheVars, envVars, ghostVars>>

HandleHealthy ==
    /\ loop = "result" /\ IsHealthyPollResult(result)
    /\ seenSuccessfulResponse' = TRUE
    /\ missedPolls' = 0
    /\ call' = "EnableRecovery"
    /\ ResultHandled

\* Before the first healthy result misses are not even counted.
HandleUnhealthy ==
    /\ loop = "result" /\ ~IsHealthyPollResult(result)
    /\ missedPolls' = IF seenSuccessfulResponse THEN MissedPolls
                      ELSE missedPolls
    /\ call' = IF seenSuccessfulResponse /\ ThresholdReached
               THEN "TriggerCheck" ELSE "none"
    /\ UNCHANGED seenSuccessfulResponse
    /\ ResultHandled

HandleResult == HandleHealthy \/ HandleUnhealthy

NextPoll ==
    /\ loop = "select" /\ tickReady
    /\ tickReady' = FALSE
    /\ call' = "none"
    /\ loop' = "drain"
    /\ UNCHANGED <<timer, callTime, result, ticker, missedPolls,
                   seenSuccessfulResponse, silentPolls, handler, responseCh,
                   up, cacheVars, counted, envVars, ghostVars>>

\* Faulty on purpose: runPollLoop's select without ctx.Done.
LoopDeaf == FALSE

LoopCancelled ==
    /\ loop = "select" /\ ctxDone
    /\ loop' = "stopped"
    /\ UNCHANGED <<timer, callTime, result, tickVars, missVars, handler,
                   responseCh, up, cacheVars, counted, envVars, ghostVars>>
-----------------------------------------------------------------------------
(* Time and the environment.  main returns soon after ctx is cancelled, so the
   model ends when the loop has stopped. *)

\* Every goroutine is blocked, and nothing it waits for is there.
Quiet ==
    /\ handler = "idle"
    /\ \/ loop = "select" /\ ~tickReady /\ ~ctxDone
       \/ loop = "await" /\ timer > 0 /\ ~responseCh /\ ~ctxDone
       \/ loop \in {"publish", "fallback"} /\ callTime < CallMax

Older(a) == IF a < Horizon THEN a + 1 ELSE Horizon

\* The time to the ticker's next tick, one unit later.
TickerLeft(t) == IF t = 1 THEN Interval ELSE IF t = 0 THEN 0 ELSE t - 1

\* A tick of the ticker that finds its channel full is dropped.
Tick ==
    /\ Quiet
    /\ age' = Older(age)
    /\ mqttAge' = Older(mqttAge)
    /\ timer' = IF loop = "await" THEN timer - 1 ELSE timer
    /\ callTime' = IF loop \in {"publish", "fallback"} THEN callTime + 1
                   ELSE callTime
    /\ ticker' = TickerLeft(ticker)
    /\ tickReady' = IF ticker = 1 THEN TRUE ELSE tickReady
    /\ UNCHANGED <<loop, result, missVars, handler, responseCh, up, source,
                   counted, envVars, heard>>

GoSilent ==
    /\ ~silent
    /\ silent' = TRUE
    /\ UNCHANGED <<loopVars, tickVars, missVars, handler, responseCh, up,
                   cacheVars, counted, ctxDone, ghostVars>>

Cancel ==
    /\ ~ctxDone
    /\ ctxDone' = TRUE
    /\ UNCHANGED <<loopVars, tickVars, missVars, handler, responseCh, up,
                   cacheVars, counted, silent, ghostVars>>

LoopStep == PollStep \/ HandleResult \/ NextPoll \/ LoopCancelled

Terminated == loop = "stopped" /\ UNCHANGED vars

Next == HandlerStep \/ LoopStep \/ Tick \/ GoSilent \/ Cancel \/ Terminated

Spec == Init /\ [][Next]_vars

(***************************************************************************)
(* Fairness.  Both goroutines run (weak fairness), and time passes: strong *)
(* fairness of Tick, because payloads could otherwise arrive at one        *)
(* instant for ever.  AwaitCancelled and LoopCancelled are cases of a      *)
(* select that chooses at random among those ready.                        *)
(***************************************************************************)
Fairness ==
    /\ WF_vars(LoopStep)
    /\ WF_vars(PayloadMarkUp \/ PayloadSignal)
    /\ SF_vars(Tick)
    /\ SF_vars(AwaitCancelled) /\ SF_vars(LoopCancelled)

FairSpec == Spec /\ Fairness
-----------------------------------------------------------------------------
(* Safety *)

\* marstek_up = 1 is backed by an MQTT payload not older than UpBound: the
\* freshness window, one more poll, and the calls in between.  Neither the
\* fallback nor forgiven timeouts keep it up for longer (runPoll,
\* handleDevicePayload, README "marstek_up reflects recent parseable MQTT
\* telemetry health").
UpIsBacked == up => mqttAge <= UpBound

\* While marstek_up is 1 the gauges are exported: Collect finds the cache
\* within the TTL.  So with a TTL of at least UpBound (the default of three
\* intervals is, when Timeout + 2 * CallMax does not exceed Interval) nobody
\* scrapes up = 1 with payload_fresh = 0.
UpMeansExported == (TTL >= UpBound) => (up => age <= TTL)

\* A poll counts as answered only on a payload that arrived during it: no
\* signal of an earlier payload is left in the channel to be taken for the
\* answer (the drain at the start of runPoll).
AnswerIsRecent ==
    (loop = "result" /\ result = "responded") => mqttAge <= Timeout + CallMax

\* What a poll counts: one scrape, and one error exactly when its result is not
\* healthy; a fallback is counted only by a poll that timed out.
OutcomeCounted ==
    loop = "result" =>
        /\ "scrape" \in counted
        /\ ("publishError" \in counted) <=> (result = "publishFailed")
        /\ ("timeout" \in counted) <=> (result = "timedOut")
        /\ ("fallback" \in counted) => (result = "timedOut")

\* README, "Optional ESP32 recovery": the bridge is checked early after
\* Threshold polls in a row with no battery response: a trigger comes before
\* the count of silent polls reaches Threshold.  A status the fallback took from
\* the bridge counts as a response here; without the fallback only MQTT does.
EarlyCheckAfterSilence == silentPolls < Threshold

\* README, same place: "only after the exporter has already seen at least one
\* successful MQTT response from the battery".
RecoveryNeedsMqtt == seenSuccessfulResponse => heard

(* Liveness *)

\* A cancelled ctx ends the poll loop.
ShutdownStops == ctxDone ~> (loop = "stopped")

\* The loop keeps polling, whatever the publishes and the bridge do.
PollsForever == []<>(loop = "publish" \/ ctxDone)
-----------------------------------------------------------------------------
(* What the documentation says and the code does not do. *)

\* README, "marstek_up remains 1 while telemetry is still arriving within the
\* freshness window": a timeout does not take down what a payload just put up.
TimeoutKeepsFresh ==
    [][(loop = "giveUp" /\ loop' = "result") =>
           (mqttAge <= Window => up' = up)]_vars
=============================================================================
