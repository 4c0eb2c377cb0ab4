--------------------------- MODULE PollLoopProofs ---------------------------
(***************************************************************************)
(* Theorems about PollLoop, for every interval, timeout, TTL, threshold    *)
(* and call time: types, what a poll counts, that an answer is recent, and *)
(* that marstek_up is backed by a payload of a bounded age.                *)
(***************************************************************************)
EXTENDS PollLoop, TLAPS

\* The constants as numbers.
LEMMA Constants ==
    /\ Interval \in Nat /\ Interval > 0
    /\ Timeout \in Nat /\ Timeout > 0
    /\ TTL \in Nat
    /\ Threshold \in Nat /\ Threshold > 0
    /\ CallMax \in Nat
    /\ Horizon \in Nat /\ Horizon > UpBound /\ Horizon > TTL
BY ConfigAssumption

\* A variable that is assigned a truth value has the type of one.
LEMMA TruthValues ==
    /\ \A x : (x = FALSE) => x \in BOOLEAN
    /\ \A x : (x = TRUE) => x \in BOOLEAN
OBVIOUS

-----------------------------------------------------------------------------
(* Types *)

\* The initial state has the types.
LEMMA InitType == Init => TypeOK
BY Constants, TruthValues DEF Init, TypeOK, Locations

\* The MQTT callback keeps the types.
LEMMA HandlerType == TypeOK /\ HandlerStep => TypeOK'
<1> SUFFICES ASSUME TypeOK, HandlerStep PROVE TypeOK'
  OBVIOUS
<1> USE Constants, TruthValues
    DEF TypeOK, loopVars, tickVars, missVars, cacheVars, ghostVars, envVars
<1>1. CASE PayloadUpdate
  BY <1>1 DEF PayloadUpdate
<1>2. CASE PayloadMarkUp
  BY <1>2 DEF PayloadMarkUp
<1>3. CASE PayloadSignal
  BY <1>3 DEF PayloadSignal
<1> QED
  BY <1>1, <1>2, <1>3 DEF HandlerStep

\* runPoll keeps the types.
LEMMA PollType == TypeOK /\ PollStep => TypeOK'
<1> SUFFICES ASSUME TypeOK, PollStep PROVE TypeOK'
  OBVIOUS
<1> USE Constants, TruthValues
    DEF TypeOK, Locations, Results, Counters, loopVars, tickVars, missVars,
        cacheVars, ghostVars, envVars
<1>1. CASE BeginPoll
  BY <1>1 DEF BeginPoll
<1>2. CASE PublishFails
  BY <1>2 DEF PublishFails
<1>3. CASE PublishSucceeds
  BY <1>3 DEF PublishSucceeds
<1>4. CASE Responded
  BY <1>4 DEF Responded
<1>5. CASE TimerFires
  BY <1>5 DEF TimerFires
<1>6. CASE AwaitCancelled
  BY <1>6 DEF AwaitCancelled
<1>7. CASE ForgiveTimeout
  BY <1>7 DEF ForgiveTimeout
<1>8. CASE NoFreshPayload
  BY <1>8 DEF NoFreshPayload
<1>9. CASE FallbackApplies
  BY <1>9 DEF FallbackApplies
<1>10. CASE FallbackFails
  BY <1>10 DEF FallbackFails
<1>11. CASE TimeOut
  BY <1>11 DEF TimeOut
<1> QED
  BY <1>1, <1>2, <1>3, <1>4, <1>5, <1>6, <1>7, <1>8, <1>9, <1>10, <1>11
  DEF PollStep

\* handleResult and the select keep the types; the count of misses stays below
\* the threshold because reaching it resets it.
LEMMA LoopType ==
    TypeOK /\ (HandleResult \/ NextPoll \/ LoopCancelled) => TypeOK'
<1> SUFFICES ASSUME TypeOK, HandleResult \/ NextPoll \/ LoopCancelled
             PROVE TypeOK'
  OBVIOUS
<1> USE Constants, TruthValues
    DEF TypeOK, Locations, loopVars, tickVars, missVars, cacheVars, ghostVars,
        envVars
<1>0. ASSUME ResultHandled, seenSuccessfulResponse' \in BOOLEAN
      PROVE  /\ loop' \in Locations /\ result' \in Results \cup {"none"}
             /\ silentPolls' \in 0 .. Threshold
             /\ ticker' \in 0 .. Interval
             /\ counted' \subseteq Counters
  BY <1>0 DEF ResultHandled, CountSilence
<1>1. CASE HandleHealthy
  <2>1. /\ seenSuccessfulResponse' \in BOOLEAN
        /\ missedPolls' \in 0 .. Threshold - 1
        /\ call' \in {"none", "EnableRecovery", "TriggerCheck"}
        /\ ResultHandled
    BY <1>1 DEF HandleHealthy
  <2> QED
    BY <1>0, <2>1 DEF ResultHandled
<1>2. CASE HandleUnhealthy
  <2>1. /\ missedPolls' \in 0 .. Threshold - 1
        /\ call' \in {"none", "EnableRecovery", "TriggerCheck"}
        /\ ResultHandled
    BY <1>2 DEF HandleUnhealthy, MissedPolls
  <2>2. seenSuccessfulResponse' \in BOOLEAN
    BY <1>2 DEF HandleUnhealthy
  <2> QED
    BY <1>0, <2>1, <2>2 DEF ResultHandled
<1>3. CASE NextPoll
  BY <1>3 DEF NextPoll
<1>4. CASE LoopCancelled
  BY <1>4 DEF LoopCancelled
<1> QED
  BY <1>1, <1>2, <1>3, <1>4 DEF HandleResult

\* Time, the battery and the signal keep the types.
LEMMA EnvironmentType ==
    TypeOK /\ (Tick \/ GoSilent \/ Cancel \/ Terminated) => TypeOK'
<1> SUFFICES ASSUME TypeOK, Tick \/ GoSilent \/ Cancel \/ Terminated
             PROVE TypeOK'
  OBVIOUS
<1> USE Constants, TruthValues
    DEF TypeOK, loopVars, tickVars, missVars, cacheVars, ghostVars, envVars
<1>1. CASE Tick
  <2>1. /\ age' \in 0 .. Horizon /\ mqttAge' \in 0 .. Horizon
        /\ ticker' \in 0 .. Interval
    BY <1>1 DEF Tick, Older, TickerLeft
  <2>2. timer' \in 0 .. Timeout /\ callTime' \in 0 .. CallMax
    BY <1>1 DEF Tick, Quiet
  <2>3. tickReady' \in BOOLEAN
    BY <1>1 DEF Tick
  <2>4. UNCHANGED <<loop, result, missVars, handler, responseCh, up, source,
                    counted, envVars, heard>>
    BY <1>1 DEF Tick
  <2> QED
    BY <2>1, <2>2, <2>3, <2>4
<1>2. CASE GoSilent
  BY <1>2 DEF GoSilent
<1>3. CASE Cancel
  BY <1>3 DEF Cancel
<1>4. CASE Terminated
  BY <1>4 DEF Terminated, vars
<1> QED
  BY <1>1, <1>2, <1>3, <1>4

\* Every variable keeps its type; missedPolls stays below the threshold.
THEOREM TypeCorrect == Spec => []TypeOK
<1>1. Init => TypeOK
  BY InitType
<1>2. TypeOK /\ [Next]_vars => TypeOK'
  <2> SUFFICES ASSUME TypeOK, [Next]_vars PROVE TypeOK'
    OBVIOUS
  <2>1. CASE UNCHANGED vars
    BY <2>1 DEF vars, TypeOK, loopVars, tickVars, missVars, cacheVars,
                ghostVars, envVars
  <2> QED
    BY <2>1, HandlerType, PollType, LoopType, EnvironmentType
    DEF Next, LoopStep
<1> QED
  BY <1>1, <1>2, PTL DEF Spec

-----------------------------------------------------------------------------
(* Where a payload can be old.  While `up` is 1 the age of the last payload is
   bounded at each control point; the bound grows along a poll and falls back
   when a poll ends well. *)

\* The bound at the start of any poll but the first.
PollBase == UpBound - 2 * CallMax - Timeout

\* The first poll starts at time 0 (the ticker does not exist yet), so a payload
\* is no older than the poll itself.
Base == IF ticker = 0 THEN 0 ELSE PollBase

\* A callback that has not ended began at this very instant.
HandlerInv == handler # "idle" => mqttAge = 0 /\ age = 0

\* While `up` is 1, or about to be, the cache is the payload's: only the moment
\* between a fallback and its MarkDown is different.
SourceInv == up \/ handler # "idle" =>
                 age = mqttAge \/ (loop = "giveUp" /\ age = 0)

\* A signal in the channel during a poll is of a payload of this poll.
SignalInv ==
    /\ loop = "publish" /\ responseCh => mqttAge <= callTime
    /\ loop = "await" /\ responseCh =>
         mqttAge <= CallMax + (Timeout - timer)

\* The ticker runs along with the poll: unless it has fired, what is left of it
\* shrinks by the time the poll has taken.
TickerInv ==
    /\ loop = "publish" =>
         tickReady \/ ticker = 0 \/ ticker + callTime <= Interval
    /\ loop = "await" =>
         tickReady \/ ticker = 0 \/ ticker + (Timeout - timer) <= Interval
    /\ loop = "deadline" =>
         timer = 0 /\ (tickReady \/ ticker = 0 \/ ticker + Timeout <= Interval)
    /\ loop = "select" => ticker > 0
    /\ loop \notin {"publish", "fallback"} => callTime = 0

\* What a healthy result leaves behind: young enough for the wait that follows.
ResultAge ==
    /\ mqttAge <= Window + CallMax
    /\ ticker = 0 => mqttAge <= Timeout + CallMax
    /\ ticker # 0 /\ ~tickReady => mqttAge + ticker <= PollBase

AgeInv ==
    up =>
        /\ loop = "drain"    => mqttAge <= Base
        /\ loop = "publish"  => mqttAge <= Base + callTime
        /\ loop = "await"    => mqttAge <= Base + CallMax + (Timeout - timer)
        /\ loop = "deadline" => mqttAge <= Base + CallMax + Timeout
        /\ loop = "fallback" => mqttAge <= Base + CallMax + Timeout + callTime
        /\ loop = "giveUp"   => mqttAge <= Base + CallMax + Timeout + CallMax
        /\ loop = "result"   => ResultAge
        /\ loop = "select"   => mqttAge + (IF tickReady THEN 0 ELSE ticker)
                                  <= PollBase
        /\ loop = "stopped"  => mqttAge <= UpBound

AgeIInv == HandlerInv /\ SourceInv /\ SignalInv /\ TickerInv /\ AgeInv
             /\ AnswerIsRecent

\* The arithmetic of the bounds.
LEMMA Bounds ==
    /\ PollBase \in Nat /\ Base \in Nat /\ UpBound \in Nat /\ Window \in Nat
    /\ PollBase >= Interval + Interval
    /\ PollBase >= Interval + Timeout + CallMax
    /\ UpBound = PollBase + CallMax + CallMax + Timeout
    /\ Window = Interval + Timeout
    /\ Base <= PollBase
BY Constants DEF PollBase, Base, UpBound, Window

\* The ranges of the numbers of a state.
LEMMA Numbers ==
    TypeOK => /\ timer \in Nat /\ timer <= Timeout
              /\ ticker \in Nat /\ ticker <= Interval
              /\ callTime \in Nat /\ callTime <= CallMax
              /\ mqttAge \in Nat /\ age \in Nat
BY Constants DEF TypeOK

\* Initially nothing is up, so no age matters.
LEMMA InitAge == Init => AgeIInv
BY Constants, Bounds
DEF Init, AgeIInv, HandlerInv, SourceInv, SignalInv, TickerInv, AgeInv,
    AnswerIsRecent

\* The callback: a payload is of age 0 until the callback has ended.
LEMMA HandlerAge == TypeOK /\ AgeIInv /\ HandlerStep => AgeIInv'
<1> SUFFICES ASSUME TypeOK, AgeIInv, HandlerStep PROVE AgeIInv'
  OBVIOUS
<1> USE Constants, Bounds, Numbers
    DEF AgeIInv, HandlerInv, SourceInv, SignalInv, TickerInv, AgeInv, ResultAge,
        AnswerIsRecent, Base, loopVars, tickVars, missVars, cacheVars, ghostVars,
        envVars
<1>1. CASE PayloadUpdate
  BY <1>1 DEF PayloadUpdate
<1>2. CASE PayloadMarkUp
  BY <1>2 DEF PayloadMarkUp
<1>3. CASE PayloadSignal
  BY <1>3 DEF PayloadSignal
<1> QED
  BY <1>1, <1>2, <1>3 DEF HandlerStep

\* runPoll: the bound grows with the publish, the wait and the Status call, and
\* a poll that ends well has found a payload of the window or of its own.
LEMMA PollAge == TypeOK /\ AgeIInv /\ PollStep => AgeIInv'
<1> SUFFICES ASSUME TypeOK, AgeIInv, PollStep PROVE AgeIInv'
  OBVIOUS
<1> USE Constants, Bounds, Numbers
    DEF AgeIInv, HandlerInv, SourceInv, SignalInv, TickerInv, AgeInv, ResultAge,
        AnswerIsRecent, Base, loopVars, tickVars, missVars, cacheVars, ghostVars,
        envVars
<1>1. CASE BeginPoll
  BY <1>1 DEF BeginPoll
<1>2. CASE PublishFails
  BY <1>2 DEF PublishFails
<1>3. CASE PublishSucceeds
  BY <1>3 DEF PublishSucceeds
<1>4. CASE Responded
  BY <1>4 DEF Responded
<1>5. CASE TimerFires
  BY <1>5 DEF TimerFires
<1>6. CASE AwaitCancelled
  BY <1>6 DEF AwaitCancelled
<1>7. CASE ForgiveTimeout
  BY <1>7 DEF ForgiveTimeout, HasFreshPayload
<1>8. CASE NoFreshPayload
  BY <1>8 DEF NoFreshPayload
<1>9. CASE FallbackApplies
  BY <1>9 DEF FallbackApplies
<1>10. CASE FallbackFails
  BY <1>10 DEF FallbackFails
<1>11. CASE TimeOut
  BY <1>11 DEF TimeOut
<1> QED
  BY <1>1, <1>2, <1>3, <1>4, <1>5, <1>6, <1>7, <1>8, <1>9, <1>10, <1>11
  DEF PollStep

\* handleResult and the select.
LEMMA LoopAge ==
    TypeOK /\ AgeIInv /\ (HandleResult \/ NextPoll \/ LoopCancelled)
      => AgeIInv'
<1> SUFFICES ASSUME TypeOK, AgeIInv, HandleResult \/ NextPoll \/ LoopCancelled
             PROVE AgeIInv'
  OBVIOUS
<1> USE Constants, Bounds, Numbers
    DEF AgeIInv, HandlerInv, SourceInv, SignalInv, TickerInv, AgeInv, ResultAge,
        AnswerIsRecent, Base, loopVars, tickVars, missVars, cacheVars, ghostVars,
        envVars
<1>1. CASE HandleResult
  <2>1. /\ loop = "result" /\ ResultHandled
    BY <1>1 DEF HandleResult, HandleHealthy, HandleUnhealthy
  <2> QED
    BY <2>1 DEF ResultHandled
<1>2. CASE NextPoll
  BY <1>2 DEF NextPoll
<1>3. CASE LoopCancelled
  BY <1>3 DEF LoopCancelled
<1> QED
  BY <1>1, <1>2, <1>3

\* Time passes for the payload, the timer, the call and the ticker together.
LEMMA TickAge == TypeOK /\ AgeIInv /\ Tick => AgeIInv'
<1> SUFFICES ASSUME TypeOK, AgeIInv, Tick PROVE AgeIInv'
  OBVIOUS
<1> USE Constants, Bounds, Numbers
    DEF AgeIInv, HandlerInv, SourceInv, SignalInv, TickerInv, AgeInv, ResultAge,
        AnswerIsRecent, Base
<1>1. CASE loop = "select"
  BY <1>1 DEF Tick, Quiet, Older, TickerLeft, missVars
<1>2. CASE loop = "await"
  BY <1>2 DEF Tick, Quiet, Older, TickerLeft, missVars
<1>3. CASE loop \in {"publish", "fallback"}
  BY <1>3 DEF Tick, Quiet, Older, TickerLeft, missVars
<1> QED
  BY <1>1, <1>2, <1>3 DEF Tick, Quiet

\* The type invariant and the age invariant together hold in every behaviour.
LEMMA Aging == Spec => [](TypeOK /\ AgeIInv)
<1>1. Init => TypeOK /\ AgeIInv
  BY InitType, InitAge
<1>2. TypeOK /\ AgeIInv /\ [Next]_vars => AgeIInv'
  <2> SUFFICES ASSUME TypeOK, AgeIInv, [Next]_vars PROVE AgeIInv'
    OBVIOUS
  <2> USE DEF AgeIInv, HandlerInv, SourceInv, SignalInv, TickerInv, AgeInv,
              ResultAge, AnswerIsRecent, Base, loopVars, tickVars, missVars,
              cacheVars, ghostVars, envVars
  <2>1. CASE GoSilent \/ Cancel
    BY <2>1 DEF GoSilent, Cancel
  <2>2. CASE Terminated \/ UNCHANGED vars
    BY <2>2 DEF Terminated, vars
  <2> QED
    BY <2>1, <2>2, HandlerAge, PollAge, LoopAge, TickAge DEF Next, LoopStep
<1>3. Spec => []TypeOK
  BY TypeCorrect
<1> QED
  BY <1>1, <1>2, <1>3, PTL DEF Spec

\* At every control point the bound is at most UpBound.
LEMMA YoungEnough == TypeOK /\ AgeIInv => UpIsBacked
<1> SUFFICES ASSUME TypeOK, AgeIInv, up PROVE mqttAge <= UpBound
  BY DEF UpIsBacked
<1>1. loop \in Locations
  BY DEF TypeOK
<1> QED
  BY <1>1, Constants, Bounds, Numbers
  DEF AgeIInv, AgeInv, ResultAge, Base, Locations

\* marstek_up = 1 is backed by an MQTT payload no older than UpBound, whatever
\* the intervals, the calls and the bridge do: runPoll and handleDevicePayload.
THEOREM UpBacked == Spec => []UpIsBacked
BY Aging, YoungEnough, PTL

\* With a TTL of at least UpBound the gauges are exported while up is 1.
THEOREM UpExported == Spec => []UpMeansExported
<1>1. TypeOK /\ AgeIInv => UpMeansExported
  <2> SUFFICES ASSUME TypeOK, AgeIInv, TTL >= UpBound, up PROVE age <= TTL
    BY DEF UpMeansExported
  <2>1. mqttAge <= UpBound
    BY YoungEnough DEF UpIsBacked
  <2>2. age = mqttAge \/ age = 0
    BY DEF AgeIInv, SourceInv
  <2> QED
    BY <2>1, <2>2, Constants, Bounds, Numbers
<1> QED
  BY <1>1, Aging, PTL

\* A poll is answered only by a payload that arrived during it.
THEOREM AnsweredInTime == Spec => []AnswerIsRecent
<1>1. AgeIInv => AnswerIsRecent
  BY DEF AgeIInv
<1> QED
  BY <1>1, Aging, PTL

-----------------------------------------------------------------------------
(* What a poll counts *)

CountedInv ==
    /\ loop \in {"publish", "await", "deadline", "fallback"}
         => counted = {"scrape"}
    /\ loop = "giveUp" => counted \in {{"scrape"}, {"scrape", "fallback"}}

\* Every step counts what its control point calls for.
LEMMA CountedStep ==
    TypeOK /\ CountedInv /\ OutcomeCounted /\ [Next]_vars
      => (CountedInv /\ OutcomeCounted)'
<1> SUFFICES ASSUME TypeOK, CountedInv, OutcomeCounted, [Next]_vars
             PROVE  (CountedInv /\ OutcomeCounted)'
  OBVIOUS
<1>0. loop \in Locations
  BY DEF TypeOK
<1> USE <1>0 DEF CountedInv, OutcomeCounted, Locations, Counters, Results,
        loopVars, tickVars, missVars, cacheVars, ghostVars, envVars
<1>1. CASE UNCHANGED <<loop, result, counted>>
  BY <1>1
<1>2. CASE PollStep
  <2>1. CASE BeginPoll \/ PublishFails \/ PublishSucceeds
    BY <2>1 DEF BeginPoll, PublishFails, PublishSucceeds
  <2>2. CASE Responded \/ TimerFires \/ AwaitCancelled
    BY <2>2 DEF Responded, TimerFires, AwaitCancelled
  <2>3. CASE ForgiveTimeout \/ NoFreshPayload
    BY <2>3 DEF ForgiveTimeout, NoFreshPayload
  <2>4. CASE FallbackApplies \/ FallbackFails
    BY <2>4 DEF FallbackApplies, FallbackFails
  <2>5. CASE TimeOut
    BY <2>5 DEF TimeOut
  <2> QED
    BY <1>2, <2>1, <2>2, <2>3, <2>4, <2>5 DEF PollStep
<1>3. CASE HandleResult
  BY <1>3 DEF HandleResult, HandleHealthy, HandleUnhealthy, ResultHandled
<1>4. CASE NextPoll \/ LoopCancelled
  BY <1>4 DEF NextPoll, LoopCancelled
<1>5. CASE HandlerStep
  BY <1>1, <1>5
  DEF HandlerStep, PayloadUpdate, PayloadMarkUp, PayloadSignal
<1>6. CASE Tick \/ GoSilent \/ Cancel \/ Terminated \/ UNCHANGED vars
  BY <1>1, <1>6 DEF Tick, GoSilent, Cancel, Terminated, vars
<1> QED
  BY <1>2, <1>3, <1>4, <1>5, <1>6 DEF Next, LoopStep

\* What the counters tell of a poll: each poll counts one scrape, an error
\* exactly when it is not healthy, a fallback only when it timed out (runPoll).
THEOREM CountsOutcome == Spec => []OutcomeCounted
<1>1. Init => CountedInv /\ OutcomeCounted
  BY DEF Init, CountedInv, OutcomeCounted
<1> QED
  BY <1>1, CountedStep, TypeCorrect, PTL DEF Spec

-----------------------------------------------------------------------------
(* Without the ESP32 fallback only MQTT fills the cache: a healthy result then
   means what the README says it means. *)

\* What only a payload can have done.
MqttOnly ==
    /\ age = mqttAge
    /\ loop # "fallback"
    /\ handler # "idle" => heard
    /\ responseCh => heard
    /\ ~heard => mqttAge = Horizon
    /\ loop = "result" /\ result = "responded" => heard
    /\ loop = "result" /\ result = "freshTelemetry" =>
         heard /\ mqttAge <= Window

\* Initially the cache is empty and recovery is not enabled.
LEMMA InitMqttOnly == Init => MqttOnly /\ RecoveryNeedsMqtt
BY DEF Init, MqttOnly, RecoveryNeedsMqtt

\* Without the fallback, every step leaves the cache to MQTT.
LEMMA MqttOnlyStep ==
    ASSUME ~FallbackEnabled, TypeOK, MqttOnly, RecoveryNeedsMqtt, [Next]_vars
    PROVE  (MqttOnly /\ RecoveryNeedsMqtt)'
<1> USE Constants, Bounds, Numbers
    DEF MqttOnly, RecoveryNeedsMqtt, loopVars, tickVars, missVars, cacheVars,
        ghostVars, envVars
<1>1. CASE HandlerStep
  BY <1>1 DEF HandlerStep, PayloadUpdate, PayloadMarkUp, PayloadSignal
<1>2. CASE PollStep
  <2>1. CASE BeginPoll \/ PublishFails \/ PublishSucceeds
    BY <2>1 DEF BeginPoll, PublishFails, PublishSucceeds
  <2>2. CASE Responded \/ TimerFires \/ AwaitCancelled
    BY <2>2 DEF Responded, TimerFires, AwaitCancelled
  <2>3. CASE ForgiveTimeout
    BY <2>3 DEF ForgiveTimeout, HasFreshPayload
  <2>4. CASE NoFreshPayload
    BY <2>4 DEF NoFreshPayload
  <2>5. CASE FallbackApplies \/ FallbackFails
    BY <2>5 DEF FallbackApplies, FallbackFails
  <2>6. CASE TimeOut
    BY <2>6 DEF TimeOut
  <2> QED
    BY <1>2, <2>1, <2>2, <2>3, <2>4, <2>5, <2>6 DEF PollStep
<1>3. CASE HandleResult
  BY <1>3 DEF HandleResult, HandleHealthy, HandleUnhealthy, ResultHandled,
              IsHealthyPollResult
<1>4. CASE NextPoll \/ LoopCancelled
  BY <1>4 DEF NextPoll, LoopCancelled
<1>5. CASE Tick
  BY <1>5 DEF Tick, Quiet, Older
<1>6. CASE GoSilent \/ Cancel \/ Terminated \/ UNCHANGED vars
  BY <1>6 DEF GoSilent, Cancel, Terminated, vars
<1> QED
  BY <1>1, <1>2, <1>3, <1>4, <1>5, <1>6 DEF Next, LoopStep

\* Without the fallback, recovery is enabled only after an MQTT payload: what
\* the README says of it (README "Optional ESP32 recovery").
THEOREM RecoveryAfterMqtt ==
    ~FallbackEnabled => (Spec => [](MqttOnly /\ RecoveryNeedsMqtt))
<1> SUFFICES ASSUME ~FallbackEnabled
             PROVE  Spec => [](MqttOnly /\ RecoveryNeedsMqtt)
  OBVIOUS
<1>1. TypeOK /\ MqttOnly /\ RecoveryNeedsMqtt /\ [Next]_vars
        => (MqttOnly /\ RecoveryNeedsMqtt)'
  BY MqttOnlyStep
<1> QED
  BY <1>1, InitMqttOnly, TypeCorrect, PTL DEF Spec

\* The cache is at least as young as the last payload, and young when a timeout
\* has just been forgiven.
CacheYoung ==
    /\ age <= mqttAge
    /\ loop = "result" /\ result = "freshTelemetry" => age <= Window

\* No step ages the cache beyond the last payload.
LEMMA CacheYoungStep ==
    ASSUME TypeOK, CacheYoung, [Next]_vars
    PROVE  CacheYoung'
<1> USE Constants, Bounds, Numbers
    DEF CacheYoung, loopVars, tickVars, missVars, cacheVars, ghostVars, envVars
<1>1. CASE HandlerStep
  BY <1>1 DEF HandlerStep, PayloadUpdate, PayloadMarkUp, PayloadSignal
<1>2. CASE PollStep
  <2>1. CASE BeginPoll \/ PublishSucceeds \/ TimerFires \/ AwaitCancelled
    BY <2>1 DEF BeginPoll, PublishSucceeds, TimerFires, AwaitCancelled
  <2>2. CASE PublishFails \/ Responded \/ TimeOut
    BY <2>2 DEF PublishFails, Responded, TimeOut
  <2>3. CASE ForgiveTimeout \/ NoFreshPayload
    BY <2>3 DEF ForgiveTimeout, NoFreshPayload, HasFreshPayload
  <2>4. CASE FallbackApplies \/ FallbackFails
    BY <2>4 DEF FallbackApplies, FallbackFails
  <2> QED
    BY <1>2, <2>1, <2>2, <2>3, <2>4 DEF PollStep
<1>3. CASE HandleResult
  BY <1>3 DEF HandleResult, HandleHealthy, HandleUnhealthy, ResultHandled
<1>4. CASE NextPoll \/ LoopCancelled
  BY <1>4 DEF NextPoll, LoopCancelled
<1>5. CASE Tick
  BY <1>5 DEF Tick, Quiet, Older
<1>6. CASE GoSilent \/ Cancel \/ Terminated \/ UNCHANGED vars
  BY <1>6 DEF GoSilent, Cancel, Terminated, vars
<1> QED
  BY <1>1, <1>2, <1>3, <1>4, <1>5, <1>6 DEF Next, LoopStep

\* The polls that left nothing fresh are among the missed ones.
SilenceIsMissed == silentPolls <= missedPolls

\* A silent poll is counted as missed, and a healthy one forgets both.
LEMMA SilenceStep ==
    ASSUME CallMax <= Interval, TypeOK, AnswerIsRecent, CacheYoung,
           SilenceIsMissed, [Next]_vars
    PROVE  SilenceIsMissed'
<1> USE DEF SilenceIsMissed
<1>1. CASE HandleHealthy
  <2>1. age <= Window
    BY <1>1, Constants, Bounds, Numbers
    DEF HandleHealthy, IsHealthyPollResult, AnswerIsRecent, CacheYoung
  <2>2. silentPolls' = 0 /\ missedPolls' = 0
    BY <1>1, <2>1 DEF HandleHealthy, ResultHandled, CountSilence
  <2> QED
    BY <2>2
<1>2. CASE HandleUnhealthy
  <2>0. /\ silentPolls \in Nat /\ silentPolls <= Threshold
        /\ missedPolls \in Nat /\ missedPolls < Threshold
    BY Constants DEF TypeOK
  <2>1. CASE ~seenSuccessfulResponse
    BY <1>2, <2>0, <2>1 DEF HandleUnhealthy, ResultHandled, CountSilence
  <2>2. CASE seenSuccessfulResponse /\ ThresholdReached
    BY <1>2, <2>0, <2>2, Constants
    DEF HandleUnhealthy, ResultHandled, CountSilence, MissedPolls,
        ThresholdReached
  <2>3. CASE seenSuccessfulResponse /\ ~ThresholdReached
    BY <1>2, <2>0, <2>3, Constants
    DEF HandleUnhealthy, ResultHandled, CountSilence, MissedPolls,
        ThresholdReached
  <2> QED
    BY <2>1, <2>2, <2>3
<1>3. CASE UNCHANGED <<missedPolls, silentPolls>>
  BY <1>3
<1> USE DEF loopVars, tickVars, missVars, cacheVars, ghostVars, envVars
<1>4. CASE HandlerStep
  BY <1>3, <1>4 DEF HandlerStep, PayloadUpdate, PayloadMarkUp, PayloadSignal
<1>5. CASE PollStep
  BY <1>3, <1>5
  DEF PollStep, BeginPoll, PublishFails, PublishSucceeds, Responded, TimerFires,
      AwaitCancelled, ForgiveTimeout, NoFreshPayload, FallbackApplies,
      FallbackFails, TimeOut
<1>6. CASE NextPoll \/ LoopCancelled \/ Tick \/ GoSilent \/ Cancel
             \/ Terminated \/ UNCHANGED vars
  BY <1>3, <1>6
  DEF NextPoll, LoopCancelled, Tick, GoSilent, Cancel, Terminated, vars
<1> QED
  BY <1>1, <1>2, <1>4, <1>5, <1>6 DEF Next, LoopStep, HandleResult

\* With calls no longer than the interval, Threshold polls in a row that leave
\* nothing fresh bring an early check (updateMissedPolls, README "Optional ESP32
\* recovery").
THEOREM SilenceTriggers ==
    CallMax <= Interval => (Spec => []EarlyCheckAfterSilence)
<1> SUFFICES ASSUME CallMax <= Interval
             PROVE  Spec => []EarlyCheckAfterSilence
  OBVIOUS
<1>1. Init => CacheYoung /\ SilenceIsMissed
  BY Constants DEF Init, CacheYoung, SilenceIsMissed
<1>2. TypeOK /\ CacheYoung /\ [Next]_vars => CacheYoung'
  BY CacheYoungStep
<1>3. TypeOK /\ AnswerIsRecent /\ CacheYoung /\ SilenceIsMissed /\ [Next]_vars
        => SilenceIsMissed'
  BY SilenceStep
<1>4. TypeOK /\ SilenceIsMissed => EarlyCheckAfterSilence
  BY Constants DEF TypeOK, SilenceIsMissed, EarlyCheckAfterSilence
<1> QED
  BY <1>1, <1>2, <1>3, <1>4, TypeCorrect, AnsweredInTime, PTL DEF Spec
=============================================================================
