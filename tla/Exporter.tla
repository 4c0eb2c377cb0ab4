------------------------------ MODULE Exporter ------------------------------
(***************************************************************************)
(* main.go: how the exporter is put together.  main connects, subscribes,  *)
(* starts the supervisor (when ESP32BaseURL is set) and the poll loop, and *)
(* waits for a signal.  From then on the poll loop and the MQTT callback   *)
(* (PollLoop) and the supervisor (Supervisor) run side by side; handleResult*)
(* calls the supervisor from the poll loop's goroutine.                    *)
(*                                                                         *)
(* The two components are instantiated, not copied: a step of one leaves   *)
(* the other alone, but for the two calls and for ctx, which they share.   *)
(* The battery's WiFi ties their environments together: without it no      *)
(* payload arrives, and the runtime frame the bridge relays tells it.      *)
(***************************************************************************)
EXTENDS Naturals, Bridge

CONSTANTS
    Interval, Timeout, TTL, Threshold, FallbackEnabled, CallMax, Horizon,
    MaxRecoveryAttempts,
    ESP32Configured     \* cfg.ESP32BaseURL # ""

\* config.go: the fallback needs the bridge.
ASSUME BridgeAssumption ==
    /\ ESP32Configured \in BOOLEAN
    /\ FallbackEnabled => ESP32Configured

VARIABLES
    main,           \* control state of main
    batteryWiFi,    \* the battery is on the WiFi
    \* PollLoop
    loop, timer, ticker, tickReady, callTime, result, missedPolls,
    seenSuccessfulResponse, call, handler, responseCh, up, age, source,
    counted, silent, mqttAge, heard, silentPolls,
    \* Supervisor
    run, recoveryAttempts, recoveryEnabled, recoveryInProgress,
    manualIntervention, triggerCh, checkTick, pollTick, deadline, status,
    wifiConfigured, provisions, unsettled, demand,
    \* both
    ctxDone

P == INSTANCE PollLoop
S == INSTANCE Supervisor

\* What the two components assume of the configuration.
ASSUME ComponentAssumptions == P!ConfigAssumption /\ S!MaxAssumption

pollVars == <<loop, timer, ticker, tickReady, callTime, result, missedPolls,
              seenSuccessfulResponse, call, handler, responseCh, up, age,
              source, counted, silent, mqttAge, heard, silentPolls>>
supVars == <<run, recoveryAttempts, recoveryEnabled, recoveryInProgress,
             manualIntervention, triggerCh, checkTick, pollTick, deadline,
             status, wifiConfigured, provisions, unsettled, demand>>
vars == <<main, batteryWiFi, pollVars, supVars, ctxDone>>

MainLocations == {"connect", "subscribe", "running", "exited", "crashed"}

TypeOK ==
    /\ main \in MainLocations
    /\ batteryWiFi \in BOOLEAN
    /\ P!TypeOK
    /\ S!TypeOK

\* wifiConfigured without a bridge is refused by config.go.
Init ==
    /\ main = "connect"
    /\ batteryWiFi \in BOOLEAN
    /\ P!Init
    /\ S!Init
    /\ wifiConfigured => ESP32Configured

Alive == main \in {"connect", "subscribe", "running"}
-----------------------------------------------------------------------------
(* main *)

\* Connect waits until the broker is there, or ctx is cancelled.
Connected ==
    /\ main = "connect"
    /\ main' = "subscribe"
    /\ UNCHANGED <<batteryWiFi, pollVars, supVars, ctxDone>>

\* Connect is interrupted, or Subscribe fails: main returns.
GiveUp ==
    /\ \/ main = "connect" /\ ctxDone
       \/ main = "subscribe"
    /\ main' = "exited"
    /\ UNCHANGED <<batteryWiFi, pollVars, supVars, ctxDone>>

\* The subscription stands; both goroutines are started.
Start ==
    /\ main = "subscribe"
    /\ main' = "running"
    /\ UNCHANGED <<batteryWiFi, pollVars, supVars, ctxDone>>

\* The HTTP servers are shut down and main returns: the goroutines end where
\* they are.
Exit ==
    /\ main = "running" /\ ctxDone
    /\ main' = "exited"
    /\ UNCHANGED <<batteryWiFi, pollVars, supVars, ctxDone>>

Signal ==
    /\ Alive
    /\ P!Cancel /\ S!Cancel
    /\ UNCHANGED <<main, batteryWiFi>>
-----------------------------------------------------------------------------
(* The MQTT callback, as soon as Subscribe has been called. *)

\* Faulty on purpose: the library runs callbacks concurrently.
OverlappingCallback ==
    /\ main \in {"subscribe", "running"}
    /\ \/ /\ batteryWiFi
          /\ age' = 0 /\ source' = "mqtt" /\ mqttAge' = 0 /\ heard' = TRUE
          /\ handler' = "updated"
          /\ UNCHANGED <<loop, timer, ticker, tickReady, callTime, result,
                         missedPolls, seenSuccessfulResponse, call, responseCh,
                         up, counted, silent, silentPolls>>
       \/ P!PayloadMarkUp
       \/ P!PayloadSignal
    /\ UNCHANGED <<main, batteryWiFi, supVars, ctxDone>>

Callback ==
    /\ main \in {"subscribe", "running"}
    /\ \/ batteryWiFi /\ P!PayloadUpdate
       \/ P!PayloadMarkUp
       \/ P!PayloadSignal
    /\ UNCHANGED <<main, batteryWiFi, supVars, ctxDone>>

PollerStep ==
    /\ main = "running"
    /\ P!PollStep \/ P!NextPoll \/ P!LoopCancelled
    /\ UNCHANGED <<main, batteryWiFi, supVars, ctxDone>>

TimePasses ==
    /\ main = "running"
    /\ P!Tick
    /\ UNCHANGED <<main, batteryWiFi, supVars, ctxDone>>

\* Faulty on purpose: TriggerCheck runs the check in the poll loop.
CallSupervisorInline ==
    /\ \/ call' = "none" /\ UNCHANGED supVars
       \/ call' = "EnableRecovery" /\ S!EnableRecovery
       \/ /\ call' = "TriggerCheck"
          /\ run' = "status" /\ recoveryInProgress' = TRUE
          /\ UNCHANGED <<recoveryAttempts, recoveryEnabled,
                         manualIntervention, triggerCh, checkTick, pollTick,
                         deadline, status, wifiConfigured, provisions,
                         unsettled, demand>>
    /\ UNCHANGED main

\* handleResult.  runPollLoop holds an interface value made from a pointer:
\* it is not nil even when the pointer is, so `supervisor != nil` lets every
\* call through, and EnableRecovery locks a mutex at a nil address.
CallSupervisor ==
    IF ESP32Configured
    THEN /\ \/ call' = "none" /\ UNCHANGED supVars
            \/ call' = "EnableRecovery" /\ S!EnableRecovery
            \/ call' = "TriggerCheck" /\ S!TriggerCheck
         /\ UNCHANGED main
    ELSE /\ main' = IF call' = "none" THEN main ELSE "crashed"
         /\ UNCHANGED supVars

ResultStep ==
    /\ main = "running"
    /\ P!HandleResult
    /\ CallSupervisor
    /\ UNCHANGED <<batteryWiFi, ctxDone>>

-----------------------------------------------------------------------------
(* The supervisor's goroutine. *)

\* A runtime frame relayed by the bridge tells the truth about the WiFi, and
\* the battery's MQTT connection needs it.
Truthful(r) == r.telemetry => r.wifi = batteryWiFi /\ (r.mqtt => r.wifi)

SupervisorStep ==
    /\ main = "running" /\ ESP32Configured
    /\ \/ S!CheckOnTicker \/ S!CheckOnTrigger \/ S!Stop
       \/ \E r \in S!Reply : Truthful(r) /\ (S!StatusReply(r) \/ S!WaitReply(r))
       \/ S!GateStep \/ S!RecoveryStep
       \/ S!CheckTickerFires \/ S!PollTickerFires \/ S!DeadlineFires
    /\ UNCHANGED <<main, pollVars, ctxDone>>
    /\ batteryWiFi' \in
         IF run = "provision" /\ run' = "waitStatus" THEN {batteryWiFi, TRUE}
         ELSE {batteryWiFi}

WiFiChanges ==
    /\ main = "running"
    /\ batteryWiFi' = ~batteryWiFi
    /\ UNCHANGED <<main, pollVars, supVars, ctxDone>>

Ended == ~Alive /\ UNCHANGED vars

Next ==
    \/ Connected \/ GiveUp \/ Start \/ Exit \/ Signal
    \/ Callback \/ PollerStep \/ ResultStep \/ TimePasses
    \/ SupervisorStep \/ WiFiChanges
    \/ Ended

Spec == Init /\ [][Next]_vars
-----------------------------------------------------------------------------
(* Each component, inside the exporter, does only what its own module says:
   what is shown of PollLoop and of Supervisor holds of the exporter. *)

PollLoopSpec == P!Spec

SupervisorSpec == S!Spec

\* The WiFi of the battery is never touched before an MQTT payload of the
\* battery was seen, across the two goroutines (README, "Optional ESP32
\* recovery").
ProvisionNeedsMqtt == run = "provision" => heard

\* config.go: "Empty ESP32BaseURL disables it": without a bridge the exporter
\* just runs.
NoCrash == main # "crashed"
=============================================================================
