------------------------------ MODULE Session -------------------------------
(***************************************************************************)
(* The poll loop of main.go on the MQTT session of mqtt/client.go.         *)
(*                                                                         *)
(* PollLoop takes its environment as it comes: a publish may fail, a       *)
(* payload may arrive at any time, the battery may go silent for good.     *)
(* Here the session decides: a poll is a command if the connection is up,  *)
(* the battery answers commands that reach it, its answer is delivered if  *)
(* the broker knows the subscription.  What PollLoop calls a silent        *)
(* battery is a lost subscription (Lost).                                  *)
(***************************************************************************)
EXTENDS Naturals

CONSTANTS Interval, Timeout, TTL, Threshold, FallbackEnabled, CallMax, Horizon

VARIABLES
    \* MqttSession
    main, conn, subscribed, command,
    \* PollLoop
    loop, timer, ticker, tickReady, callTime, result, missedPolls,
    seenSuccessfulResponse, call, handler, responseCh, up, age, source,
    counted, ctxDone, mqttAge, heard, silentPolls

\* Subscribe is called once, so a subscription that is gone does not return.
Lost == main \in {"poll", "end"} /\ ~subscribed

M == INSTANCE MqttSession
P == INSTANCE PollLoop WITH silent <- Lost

ASSUME PollAssumption == P!ConfigAssumption

loopVars == <<loop, timer, ticker, tickReady, callTime, result, missedPolls,
              seenSuccessfulResponse, call, handler, responseCh, up, age,
              source, counted, mqttAge, heard, silentPolls>>
sessionVars == <<main, conn, subscribed, command>>
vars == <<sessionVars, loopVars, ctxDone>>

TypeOK == M!TypeOK /\ P!TypeOK

Init == M!Init /\ P!Init
-----------------------------------------------------------------------------
(* main, and Paho beside it. *)

ConnectionStep ==
    /\ M!Connected \/ M!ConnectionLost
    /\ main # "end"
    /\ UNCHANGED <<loopVars, ctxDone>>

StartStep ==
    /\ M!Connect \/ M!Subscribe \/ M!SubscribeFails
    /\ UNCHANGED <<loopVars, ctxDone>>

\* ctx ends a Connect, but not a Subscribe; from the poll loop main goes on to
\* Close.
ExitStep ==
    /\ ctxDone
    /\ M!ConnectCancelled \/ M!Close
    /\ UNCHANGED <<loopVars, ctxDone>>

Signal ==
    /\ main # "end" /\ ~ctxDone
    /\ ctxDone' = TRUE
    /\ UNCHANGED <<sessionVars, loopVars>>
-----------------------------------------------------------------------------
(* The battery, and the callback Paho makes for each message delivered. *)

Deliver == subscribed /\ M!Publish /\ P!PayloadUpdate

BatteryPublishes ==
    /\ main # "end"
    /\ \/ Deliver
       \/ ~subscribed /\ M!Publish /\ UNCHANGED <<loopVars, ctxDone>>

Answer == command /\ BatteryPublishes

CallbackGoesOn ==
    /\ main # "end"
    /\ UNCHANGED sessionVars
    /\ P!PayloadMarkUp \/ P!PayloadSignal
-----------------------------------------------------------------------------
(* The poll loop. *)

Publishes ==
    \/ M!Poll /\ P!PublishSucceeds
    \/ M!PollFails /\ P!PublishFails

LoopGoesOn ==
    /\ main = "poll"
    /\ UNCHANGED sessionVars
    /\ \/ P!BeginPoll \/ P!Responded \/ P!TimerFires \/ P!AwaitCancelled
       \/ P!ForgiveTimeout \/ P!NoFreshPayload
       \/ P!FallbackApplies \/ P!FallbackFails \/ P!TimeOut
       \/ P!HandleResult \/ P!NextPoll \/ P!LoopCancelled

LoopStep == Publishes \/ LoopGoesOn

TimePasses == main = "poll" /\ UNCHANGED sessionVars /\ P!Tick

Ended == main = "end" /\ UNCHANGED vars

Next ==
    \/ ConnectionStep \/ StartStep \/ ExitStep \/ Signal
    \/ BatteryPublishes \/ CallbackGoesOn
    \/ LoopStep \/ TimePasses
    \/ Ended

\* As in PollLoop, Paho retries for ever, main goes on, and the battery answers
\* every command that reaches it.
Fairness ==
    /\ WF_vars(M!Connected /\ ConnectionStep)
    /\ WF_vars(StartStep)
    /\ WF_vars(Answer)
    /\ WF_vars(CallbackGoesOn) /\ WF_vars(LoopStep) /\ SF_vars(TimePasses)

Spec == Init /\ [][Next]_vars /\ Fairness
-----------------------------------------------------------------------------
\* The session is one of the environments PollLoop allows for: to the poll
\* loop a lost subscription is a battery that has gone silent for good, and
\* what holds of PollLoop holds here (client.go: clean session, one Subscribe).
PollLoopSpec == P!Spec

\* marstek_up = 1 is backed by MQTT, whatever the session and the fallback do.
UpIsBacked == P!UpIsBacked

\* A subscription that stays on a connection that stays keeps the battery up:
\* however late its answers, marstek_up is 1 again and again.
SessionKeepsUp ==
    <>[](main = "poll" /\ conn = "up" /\ subscribed /\ ~ctxDone) => []<>up

\* A lost subscription shows: while the exporter runs on, polling with success
\* and refreshing the gauges from the bridge, marstek_up goes to 0 and stays.
LossShows == Lost ~> ([](~up) \/ ctxDone)

\* README: "Automatic reconnection to the broker is handled by the Paho MQTT
\* client": once the connection stays up, the battery is seen to be up again.
UpAfterReconnect ==
    <>[](main = "poll" /\ conn = "up" /\ ~ctxDone) => []<>up
=============================================================================
