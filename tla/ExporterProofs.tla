--------------------------- MODULE ExporterProofs ---------------------------
(***************************************************************************)
(* Theorems about Exporter: each component, inside the whole, takes only   *)
(* the steps of its own module, so what PollLoopProofs and                 *)
(* SupervisorProofs show holds of the exporter; and a property of both     *)
(* together.                                                               *)
(***************************************************************************)
EXTENDS Exporter, TLAPS

-----------------------------------------------------------------------------
(* The poll loop inside the exporter *)

\* A step of the exporter is one of the poll loop, or leaves it alone.
LEMMA PollLoopStep == [Next]_vars => [P!Next]_(P!vars)
<1> SUFFICES ASSUME [Next]_vars PROVE [P!Next]_(P!vars)
  OBVIOUS
<1>1. UNCHANGED <<pollVars, ctxDone>> => UNCHANGED P!vars
  BY DEF pollVars, P!vars, P!loopVars, P!tickVars, P!missVars, P!cacheVars,
         P!envVars, P!ghostVars
<1>2. CASE Connected \/ GiveUp \/ Start \/ Exit \/ SupervisorStep
             \/ WiFiChanges
  BY <1>1, <1>2 DEF Connected, GiveUp, Start, Exit, SupervisorStep, WiFiChanges
<1>3. CASE Signal
  BY <1>3 DEF Signal, P!Next
<1>4. CASE Callback
  BY <1>4 DEF Callback, P!Next, P!HandlerStep
<1>5. CASE PollerStep
  BY <1>5 DEF PollerStep, P!Next, P!LoopStep
<1>6. CASE ResultStep \/ TimePasses
  BY <1>6 DEF ResultStep, TimePasses, P!Next, P!LoopStep
<1>7. CASE Ended \/ UNCHANGED vars
  BY <1>1, <1>7 DEF Ended, vars
<1> QED
  BY <1>2, <1>3, <1>4, <1>5, <1>6, <1>7 DEF Next

\* Inside the exporter the poll loop and the callback do only what PollLoop
\* says (main).
THEOREM PollLoopHolds == Spec => PollLoopSpec
<1>1. Init => P!Init
  BY DEF Init
<1> QED
  BY <1>1, PollLoopStep, PTL DEF Spec, PollLoopSpec, P!Spec

-----------------------------------------------------------------------------
(* The supervisor inside the exporter *)

\* A step of the exporter is one of the supervisor, or leaves it alone.
LEMMA SupervisorNext == [Next]_vars => [S!Next]_(S!vars)
<1> SUFFICES ASSUME [Next]_vars PROVE [S!Next]_(S!vars)
  OBVIOUS
<1>1. UNCHANGED <<supVars, ctxDone>> => UNCHANGED S!vars
  BY DEF supVars, S!vars, S!attempt, S!flags, S!channels, S!history
<1>2. CASE Connected \/ GiveUp \/ Start \/ Exit \/ WiFiChanges
  BY <1>1, <1>2 DEF Connected, GiveUp, Start, Exit, WiFiChanges
<1>3. CASE Callback \/ PollerStep \/ TimePasses
  BY <1>1, <1>3 DEF Callback, PollerStep, TimePasses
<1>4. CASE Signal
  BY <1>4 DEF Signal, S!Next, S!Timers
<1>5. CASE ResultStep
  BY <1>1, <1>5 DEF ResultStep, CallSupervisor, S!Next, S!Calls
<1>6. CASE SupervisorStep
  BY <1>6 DEF SupervisorStep, S!Next, S!RunStep, S!Timers
<1>7. CASE Ended \/ UNCHANGED vars
  BY <1>1, <1>7 DEF Ended, vars
<1> QED
  BY <1>2, <1>3, <1>4, <1>5, <1>6, <1>7 DEF Next

\* Inside the exporter the supervisor does only what Supervisor says (main,
\* handleResult).
THEOREM SupervisorHolds == Spec => SupervisorSpec
<1>1. Init => S!Init
  BY DEF Init
<1> QED
  BY <1>1, SupervisorNext, PTL DEF Spec, SupervisorSpec, S!Spec

-----------------------------------------------------------------------------
(* Both together.  The theorems of PollLoopProofs are about its own instance of
   PollLoop, the same definitions under another name. *)

PP == INSTANCE PollLoopProofs

\* The two instances of PollLoop have the same variables.
LEMMA SameVars == P!vars = PP!vars
BY DEF P!vars, P!loopVars, P!tickVars, P!missVars, P!cacheVars, P!envVars,
       P!ghostVars, PP!vars, PP!loopVars, PP!tickVars, PP!missVars,
       PP!cacheVars, PP!envVars, PP!ghostVars

\* They have the same steps.
LEMMA SameNext == [P!Next]_(P!vars) => [PP!Next]_(PP!vars)
<1> SUFFICES ASSUME [P!Next]_(P!vars) PROVE [PP!Next]_(PP!vars)
  OBVIOUS
<1> USE DEF P!loopVars, P!tickVars, P!missVars, P!cacheVars, P!envVars,
            P!ghostVars, PP!loopVars, PP!tickVars, PP!missVars, PP!cacheVars,
            PP!envVars, PP!ghostVars
<1>1. P!HandlerStep => PP!HandlerStep
  BY DEF P!HandlerStep, P!PayloadUpdate, P!PayloadMarkUp, P!PayloadSignal,
         PP!HandlerStep, PP!PayloadUpdate, PP!PayloadMarkUp, PP!PayloadSignal
<1>2. P!PollStep => PP!PollStep
  <2>1. P!BeginPoll => PP!BeginPoll
    BY DEF P!BeginPoll, PP!BeginPoll
  <2>2. P!PublishFails => PP!PublishFails
    BY DEF P!PublishFails, PP!PublishFails
  <2>3. P!PublishSucceeds => PP!PublishSucceeds
    BY DEF P!PublishSucceeds, PP!PublishSucceeds
  <2>4. P!Responded => PP!Responded
    BY DEF P!Responded, PP!Responded
  <2>5. P!TimerFires => PP!TimerFires
    BY DEF P!TimerFires, PP!TimerFires
  <2>6. P!AwaitCancelled => PP!AwaitCancelled
    BY DEF P!AwaitCancelled, PP!AwaitCancelled
  <2>7. P!ForgiveTimeout => PP!ForgiveTimeout
    BY DEF P!ForgiveTimeout, P!HasFreshPayload, P!Window,
           PP!ForgiveTimeout, PP!HasFreshPayload, PP!Window
  <2>8. P!NoFreshPayload => PP!NoFreshPayload
    BY DEF P!NoFreshPayload, P!HasFreshPayload, P!Window,
           PP!NoFreshPayload, PP!HasFreshPayload, PP!Window
  <2>9. P!Replies = PP!Replies
    BY DEF P!Replies, P!StatusError, P!StatusNoBLE, P!StatusSilent,
           P!StatusAnswered, PP!Replies, PP!StatusError, PP!StatusNoBLE,
           PP!StatusSilent, PP!StatusAnswered
  <2>10. P!FallbackApplies => PP!FallbackApplies
    BY <2>9 DEF P!FallbackApplies, P!Usable, PP!FallbackApplies, PP!Usable
  <2>11. P!FallbackFails => PP!FallbackFails
    BY <2>9 DEF P!FallbackFails, P!Usable, PP!FallbackFails, PP!Usable
  <2>12. P!TimeOut => PP!TimeOut
    BY DEF P!TimeOut, PP!TimeOut
  <2> QED
    BY <2>1, <2>2, <2>3, <2>4, <2>5, <2>6, <2>7, <2>8, <2>10, <2>11, <2>12
    DEF P!PollStep, PP!PollStep
<1>3. P!HandleResult => PP!HandleResult
  BY DEF P!HandleResult, P!HandleHealthy, P!HandleUnhealthy, P!ResultHandled,
         P!CountSilence, P!MissedPolls, P!ThresholdReached, P!Window,
         P!IsHealthyPollResult, PP!HandleResult, PP!HandleHealthy,
         PP!HandleUnhealthy, PP!ResultHandled, PP!CountSilence,
         PP!MissedPolls, PP!ThresholdReached, PP!Window,
         PP!IsHealthyPollResult
<1>4. P!NextPoll \/ P!LoopCancelled => PP!NextPoll \/ PP!LoopCancelled
  BY DEF P!NextPoll, P!LoopCancelled, PP!NextPoll, PP!LoopCancelled
<1>5. P!Tick => PP!Tick
  BY DEF P!Tick, P!Quiet, P!Older, P!TickerLeft, PP!Tick, PP!Quiet, PP!Older,
         PP!TickerLeft
<1>6. P!GoSilent \/ P!Cancel \/ P!Terminated
        => PP!GoSilent \/ PP!Cancel \/ PP!Terminated
  BY SameVars DEF P!GoSilent, P!Cancel, P!Terminated, PP!GoSilent, PP!Cancel,
                  PP!Terminated, P!vars, PP!vars
<1> QED
  BY <1>1, <1>2, <1>3, <1>4, <1>5, <1>6, SameVars
  DEF P!Next, P!LoopStep, PP!Next, PP!LoopStep, P!vars, PP!vars

\* So the exporter is a behaviour of the instance the theorems are about.
LEMMA PollLoopImplements == Spec => PP!Spec
<1>1. Init => PP!Init
  BY DEF Init, P!Init, PP!Init
<1> QED
  BY <1>1, PollLoopStep, SameNext, PTL DEF Spec, PP!Spec

\* What the exporter assumes of its configuration is what they assume.
LEMMA PollLoopAssumed == PP!ConfigAssumption
BY ComponentAssumptions
DEF P!ConfigAssumption, P!UpBound, P!Window, PP!ConfigAssumption, PP!UpBound,
    PP!Window

\* The supervisor's permission comes from a healthy result, and a recovery from
\* the permission; neither is taken back.
Gate ==
    /\ recoveryEnabled => seenSuccessfulResponse
    /\ run = "provision" => recoveryEnabled

\* Every step keeps the gate.
LEMMA GateStep == Gate /\ [Next]_vars => Gate'
<1> SUFFICES ASSUME Gate, [Next]_vars PROVE Gate'
  OBVIOUS
<1> USE DEF Gate
<1>1. seenSuccessfulResponse => seenSuccessfulResponse'
  <2>1. [P!Next]_(P!vars)
    BY PollLoopStep
  <2> QED
    BY <2>1
    DEF P!Next, P!HandlerStep, P!PayloadUpdate, P!PayloadMarkUp,
        P!PayloadSignal, P!LoopStep, P!PollStep, P!BeginPoll, P!PublishFails,
        P!PublishSucceeds, P!Responded, P!TimerFires, P!AwaitCancelled,
        P!ForgiveTimeout, P!NoFreshPayload, P!FallbackApplies,
        P!FallbackFails, P!TimeOut, P!HandleResult, P!HandleHealthy,
        P!HandleUnhealthy, P!NextPoll, P!LoopCancelled, P!Tick, P!GoSilent,
        P!Cancel, P!Terminated, P!vars, P!missVars
<1>2. CASE UNCHANGED <<recoveryEnabled, run>>
  BY <1>1, <1>2
<1>3. CASE ResultStep
  <2>1. CASE call' = "EnableRecovery" /\ S!EnableRecovery
    <3>1. seenSuccessfulResponse'
      BY <1>3, <2>1 DEF ResultStep, P!HandleResult, P!HandleHealthy,
                        P!HandleUnhealthy
    <3> QED
      BY <2>1, <3>1 DEF S!EnableRecovery
  <2>2. CASE UNCHANGED supVars \/ S!TriggerCheck
    BY <1>2, <2>2 DEF supVars, S!TriggerCheck, S!flags
  <2> QED
    BY <1>3, <2>1, <2>2 DEF ResultStep, CallSupervisor
<1>4. CASE SupervisorStep
  <2>1. UNCHANGED recoveryEnabled
    BY <1>4
    DEF SupervisorStep, S!CheckOnTicker, S!CheckOnTrigger, S!Stop,
        S!StatusReply, S!StatusFails, S!StatusHealthy, S!StatusNoRemedy,
        S!StatusWiFiDown, S!WaitReply, S!WaitReady, S!WaitNotReady,
        S!GateStep, S!ColdStart, S!Refuse, S!Reserve, S!RecoveryStep,
        S!ProvisionFails, S!ProvisionAccepted, S!WaitPollTick,
        S!WaitDeadline, S!WaitCancelled, S!CheckTickerFires,
        S!PollTickerFires, S!DeadlineFires, S!flags
  <2>2. run' = "provision" => run = "provision" \/ recoveryEnabled
    BY <1>4
    DEF SupervisorStep, S!CheckOnTicker, S!CheckOnTrigger, S!Stop,
        S!BeginCheck, S!EndCheck, S!StatusReply, S!StatusFails,
        S!StatusHealthy, S!StatusNoRemedy, S!StatusWiFiDown, S!WaitReply,
        S!WaitReady, S!WaitNotReady, S!GateStep, S!ColdStart, S!Refuse,
        S!Reserve, S!RecoveryStep, S!RecoveryFails, S!ProvisionFails,
        S!ProvisionAccepted, S!WaitPollTick, S!WaitDeadline,
        S!WaitCancelled, S!CheckTickerFires, S!PollTickerFires,
        S!DeadlineFires
  <2> QED
    BY <1>1, <2>1, <2>2
<1>5. CASE Connected \/ GiveUp \/ Start \/ Exit \/ Callback \/ PollerStep
             \/ TimePasses \/ WiFiChanges
  BY <1>2, <1>5 DEF Connected, GiveUp, Start, Exit, Callback, PollerStep,
                    TimePasses, WiFiChanges, supVars
<1>6. CASE Signal
  BY <1>2, <1>6 DEF Signal, S!Cancel
<1>7. CASE Ended \/ UNCHANGED vars
  BY <1>2, <1>7 DEF Ended, vars, supVars
<1> QED
  BY <1>3, <1>4, <1>5, <1>6, <1>7 DEF Next

\* Without the fallback the battery's WiFi is never touched before a payload of
\* it was seen: the result of one goroutine gates the other (handleResult,
\* Check).
THEOREM ProvisionAfterMqtt ==
    ASSUME ~FallbackEnabled PROVE Spec => []ProvisionNeedsMqtt
<1>1. Init => Gate
  BY DEF Init, S!Init, Gate
<1>2. PP!Spec => [](PP!MqttOnly /\ PP!RecoveryNeedsMqtt)
  BY PollLoopAssumed, PP!RecoveryAfterMqtt
<1>3. Gate /\ PP!RecoveryNeedsMqtt => ProvisionNeedsMqtt
  BY DEF Gate, PP!RecoveryNeedsMqtt, ProvisionNeedsMqtt
<1> QED
  BY <1>1, <1>2, <1>3, PollLoopImplements, GateStep, PTL DEF Spec

-----------------------------------------------------------------------------
(* The supervisor's theorems, in the same way. *)

SP == INSTANCE SupervisorProofs

\* The two instances of Supervisor have the same variables.
LEMMA SameSupervisorVars == S!vars = SP!vars
BY DEF S!vars, S!attempt, S!flags, S!channels, S!history, SP!vars, SP!attempt,
       SP!flags, SP!channels, SP!history

\* They know the same replies of the bridge.
LEMMA SameReplies ==
    /\ S!Replies = SP!Replies /\ S!Reply = SP!Reply
    /\ S!StatusError = SP!StatusError
BY DEF S!Replies, S!Reply, S!StatusError, S!StatusNoBLE, S!StatusSilent,
       S!StatusAnswered, SP!Replies, SP!Reply, SP!StatusError,
       SP!StatusNoBLE, SP!StatusSilent, SP!StatusAnswered

\* They have the same steps.
LEMMA SameSupervisorNext == [S!Next]_(S!vars) => [SP!Next]_(SP!vars)
<1> SUFFICES ASSUME [S!Next]_(S!vars) PROVE [SP!Next]_(SP!vars)
  OBVIOUS
<1> USE DEF S!attempt, S!flags, S!channels, S!history, SP!attempt, SP!flags,
            SP!channels, SP!history
<1>1. S!Calls => SP!Calls
  BY DEF S!Calls, S!TriggerCheck, S!EnableRecovery, SP!Calls, SP!TriggerCheck,
         SP!EnableRecovery
<1>2. S!Timers => SP!Timers
  BY DEF S!Timers, S!CheckTickerFires, S!PollTickerFires, S!DeadlineFires,
         S!Cancel, S!Waiting, SP!Timers, SP!CheckTickerFires,
         SP!PollTickerFires, SP!DeadlineFires, SP!Cancel, SP!Waiting
<1>3. S!CheckOnTicker \/ S!CheckOnTrigger \/ S!Stop
        => SP!CheckOnTicker \/ SP!CheckOnTrigger \/ SP!Stop
  BY DEF S!CheckOnTicker, S!CheckOnTrigger, S!Stop, S!BeginCheck,
         SP!CheckOnTicker, SP!CheckOnTrigger, SP!Stop, SP!BeginCheck
<1>4. ASSUME NEW r \in S!Reply, S!StatusReply(r)
      PROVE  SP!StatusReply(r)
  BY <1>4
  DEF S!StatusReply, S!StatusFails, S!StatusHealthy, S!StatusNoRemedy,
      S!StatusWiFiDown, S!NeedsWiFi, S!Healthy, S!ResetAttempts, S!EndCheck,
      SP!StatusReply, SP!StatusFails, SP!StatusHealthy, SP!StatusNoRemedy,
      SP!StatusWiFiDown, SP!NeedsWiFi, SP!Healthy, SP!ResetAttempts,
      SP!EndCheck
<1>5. ASSUME NEW r \in S!Reply, S!WaitReply(r)
      PROVE  SP!WaitReply(r)
  BY <1>5
  DEF S!WaitReply, S!WaitReady, S!WaitNotReady, S!Ready, S!ResetAttempts,
      S!EndCheck, SP!WaitReply, SP!WaitReady, SP!WaitNotReady, SP!Ready,
      SP!ResetAttempts, SP!EndCheck
<1>6. S!GateStep => SP!GateStep
  BY DEF S!GateStep, S!ColdStart, S!Refuse, S!Reserve, S!Exhausted, S!EndCheck,
         SP!GateStep, SP!ColdStart, SP!Refuse, SP!Reserve, SP!Exhausted,
         SP!EndCheck
<1>7. S!RecoveryStep => SP!RecoveryStep
  BY DEF S!RecoveryStep, S!ProvisionFails, S!ProvisionAccepted,
         S!WaitPollTick, S!WaitDeadline, S!WaitCancelled, S!RecoveryFails,
         S!EndCheck, SP!RecoveryStep, SP!ProvisionFails,
         SP!ProvisionAccepted, SP!WaitPollTick, SP!WaitDeadline,
         SP!WaitCancelled, SP!RecoveryFails, SP!EndCheck
<1>8. S!Terminated \/ UNCHANGED S!vars => SP!Terminated \/ UNCHANGED SP!vars
  BY SameSupervisorVars DEF S!Terminated, S!vars, SP!Terminated, SP!vars
<1> QED
  BY <1>1, <1>2, <1>3, <1>4, <1>5, <1>6, <1>7, <1>8, SameReplies
  DEF S!Next, S!RunStep, SP!Next, SP!RunStep

\* So the exporter is a behaviour of the instance the theorems are about.
LEMMA SupervisorImplements == Spec => SP!Spec
<1>1. Init => SP!Init
  BY SameReplies DEF Init, S!Init, SP!Init
<1> QED
  BY <1>1, SupervisorNext, SameSupervisorNext, PTL DEF Spec, SP!Spec

\* Every variable of the exporter keeps its type.
THEOREM TypeCorrect == Spec => []TypeOK
<1> DEFINE Main == main \in MainLocations /\ batteryWiFi \in BOOLEAN
<1>1. Init => Main
  BY DEF Init, MainLocations
<1>2. Main /\ [Next]_vars => Main'
  <2> SUFFICES ASSUME Main, [Next]_vars PROVE Main'
    OBVIOUS
  <2>1. main' \in MainLocations
    BY DEF Next, Connected, GiveUp, Start, Exit, Signal, Callback, PollerStep,
           ResultStep, CallSupervisor, TimePasses, SupervisorStep,
           WiFiChanges, Ended, vars, MainLocations
  <2>2. batteryWiFi' \in BOOLEAN
    BY DEF Next, Connected, GiveUp, Start, Exit, Signal, Callback, PollerStep,
           ResultStep, CallSupervisor, TimePasses, SupervisorStep,
           WiFiChanges, Ended, vars
  <2> QED
    BY <2>1, <2>2
<1>3. PP!Spec => []PP!TypeOK
  BY PollLoopAssumed, PP!TypeCorrect
<1>4. PP!TypeOK => P!TypeOK
  BY DEF PP!TypeOK, PP!Locations, PP!Results, PP!Counters, P!TypeOK,
         P!Locations, P!Results, P!Counters
<1>5. SP!Spec => []SP!TypeOK
  BY ComponentAssumptions, SP!TypeCorrect DEF S!MaxAssumption, SP!MaxAssumption
<1>6. SP!TypeOK => S!TypeOK
  BY SameReplies DEF S!TypeOK, S!Locations, S!Checking, S!Recovering, S!Waiting,
                     SP!TypeOK, SP!Locations, SP!Checking, SP!Recovering,
                     SP!Waiting
<1>7. Main /\ P!TypeOK /\ S!TypeOK => TypeOK
  BY DEF TypeOK
<1> QED
  BY <1>1, <1>2, <1>3, <1>4, <1>5, <1>6, <1>7, PollLoopImplements,
     SupervisorImplements, PTL DEF Spec

-----------------------------------------------------------------------------
(* What the two components promise, kept by the whole. *)

\* The poll loop's promises, whatever main, the supervisor and the battery's
\* WiFi do meanwhile (runPoll, handleDevicePayload).
PollPromises == P!UpIsBacked /\ P!UpMeansExported /\ P!AnswerIsRecent

\* The supervisor's promises, although the poll loop's goroutine calls into it
\* and its environment is the battery itself (Check, recoveryAllowed).
RecoveryPromises ==
    S!AttemptBudget /\ S!AttemptsSettled /\ S!FlagMeansSpent /\ S!NoLostTrigger

\* In the running exporter marstek_up = 1 is backed by recent MQTT telemetry and
\* comes with gauges, an outage of the WiFi gets no more than the configured
\* attempts, the flag says when they are spent, and no trigger of handleResult
\* is lost.
THEOREM PromisesKept == Spec => [](PollPromises /\ RecoveryPromises)
<1>1. PP!Spec => [](PP!UpIsBacked /\ PP!UpMeansExported /\ PP!AnswerIsRecent)
  BY PollLoopAssumed, PP!UpBacked, PP!UpExported, PP!AnsweredInTime, PTL
<1>2. PP!UpIsBacked /\ PP!UpMeansExported /\ PP!AnswerIsRecent => PollPromises
  BY DEF PollPromises, PP!UpIsBacked, PP!UpMeansExported, PP!AnswerIsRecent,
         PP!UpBound, PP!Window, P!UpIsBacked, P!UpMeansExported,
         P!AnswerIsRecent, P!UpBound, P!Window
<1>3. SP!MaxAssumption
  BY ComponentAssumptions DEF S!MaxAssumption, SP!MaxAssumption
<1>4. SP!Spec => [](/\ SP!AttemptBudget /\ SP!AttemptsSettled
                    /\ SP!FlagMeansSpent /\ SP!NoLostTrigger)
  BY <1>3, SP!BudgetKept, SP!SettledOnce, SP!FlagExact, SP!TriggerKept, PTL
<1>5. /\ SP!AttemptBudget /\ SP!AttemptsSettled
      /\ SP!FlagMeansSpent /\ SP!NoLostTrigger
      => RecoveryPromises
  BY DEF RecoveryPromises, SP!AttemptBudget, SP!AttemptsSettled,
         SP!FlagMeansSpent, SP!NoLostTrigger, S!AttemptBudget,
         S!AttemptsSettled, S!FlagMeansSpent, S!NoLostTrigger, S!Recovering,
         S!Waiting, SP!Recovering, SP!Waiting
<1> QED
  BY <1>1, <1>2, <1>4, <1>5, PollLoopImplements, SupervisorImplements, PTL

\* In the running exporter, too, nothing is provisioned while human intervention
\* is required, whatever the poll loop calls for, and only a healthy status of a
\* check takes the flag down (Check, recoveryAllowed).
THEOREM LatchKept == Spec => S!ManualLatch
<1> DEFINE Held == manualIntervention =>
                     /\ provisions' <= provisions
                     /\ ~manualIntervention' =>
                          run = "status" /\ S!Healthy(status')
<1>1. SP!MaxAssumption
  BY ComponentAssumptions DEF S!MaxAssumption, SP!MaxAssumption
<1>2. SP!Spec => SP!ManualLatch
  BY <1>1, SP!LatchHolds, PTL
<1>3. [SP!Latch]_(SP!vars) => [Held]_(S!vars)
  <2>1. UNCHANGED SP!vars => UNCHANGED S!vars
    BY DEF S!vars, S!attempt, S!flags, S!channels, S!history, SP!vars,
           SP!attempt, SP!flags, SP!channels, SP!history
  <2> QED
    BY <2>1 DEF SP!Latch, SP!Healthy, S!Healthy
<1> QED
  BY <1>2, <1>3, SupervisorImplements, PTL
  DEF S!ManualLatch, SP!ManualLatch, SP!Latch
=============================================================================
