--------------------------- MODULE SessionProofs ----------------------------
(***************************************************************************)
(* Theorems about Session: the session is one of the environments that     *)
(* PollLoop allows for, so what PollLoopProofs shows of the poll loop holds *)
(* on a real session, which forgets its subscription with its connection.  *)
(***************************************************************************)
EXTENDS Session, TLAPS

-----------------------------------------------------------------------------
(* A subscription that is gone does not return. *)

\* What leaves the poll loop and its subscription alone is a stutter of
\* PollLoop.
LEMMA Unchanged ==
    UNCHANGED <<loopVars, ctxDone>> /\ Lost' = Lost => UNCHANGED P!vars
BY DEF loopVars, P!vars, P!loopVars, P!tickVars, P!missVars, P!cacheVars,
       P!envVars, P!ghostVars

\* The loss of the subscription is PollLoop's silent battery.
LEMMA Silenced ==
    UNCHANGED <<loopVars, ctxDone>> /\ ~Lost /\ Lost' => P!GoSilent
BY DEF loopVars, Lost, P!GoSilent, P!loopVars, P!tickVars, P!missVars,
       P!cacheVars, P!envVars, P!ghostVars

\* What main and the connection do is one or the other.
LEMMA MainSteps ==
    ASSUME ConnectionStep \/ StartStep \/ ExitStep
    PROVE  P!GoSilent \/ UNCHANGED P!vars
<1>1. UNCHANGED <<loopVars, ctxDone>>
  BY DEF ConnectionStep, StartStep, ExitStep
<1>2. Lost => Lost'
  BY DEF ConnectionStep, StartStep, ExitStep, Lost, M!Connected,
         M!ConnectionLost, M!Connect, M!Subscribe, M!SubscribeFails,
         M!ConnectCancelled, M!Close
<1>3. CASE Lost
  BY <1>1, <1>2, <1>3, Unchanged DEF Lost
<1>4. CASE ~Lost /\ Lost'
  BY <1>1, <1>4, Silenced
<1>5. CASE ~Lost /\ ~Lost'
  BY <1>1, <1>5, Unchanged DEF Lost
<1> QED
  BY <1>3, <1>4, <1>5

\* A step on the session is one of PollLoop, or leaves it alone.
LEMMA PollLoopStep == [Next]_vars => [P!Next]_(P!vars)
<1> SUFFICES ASSUME [Next]_vars PROVE [P!Next]_(P!vars)
  OBVIOUS
<1>1. UNCHANGED sessionVars => Lost' = Lost
  BY DEF sessionVars, Lost
<1>2. CASE ConnectionStep \/ StartStep \/ ExitStep
  BY <1>2, MainSteps DEF P!Next
<1>3. CASE Signal
  <2>1. P!Cancel
    BY <1>1, <1>3
    DEF Signal, loopVars, P!Cancel, P!loopVars, P!tickVars, P!missVars,
        P!cacheVars, P!ghostVars
  <2> QED
    BY <2>1 DEF P!Next
<1>4. CASE BatteryPublishes
  <2>1. CASE Deliver
    BY <2>1 DEF Deliver, P!Next, P!HandlerStep
  <2>2. CASE M!Publish /\ UNCHANGED <<loopVars, ctxDone>>
    BY <2>2, Unchanged DEF M!Publish, Lost
  <2> QED
    BY <1>4, <2>1, <2>2 DEF BatteryPublishes
<1>5. CASE CallbackGoesOn \/ TimePasses
  BY <1>5 DEF CallbackGoesOn, TimePasses, P!Next, P!HandlerStep
<1>6. CASE LoopStep
  BY <1>6 DEF LoopStep, Publishes, LoopGoesOn, P!Next, P!LoopStep, P!PollStep
<1>7. CASE Ended \/ UNCHANGED vars
  BY <1>1, <1>7, Unchanged DEF Ended, vars
<1> QED
  BY <1>2, <1>3, <1>4, <1>5, <1>6, <1>7 DEF Next

\* On its session the poll loop does only what PollLoop says, with a lost
\* subscription for a battery that has gone silent for good (client.go).
THEOREM SessionImplements == Spec => PollLoopSpec
<1>1. Init => P!Init
  BY DEF Init
<1> QED
  BY <1>1, PollLoopStep, PTL DEF Spec, PollLoopSpec, P!Spec

-----------------------------------------------------------------------------
(* What PollLoopProofs shows, about its own instance of PollLoop: the same
   definitions under another name. *)

PP == INSTANCE PollLoopProofs WITH silent <- Lost

\* The two instances of PollLoop have the same variables.
LEMMA SameVars == P!vars = PP!vars
BY DEF P!vars, P!loopVars, P!tickVars, P!missVars, P!cacheVars, P!envVars,
       P!ghostVars, PP!vars, PP!loopVars, PP!tickVars, PP!missVars,
       PP!cacheVars, PP!envVars, PP!ghostVars

\* They have the same steps.
LEMMA SameNext == [P!Next]_(P!vars) => [PP!Next]_(PP!vars)
<1> SUFFICES ASSUME [P!Next]_(P!vars) PROVE [PP!Next]_(PP!vars)
  OBVIOUS
<1> USE DEF P!loopVars, P!tickVars, P!missVars, P!cacheVars, P!envVars,
            P!ghostVars, PP!loopVars, PP!tickVars, PP!missVars, PP!cacheVars,
            PP!envVars, PP!ghostVars
<1>1. P!HandlerStep => PP!HandlerStep
  BY DEF P!HandlerStep, P!PayloadUpdate, P!PayloadMarkUp, P!PayloadSignal,
         PP!HandlerStep, PP!PayloadUpdate, PP!PayloadMarkUp, PP!PayloadSignal
<1>2. P!PollStep => PP!PollStep
  <2>1. P!BeginPoll => PP!BeginPoll
    BY DEF P!BeginPoll, PP!BeginPoll
  <2>2. P!PublishFails => PP!PublishFails
    BY DEF P!PublishFails, PP!PublishFails
  <2>3. P!PublishSucceeds => PP!PublishSucceeds
    BY DEF P!PublishSucceeds, PP!PublishSucceeds
  <2>4. P!Responded => PP!Responded
    BY DEF P!Responded, PP!Responded
  <2>5. P!TimerFires => PP!TimerFires
    BY DEF P!TimerFires, PP!TimerFires
  <2>6. P!AwaitCancelled => PP!AwaitCancelled
    BY DEF P!AwaitCancelled, PP!AwaitCancelled
  <2>7. P!ForgiveTimeout => PP!ForgiveTimeout
    BY DEF P!ForgiveTimeout, P!HasFreshPayload, P!Window,
           PP!ForgiveTimeout, PP!HasFreshPayload, PP!Window
  <2>8. P!NoFreshPayload => PP!NoFreshPayload
    BY DEF P!NoFreshPayload, P!HasFreshPayload, P!Window,
           PP!NoFreshPayload, PP!HasFreshPayload, PP!Window
  <2>9. P!Replies = PP!Replies
    BY DEF P!Replies, P!StatusError, P!StatusNoBLE, P!StatusSilent,
           P!StatusAnswered, PP!Replies, PP!StatusError, PP!StatusNoBLE,
           PP!StatusSilent, PP!StatusAnswered
  <2>10. P!FallbackApplies => PP!FallbackApplies
    BY <2>9 DEF P!FallbackApplies, P!Usable, PP!FallbackApplies, PP!Usable
  <2>11. P!FallbackFails => PP!FallbackFails
    BY <2>9 DEF P!FallbackFails, P!Usable, PP!FallbackFails, PP!Usable
  <2>12. P!TimeOut => PP!TimeOut
    BY DEF P!TimeOut, PP!TimeOut
  <2> QED
    BY <2>1, <2>2, <2>3, <2>4, <2>5, <2>6, <2>7, <2>8, <2>10, <2>11, <2>12
    DEF P!PollStep, PP!PollStep
<1>3. P!HandleResult => PP!HandleResult
  BY DEF P!HandleResult, P!HandleHealthy, P!HandleUnhealthy, P!ResultHandled,
         P!CountSilence, P!MissedPolls, P!ThresholdReached, P!Window,
         P!IsHealthyPollResult, PP!HandleResult, PP!HandleHealthy,
         PP!HandleUnhealthy, PP!ResultHandled, PP!CountSilence,
         PP!MissedPolls, PP!ThresholdReached, PP!Window,
         PP!IsHealthyPollResult
<1>4. P!NextPoll \/ P!LoopCancelled => PP!NextPoll \/ PP!LoopCancelled
  BY DEF P!NextPoll, P!LoopCancelled, PP!NextPoll, PP!LoopCancelled
<1>5. P!Tick => PP!Tick
  BY DEF P!Tick, P!Quiet, P!Older, P!TickerLeft, PP!Tick, PP!Quiet, PP!Older,
         PP!TickerLeft
<1>6. P!GoSilent \/ P!Cancel \/ P!Terminated
        => PP!GoSilent \/ PP!Cancel \/ PP!Terminated
  BY SameVars DEF P!GoSilent, P!Cancel, P!Terminated, PP!GoSilent, PP!Cancel,
                  PP!Terminated, P!vars, PP!vars
<1> QED
  BY <1>1, <1>2, <1>3, <1>4, <1>5, <1>6, SameVars
  DEF P!Next, P!LoopStep, PP!Next, PP!LoopStep, P!vars, PP!vars

\* So a behaviour of the session is one of the instance the theorems are
\* about.
LEMMA Implements == Spec => PP!Spec
<1>1. Init => PP!Init
  BY DEF Init, P!Init, PP!Init
<1> QED
  BY <1>1, PollLoopStep, SameNext, PTL DEF Spec, PP!Spec

\* What the session assumes of its configuration is what they assume.
LEMMA Assumed == PP!ConfigAssumption
BY PollAssumption
DEF P!ConfigAssumption, P!UpBound, P!Window, PP!ConfigAssumption, PP!UpBound,
    PP!Window

\* Every variable keeps its type.
THEOREM TypeCorrect == Spec => []TypeOK
<1>1. Init => M!TypeOK
  BY DEF Init, M!Init, M!TypeOK
<1>2. M!TypeOK /\ [Next]_vars => M!TypeOK'
  <2> SUFFICES ASSUME M!TypeOK, [Next]_vars PROVE M!TypeOK'
    OBVIOUS
  <2>1. CASE UNCHANGED sessionVars
    BY <2>1 DEF sessionVars, M!TypeOK
  <2>2. CASE ConnectionStep \/ StartStep \/ ExitStep
    BY <2>2 DEF ConnectionStep, StartStep, ExitStep, M!Connected,
                M!ConnectionLost, M!Connect, M!Subscribe, M!SubscribeFails,
                M!ConnectCancelled, M!Close, M!TypeOK
  <2>3. CASE BatteryPublishes
    BY <2>3 DEF BatteryPublishes, Deliver, M!Publish, M!TypeOK
  <2>4. CASE Publishes
    BY <2>4 DEF Publishes, M!Poll, M!PollFails, M!TypeOK
  <2> QED
    BY <2>1, <2>2, <2>3, <2>4
    DEF Next, Signal, CallbackGoesOn, LoopStep, LoopGoesOn, TimePasses, Ended,
        vars
<1>3. PP!Spec => []PP!TypeOK
  BY Assumed, PP!TypeCorrect
<1>4. PP!TypeOK => P!TypeOK
  BY DEF PP!TypeOK, PP!Locations, PP!Results, PP!Counters, P!TypeOK,
         P!Locations, P!Results, P!Counters
<1> QED
  BY <1>1, <1>2, <1>3, <1>4, Implements, PTL DEF Spec, TypeOK

\* However the connection comes and goes, and whatever the fallback fills in,
\* marstek_up = 1 means a delivered payload of the last UpBound (runPoll).
THEOREM UpBackedOnSession == Spec => []UpIsBacked
<1>1. PP!Spec => []PP!UpIsBacked
  BY Assumed, PP!UpBacked
<1>2. PP!UpIsBacked => UpIsBacked
  BY DEF PP!UpIsBacked, PP!UpBound, PP!Window, UpIsBacked, P!UpIsBacked,
         P!UpBound, P!Window
<1> QED
  BY <1>1, <1>2, Implements, PTL

\* The same of what UpIsBacked serves: over a session that breaks and comes back
\* marstek_up = 1 is exported with gauges, no poll is answered by a payload
\* delivered before it, and Threshold silent polls bring an early check
\* (runPoll, Collect, handleResult).
THEOREM PollPromisesOnSession ==
    Spec => [](/\ P!UpMeansExported /\ P!AnswerIsRecent
               /\ CallMax <= Interval => P!EarlyCheckAfterSilence)
<1>1. PP!Spec => [](PP!UpMeansExported /\ PP!AnswerIsRecent)
  BY Assumed, PP!UpExported, PP!AnsweredInTime, PTL
<1>2. PP!Spec => [](CallMax <= Interval => PP!EarlyCheckAfterSilence)
  <2>1. CASE CallMax <= Interval
    <3>1. PP!Spec => []PP!EarlyCheckAfterSilence
      BY <2>1, Assumed, PP!SilenceTriggers
    <3> QED
      BY <3>1, PTL
  <2>2. CASE ~(CallMax <= Interval)
    BY <2>2, PTL
  <2> QED
    BY <2>1, <2>2
<1>3. /\ PP!UpMeansExported /\ PP!AnswerIsRecent
      /\ CallMax <= Interval => PP!EarlyCheckAfterSilence
      => /\ P!UpMeansExported /\ P!AnswerIsRecent
         /\ CallMax <= Interval => P!EarlyCheckAfterSilence
  BY DEF PP!UpMeansExported, PP!AnswerIsRecent, PP!EarlyCheckAfterSilence,
         PP!UpBound, PP!Window, P!UpMeansExported, P!AnswerIsRecent,
         P!EarlyCheckAfterSilence, P!UpBound, P!Window
<1> QED
  BY <1>1, <1>2, <1>3, Implements, PTL
=============================================================================
