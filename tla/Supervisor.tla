----------------------------- MODULE Supervisor -----------------------------
(***************************************************************************)
(* esp32bridge/supervisor.go: the goroutine that checks the ESP32 bridge   *)
(* and reprovisions the battery's WiFi.                                    *)
(*                                                                         *)
(* One goroutine executes Run; `run` says where it is.  A step of this     *)
(* module is the code between two points where another goroutine, a timer  *)
(* or the bridge can be seen: a select, an HTTP call, or the read of       *)
(* recoveryEnabled.  The poll loop calls EnableRecovery and TriggerCheck   *)
(* at any time; SIGTERM cancels ctx at any time.                           *)
(*                                                                         *)
(* WaitTimeout and PollPeriod are not measured: the deadline and the       *)
(* ticker of waitFor fire in any order, so what holds here holds for every *)
(* value of the two.                                                       *)
(***************************************************************************)
EXTENDS Naturals, Bridge

CONSTANT MaxRecoveryAttempts    \* SupervisorConfig.MaxRecoveryAttempts

\* config.go refuses a value that is not positive.
ASSUME MaxAssumption == MaxRecoveryAttempts \in Nat \ {0}

VARIABLES
    run,                \* control state of the goroutine that executes Run
    recoveryAttempts,   \* the four fields guarded by s.mu
    recoveryEnabled,
    recoveryInProgress,
    manualIntervention,
    triggerCh,          \* the one-slot channel: TRUE when it holds a signal
    checkTick,          \* channel of Run's ticker
    pollTick,           \* channel of waitFor's ticker
    deadline,           \* channel of waitFor's timer
    status,             \* the last reply a Check acted on (its local variable)
    wifiConfigured,     \* hasWiFiProvisioningConfig, fixed by the configuration
    ctxDone,            \* ctx has been cancelled
    \* history variables: read by no action, there for the properties
    provisions,         \* ConfigureWiFi calls since attempts were last reset
    unsettled,          \* recovery_attempts_total minus recorded outcomes
    demand              \* a TriggerCheck that no check has followed yet

flags    == <<recoveryEnabled, wifiConfigured, ctxDone>>
channels == <<triggerCh, checkTick, pollTick, deadline>>
attempt  == <<recoveryAttempts, manualIntervention>>
history  == <<provisions, unsettled, demand>>
vars == <<run, attempt, recoveryInProgress, flags, channels, status, history>>

Waiting    == {"waitStatus", "waitSelect"}
Recovering == {"provision"} \cup Waiting
Checking   == {"status", "gate"} \cup Recovering
Locations  == {"select", "stopped"} \cup Checking

TypeOK ==
    /\ run \in Locations
    /\ recoveryAttempts \in 0 .. MaxRecoveryAttempts
    /\ recoveryEnabled \in BOOLEAN
    /\ recoveryInProgress \in BOOLEAN
    /\ manualIntervention \in BOOLEAN
    /\ triggerCh \in BOOLEAN /\ checkTick \in BOOLEAN
    /\ pollTick \in BOOLEAN /\ deadline \in BOOLEAN
    /\ status \in Replies
    /\ wifiConfigured \in BOOLEAN /\ ctxDone \in BOOLEAN
    /\ provisions \in 0 .. MaxRecoveryAttempts
    /\ unsettled \in 0 .. 1
    /\ demand \in BOOLEAN

Init ==
    /\ run = "select"
    /\ recoveryAttempts = 0
    /\ recoveryEnabled = FALSE
    /\ recoveryInProgress = FALSE
    /\ manualIntervention = FALSE
    /\ triggerCh = FALSE /\ checkTick = FALSE
    /\ pollTick = FALSE /\ deadline = FALSE
    /\ status = StatusError
    /\ wifiConfigured \in BOOLEAN /\ ctxDone = FALSE
    /\ provisions = 0 /\ unsettled = 0 /\ demand = FALSE

-----------------------------------------------------------------------------
(* Calls from the poll loop, timers and the signal handler. *)

\* Faulty on purpose: a triggerCh without a slot.
UnbufferedTriggerCheck ==
    /\ triggerCh' = (triggerCh \/ run = "select")
    /\ demand' = TRUE
    /\ UNCHANGED <<run, attempt, recoveryInProgress, flags, checkTick,
                   pollTick, deadline, status, provisions, unsettled>>

\* A non-blocking send to a channel of capacity one: a full channel stays full.
TriggerCheck ==
    /\ triggerCh' = TRUE
    /\ demand' = TRUE
    /\ UNCHANGED <<run, attempt, recoveryInProgress, flags, checkTick,
                   pollTick, deadline, status, provisions, unsettled>>

EnableRecovery ==
    /\ recoveryEnabled' = TRUE
    /\ UNCHANGED <<run, attempt, recoveryInProgress, wifiConfigured, ctxDone,
                   channels, status, history>>

\* time.Ticker: a tick that finds its channel full is dropped.
CheckTickerFires ==
    /\ run # "stopped" /\ ~checkTick
    /\ checkTick' = TRUE
    /\ UNCHANGED <<run, attempt, recoveryInProgress, flags, triggerCh,
                   pollTick, deadline, status, history>>

PollTickerFires ==
    /\ run \in Waiting /\ ~pollTick
    /\ pollTick' = TRUE
    /\ UNCHANGED <<run, attempt, recoveryInProgress, flags, triggerCh,
                   checkTick, deadline, status, history>>

DeadlineFires ==
    /\ run \in Waiting /\ ~deadline
    /\ deadline' = TRUE
    /\ UNCHANGED <<run, attempt, recoveryInProgress, flags, triggerCh,
                   checkTick, pollTick, status, history>>

Cancel ==
    /\ ~ctxDone
    /\ ctxDone' = TRUE
    /\ UNCHANGED <<run, attempt, recoveryInProgress, recoveryEnabled,
                   wifiConfigured, channels, status, history>>

-----------------------------------------------------------------------------
(* Run: the select, and the start and end of a Check. *)

\* beginCheck.  Run calls Check from one goroutine, so the early return can be
\* taken only if an earlier Check left recoveryInProgress set.
BeginCheck ==
    /\ run' = IF recoveryInProgress THEN "select" ELSE "status"
    /\ demand' = IF recoveryInProgress THEN demand ELSE FALSE
    /\ recoveryInProgress' = TRUE

\* The deferred endCheck: every return of Check goes through it.
EndCheck ==
    /\ run' = "select"
    /\ recoveryInProgress' = FALSE

CheckOnTicker ==
    /\ run = "select" /\ checkTick
    /\ checkTick' = FALSE
    /\ BeginCheck
    /\ UNCHANGED <<attempt, flags, triggerCh, pollTick, deadline, status,
                   provisions, unsettled>>

CheckOnTrigger ==
    /\ run = "select" /\ triggerCh
    /\ triggerCh' = FALSE
    /\ BeginCheck
    /\ UNCHANGED <<attempt, flags, checkTick, pollTick, deadline, status,
                   provisions, unsettled>>

\* Faulty on purpose: Run's select without ctx.Done.
StopDeaf == FALSE

Stop ==
    /\ run = "select" /\ ctxDone
    /\ run' = "stopped"
    /\ UNCHANGED <<attempt, recoveryInProgress, flags, channels, status,
                   history>>

-----------------------------------------------------------------------------
(* Check: the Status call and what follows from its reply. *)

\* A request made with a cancelled ctx fails; until then anything may come.
Reply == {r \in Replies : ctxDone => ~r.ok}

ResetAttempts ==
    /\ recoveryAttempts' = 0
    /\ manualIntervention' = FALSE
    /\ provisions' = 0

\* Faulty on purpose: an early return that leaves recoveryInProgress set.
LeakyStatusFails(r) ==
    /\ run = "status" /\ ~r.ok
    /\ status' = r
    /\ run' = "select"
    /\ UNCHANGED <<attempt, recoveryInProgress, flags, channels, history>>

StatusFails(r) ==
    /\ run = "status" /\ ~r.ok
    /\ status' = r
    /\ EndCheck
    /\ UNCHANGED <<attempt, flags, channels, history>>

StatusHealthy(r) ==
    /\ run = "status" /\ r.ok /\ Healthy(r)
    /\ status' = r
    /\ ResetAttempts
    /\ EndCheck
    /\ UNCHANGED <<flags, channels, unsettled, demand>>

NeedsWiFi(r) == r.ok /\ r.connected /\ ~r.wifi

\* Faulty on purpose: any status without remedy resets the attempts.
StatusNoRemedyResets(r) ==
    /\ run = "status"
    /\ r.ok /\ ~Healthy(r) /\ ~(NeedsWiFi(r) /\ wifiConfigured)
    /\ status' = r
    /\ ResetAttempts
    /\ EndCheck
    /\ UNCHANGED <<flags, channels, unsettled, demand>>

\* No BLE link, or WiFi up with MQTT down, or no credentials: only logged.
StatusNoRemedy(r) ==
    /\ run = "status"
    /\ r.ok /\ ~Healthy(r) /\ ~(NeedsWiFi(r) /\ wifiConfigured)
    /\ status' = r
    /\ EndCheck
    /\ UNCHANGED <<attempt, flags, channels, history>>

StatusWiFiDown(r) ==
    /\ run = "status" /\ NeedsWiFi(r) /\ wifiConfigured
    /\ status' = r
    /\ run' = "gate"
    /\ UNCHANGED <<attempt, recoveryInProgress, flags, channels, history>>

StatusReply(r) ==
    StatusFails(r) \/ StatusHealthy(r) \/ StatusNoRemedy(r) \/ StatusWiFiDown(r)

\* !recoveryAllowed
ColdStart ==
    /\ run = "gate" /\ ~recoveryEnabled
    /\ EndCheck
    /\ UNCHANGED <<attempt, flags, channels, status, history>>

\* Faulty on purpose: one attempt too many.
OffByOneExhausted == recoveryAttempts > MaxRecoveryAttempts

Exhausted == manualIntervention \/ recoveryAttempts >= MaxRecoveryAttempts

\* reserveRecoveryAttempt returns false.
Refuse ==
    /\ run = "gate" /\ recoveryEnabled /\ Exhausted
    /\ manualIntervention' = TRUE
    /\ EndCheck
    /\ UNCHANGED <<recoveryAttempts, flags, channels, status, history>>

\* reserveRecoveryAttempt returns true, and IncRecoveryAttempt.
Reserve ==
    /\ run = "gate" /\ recoveryEnabled /\ ~Exhausted
    /\ recoveryAttempts' = recoveryAttempts + 1
    /\ unsettled' = unsettled + 1
    /\ run' = "provision"
    /\ UNCHANGED <<manualIntervention, recoveryInProgress, flags, channels,
                   status, provisions, demand>>

-----------------------------------------------------------------------------
(* recoverWiFi and waitFor. *)

\* Faulty on purpose: the last failure does not ask for a human.
RecoveryFailsUnflagged ==
    /\ unsettled' = unsettled - 1
    /\ EndCheck
    /\ UNCHANGED attempt

\* Check after recoverWiFi returned an error: IncRecoveryFailure, and
\* markManualIntervention when this was the last attempt.
RecoveryFails ==
    /\ unsettled' = unsettled - 1
    /\ manualIntervention' =
         IF recoveryAttempts >= MaxRecoveryAttempts THEN TRUE
                                                    ELSE manualIntervention
    /\ EndCheck
    /\ UNCHANGED recoveryAttempts

\* Faulty on purpose: a failed ConfigureWiFi is no failed attempt.
ProvisionFailsUncounted ==
    /\ run = "provision"
    /\ provisions' = provisions + 1
    /\ manualIntervention' =
         IF recoveryAttempts >= MaxRecoveryAttempts THEN TRUE
                                                    ELSE manualIntervention
    /\ EndCheck
    /\ UNCHANGED <<recoveryAttempts, unsettled, flags, channels, status, demand>>

ProvisionFails ==
    /\ run = "provision"
    /\ provisions' = provisions + 1
    /\ RecoveryFails
    /\ UNCHANGED <<flags, channels, status, demand>>

\* ConfigureWiFi succeeded; waitFor arms its timer and its ticker.
ProvisionAccepted ==
    /\ run = "provision" /\ ~ctxDone
    /\ provisions' = provisions + 1
    /\ pollTick' = FALSE /\ deadline' = FALSE
    /\ run' = "waitStatus"
    /\ UNCHANGED <<attempt, recoveryInProgress, flags, triggerCh, checkTick,
                   status, unsettled, demand>>

Ready(r) == r.ok /\ r.connected /\ r.wifi

\* Faulty on purpose: a success that does not reset the attempts.
WaitReadyKeepsAttempts(r) ==
    /\ run = "waitStatus" /\ Ready(r)
    /\ unsettled' = unsettled - 1
    /\ EndCheck
    /\ UNCHANGED <<attempt, provisions, flags, channels, status, demand>>

\* recoverWiFi returns nil: resetAttempts, ObserveRecoverySuccess.
WaitReady(r) ==
    /\ run = "waitStatus" /\ Ready(r)
    /\ ResetAttempts
    /\ unsettled' = unsettled - 1
    /\ EndCheck
    /\ UNCHANGED <<flags, channels, status, demand>>

WaitNotReady(r) ==
    /\ run = "waitStatus" /\ ~Ready(r)
    /\ run' = "waitSelect"
    /\ UNCHANGED <<attempt, recoveryInProgress, flags, channels, status, history>>

WaitReply(r) == WaitReady(r) \/ WaitNotReady(r)

WaitPollTick ==
    /\ run = "waitSelect" /\ pollTick
    /\ pollTick' = FALSE
    /\ run' = "waitStatus"
    /\ UNCHANGED <<attempt, recoveryInProgress, flags, triggerCh, checkTick,
                   deadline, status, history>>

\* Faulty on purpose: waitFor without its timer.
NoDeadline == FALSE

WaitDeadline ==
    /\ run = "waitSelect" /\ deadline
    /\ RecoveryFails
    /\ UNCHANGED <<flags, channels, status, provisions, demand>>

WaitCancelled ==
    /\ run = "waitSelect" /\ ctxDone
    /\ RecoveryFails
    /\ UNCHANGED <<flags, channels, status, provisions, demand>>

-----------------------------------------------------------------------------
Calls == TriggerCheck \/ EnableRecovery
Timers == CheckTickerFires \/ PollTickerFires \/ DeadlineFires \/ Cancel

GateStep == ColdStart \/ Refuse \/ Reserve

RecoveryStep ==
    \/ ProvisionFails \/ ProvisionAccepted
    \/ WaitPollTick \/ WaitDeadline \/ WaitCancelled

RunStep ==
    \/ CheckOnTicker \/ CheckOnTrigger \/ Stop
    \/ \E r \in Reply : StatusReply(r) \/ WaitReply(r)
    \/ GateStep \/ RecoveryStep

\* Once Run has returned nothing of this component is left to take a step: the
\* process is about to exit.
Terminated == run = "stopped" /\ UNCHANGED vars

Next == Calls \/ Timers \/ RunStep \/ Terminated

Spec == Init /\ [][Next]_vars

(***************************************************************************)
(* Fairness.  The goroutine runs; every HTTP call ends (the client has a   *)
(* 10 s timeout), and timers fire: weak fairness.  A select chooses at     *)
(* random among its ready cases, so a case that is ready again and again   *)
(* is taken: strong fairness of the cases another case can keep passing    *)
(* by.  Nothing is assumed of the poll loop, the signal or the bridge's    *)
(* answers.                                                                *)
(***************************************************************************)
Fairness ==
    /\ WF_vars(RunStep)
    /\ SF_vars(CheckOnTrigger) /\ SF_vars(Stop) /\ SF_vars(WaitDeadline)
    /\ WF_vars(PollTickerFires) /\ WF_vars(DeadlineFires)

FairSpec == Spec /\ Fairness
-----------------------------------------------------------------------------
(* Safety *)

\* A continuous outage gets at most MaxRecoveryAttempts calls of
\* ConfigureWiFi, whatever the interleaving of ticks, triggers, errors and
\* late answers (Check, reserveRecoveryAttempt, README "Optional ESP32
\* recovery").  `provisions` counts the calls themselves, not the field the
\* code compares.
AttemptBudget == provisions <= MaxRecoveryAttempts

\* Every attempt counted in recovery_attempts_total is settled exactly once,
\* as a failure or as a success, by the time the Check that made it ends: no
\* return path of Check forgets to record it or records it twice.
AttemptsSettled == unsettled = (IF run \in Recovering THEN 1 ELSE 0)

\* Between checks the manual-intervention flag is up exactly when the budget
\* is spent: the last failed attempt raises it at once (not the next check),
\* and no reset leaves it behind.
FlagMeansSpent ==
    run = "select" => (manualIntervention <=> provisions = MaxRecoveryAttempts)

\* No return path of Check leaves recoveryInProgress set: beginCheck would
\* refuse every later check, and the supervisor would be dead without a sign.
CheckReleased == run \in {"select", "stopped"} => ~recoveryInProgress

\* A TriggerCheck made at any moment, in the middle of a check included, is
\* still in the channel until a check that starts after it begins.
NoLostTrigger == demand => triggerCh

(* Action property *)

\* Once human intervention is required nothing is provisioned, and only the
\* healthy status of a Check (BLE, WiFi and MQTT up) takes the flag down.
ManualLatch ==
    [][manualIntervention =>
         /\ provisions' <= provisions
         /\ ~manualIntervention' => run = "status" /\ Healthy(status')]_vars

(* Liveness *)

\* A trigger is followed by a check that starts after it, unless the program
\* is shutting down: no return path leaves recoveryInProgress set, which would
\* refuse every later check, and waitFor does not wait for ever on a bridge that
\* never reports WiFi, or never answers.
TriggerServed == demand ~> (~demand \/ ctxDone)

\* A cancelled ctx stops Run, even in the middle of a recovery.
ShutdownStops == ctxDone ~> (run = "stopped")
-----------------------------------------------------------------------------
(* Refinement: the goroutine implements the recovery budget. *)

Budget == INSTANCE RecoveryBudget WITH
    used <- recoveryAttempts,
    active <- run \in Recovering,
    exhausted <- manualIntervention

BudgetSpec == Budget!Spec
=============================================================================
