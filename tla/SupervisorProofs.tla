-------------------------- MODULE SupervisorProofs --------------------------
(***************************************************************************)
(* Theorems about Supervisor, for every positive MaxRecoveryAttempts: its  *)
(* invariants, the latch of the manual-intervention flag, and that the     *)
(* goroutine implements RecoveryBudget.                                    *)
(***************************************************************************)
EXTENDS Supervisor, TLAPS

\* recoveryInProgress and the unsettled attempt follow the control state.
PhaseInv ==
    /\ recoveryInProgress <=> run \in Checking
    /\ unsettled = (IF run \in Recovering THEN 1 ELSE 0)

\* The counted calls and the field differ only while the reserved attempt has
\* not called ConfigureWiFi yet.
CountInv ==
    provisions = (IF run = "provision" THEN recoveryAttempts - 1
                                       ELSE recoveryAttempts)

\* A recovery in progress holds an attempt and runs with the flag down; when
\* none is, the flag says exactly that the attempts are used up.
FlagInv ==
    /\ run \in Recovering => recoveryAttempts >= 1 /\ ~manualIntervention
    /\ run \notin Recovering =>
         (manualIntervention <=> recoveryAttempts = MaxRecoveryAttempts)

IInv == TypeOK /\ PhaseInv /\ CountInv /\ FlagInv /\ NoLostTrigger

USE DEF Waiting, Recovering, Checking, Locations

\* A reply the bridge can give is a record whose fields are Booleans.
LEMMA ReplyFacts ==
    /\ StatusError \in Replies
    /\ \A r \in Reply : r \in Replies
BY DEF Reply, Replies

\* A variable that is assigned a truth value has the type of one.
LEMMA TruthValues ==
    /\ \A x : (x = FALSE) => x \in BOOLEAN
    /\ \A x : (x = TRUE) => x \in BOOLEAN
OBVIOUS

\* The initial state satisfies the inductive invariant.
LEMMA InitIInv == Init => IInv
<1> SUFFICES ASSUME Init PROVE IInv
  OBVIOUS
<1>1. TypeOK
  BY ReplyFacts, TruthValues, MaxAssumption DEF Init, TypeOK
<1>2. PhaseInv /\ CountInv /\ FlagInv /\ NoLostTrigger
  BY MaxAssumption
  DEF Init, PhaseInv, CountInv, FlagInv, NoLostTrigger
<1> QED
  BY <1>1, <1>2 DEF IInv

\* The calls, the timers and the signal touch only flags and channels.
LEMMA EnvironmentStep == IInv /\ (Calls \/ Timers) => IInv'
<1> SUFFICES ASSUME IInv, Calls \/ Timers PROVE IInv'
  OBVIOUS
<1> USE DEF IInv, TypeOK, PhaseInv, CountInv, FlagInv, NoLostTrigger,
            flags, channels, attempt, history
<1>1. CASE TriggerCheck
  BY <1>1 DEF TriggerCheck
<1>2. CASE EnableRecovery
  BY <1>2 DEF EnableRecovery
<1>3. CASE CheckTickerFires
  BY <1>3 DEF CheckTickerFires
<1>4. CASE PollTickerFires
  BY <1>4 DEF PollTickerFires
<1>5. CASE DeadlineFires
  BY <1>5 DEF DeadlineFires
<1>6. CASE Cancel
  BY <1>6 DEF Cancel
<1> QED
  BY <1>1, <1>2, <1>3, <1>4, <1>5, <1>6 DEF Calls, Timers

\* The select of Run: beginCheck never meets a check in progress.
LEMMA SelectStep ==
    IInv /\ (CheckOnTicker \/ CheckOnTrigger \/ Stop \/ Terminated) => IInv'
<1> SUFFICES ASSUME IInv, CheckOnTicker \/ CheckOnTrigger \/ Stop \/ Terminated
             PROVE IInv'
  OBVIOUS
<1> USE DEF IInv, TypeOK, PhaseInv, CountInv, FlagInv, NoLostTrigger,
            flags, channels, attempt, history
<1>1. CASE CheckOnTicker
  BY <1>1 DEF CheckOnTicker, BeginCheck
<1>2. CASE CheckOnTrigger
  BY <1>2 DEF CheckOnTrigger, BeginCheck
<1>3. CASE Stop
  BY <1>3 DEF Stop
<1>4. CASE Terminated
  BY <1>4 DEF Terminated, vars
<1> QED
  BY <1>1, <1>2, <1>3, <1>4

\* The reply of the Status call that opens a check.
LEMMA StatusStep ==
    ASSUME IInv, NEW r \in Reply, StatusReply(r)
    PROVE  IInv'
<1> USE ReplyFacts, TruthValues, MaxAssumption
    DEF IInv, TypeOK, PhaseInv, CountInv, FlagInv, NoLostTrigger,
        flags, channels, attempt, history
<1>1. CASE StatusFails(r)
  BY <1>1 DEF StatusFails, EndCheck
<1>2. CASE StatusHealthy(r)
  BY <1>2 DEF StatusHealthy, ResetAttempts, EndCheck
<1>3. CASE StatusNoRemedy(r)
  BY <1>3 DEF StatusNoRemedy, EndCheck
<1>4. CASE StatusWiFiDown(r)
  BY <1>4 DEF StatusWiFiDown
<1> QED
  BY <1>1, <1>2, <1>3, <1>4 DEF StatusReply

\* The gate: an attempt is reserved only below the limit.
LEMMA GatePreserves == IInv /\ GateStep => IInv'
<1> SUFFICES ASSUME IInv, GateStep PROVE IInv'
  OBVIOUS
<1> USE ReplyFacts, TruthValues, MaxAssumption
    DEF IInv, TypeOK, PhaseInv, CountInv, FlagInv, NoLostTrigger,
        flags, channels, attempt, history
<1>1. CASE ColdStart
  BY <1>1 DEF ColdStart, EndCheck
<1>2. CASE Refuse
  BY <1>2 DEF Refuse, Exhausted, EndCheck
<1>3. CASE Reserve
  BY <1>3 DEF Reserve, Exhausted
<1> QED
  BY <1>1, <1>2, <1>3 DEF GateStep

\* A recovery ends with the flag raised exactly when its attempt was the last.
LEMMA RecoveryPreserves == IInv /\ RecoveryStep => IInv'
<1> SUFFICES ASSUME IInv, RecoveryStep PROVE IInv'
  OBVIOUS
<1> USE ReplyFacts, TruthValues, MaxAssumption
    DEF IInv, TypeOK, PhaseInv, CountInv, FlagInv, NoLostTrigger,
        flags, channels, attempt, history
<1>1. CASE ProvisionFails
  BY <1>1 DEF ProvisionFails, RecoveryFails, EndCheck
<1>2. CASE ProvisionAccepted
  BY <1>2 DEF ProvisionAccepted
<1>3. CASE WaitPollTick
  BY <1>3 DEF WaitPollTick
<1>4. CASE WaitDeadline
  BY <1>4 DEF WaitDeadline, RecoveryFails, EndCheck
<1>5. CASE WaitCancelled
  BY <1>5 DEF WaitCancelled, RecoveryFails, EndCheck
<1> QED
  BY <1>1, <1>2, <1>3, <1>4, <1>5 DEF RecoveryStep

\* The replies waitFor reads.
LEMMA WaitStep ==
    ASSUME IInv, NEW r \in Reply, WaitReply(r)
    PROVE  IInv'
<1> USE ReplyFacts, TruthValues, MaxAssumption
    DEF IInv, TypeOK, PhaseInv, CountInv, FlagInv, NoLostTrigger,
        flags, channels, attempt, history
<1>1. CASE WaitReady(r)
  BY <1>1 DEF WaitReady, ResetAttempts, EndCheck
<1>2. CASE WaitNotReady(r)
  BY <1>2 DEF WaitNotReady
<1> QED
  BY <1>1, <1>2 DEF WaitReply

\* Every step of the supervisor preserves the inductive invariant.
LEMMA NextIInv == IInv /\ [Next]_vars => IInv'
<1> SUFFICES ASSUME IInv, [Next]_vars PROVE IInv'
  OBVIOUS
<1>1. CASE Calls \/ Timers
  BY <1>1, EnvironmentStep
<1>2. CASE CheckOnTicker \/ CheckOnTrigger \/ Stop \/ Terminated
  BY <1>2, SelectStep
<1>3. ASSUME NEW r \in Reply, StatusReply(r) \/ WaitReply(r) PROVE IInv'
  BY <1>3, StatusStep, WaitStep
<1>4. CASE GateStep \/ RecoveryStep
  BY <1>4, GatePreserves, RecoveryPreserves
<1>5. CASE UNCHANGED vars
  BY <1>5 DEF vars, IInv, TypeOK, PhaseInv, CountInv, FlagInv, NoLostTrigger,
              flags, channels, attempt, history
<1> QED
  BY <1>1, <1>2, <1>3, <1>4, <1>5 DEF Next, RunStep

\* The inductive invariant holds in every reachable state.
THEOREM Invariance == Spec => []IInv
<1>1. Init => IInv
  BY InitIInv
<1>2. IInv /\ [Next]_vars => IInv'
  BY NextIInv
<1> QED
  BY <1>1, <1>2, PTL DEF Spec

\* Every variable keeps its type; provisions and recoveryAttempts never pass
\* MaxRecoveryAttempts.
THEOREM TypeCorrect == Spec => []TypeOK
<1>1. IInv => TypeOK
  BY DEF IInv
<1> QED
  BY <1>1, Invariance, PTL

\* An outage gets at most MaxRecoveryAttempts calls of ConfigureWiFi.
THEOREM BudgetKept == Spec => []AttemptBudget
<1>1. IInv => AttemptBudget
  BY MaxAssumption DEF IInv, TypeOK, AttemptBudget
<1> QED
  BY <1>1, Invariance, PTL

\* Every counted attempt is settled exactly once by the end of its check.
THEOREM SettledOnce == Spec => []AttemptsSettled
<1>1. IInv => AttemptsSettled
  BY DEF IInv, PhaseInv, AttemptsSettled
<1> QED
  BY <1>1, Invariance, PTL

\* Between checks the flag is up exactly when the budget is spent.
THEOREM FlagExact == Spec => []FlagMeansSpent
<1>1. IInv => FlagMeansSpent
  BY DEF IInv, CountInv, FlagInv, FlagMeansSpent
<1> QED
  BY <1>1, Invariance, PTL

\* No return path of Check leaves recoveryInProgress set.
THEOREM AlwaysReleased == Spec => []CheckReleased
<1>1. IInv => CheckReleased
  BY DEF IInv, PhaseInv, CheckReleased
<1> QED
  BY <1>1, Invariance, PTL

\* A trigger not yet followed by a check is in the channel.
THEOREM TriggerKept == Spec => []NoLostTrigger
<1>1. IInv => NoLostTrigger
  BY DEF IInv
<1> QED
  BY <1>1, Invariance, PTL

-----------------------------------------------------------------------------
(* The manual-intervention flag as a latch. *)

Latch ==
    manualIntervention =>
        /\ provisions' <= provisions
        /\ ~manualIntervention' => run = "status" /\ Healthy(status')

\* While the flag is up no recovery is in progress, so the only step that can
\* take it down is the healthy reply of a check.
LEMMA LatchStep == IInv /\ [Next]_vars => Latch
<1> SUFFICES ASSUME IInv, [Next]_vars, manualIntervention
             PROVE  /\ provisions' <= provisions
                    /\ ~manualIntervention' =>
                          run = "status" /\ Healthy(status')
  BY DEF Latch
<1>0. run \notin Recovering /\ provisions \in Nat
  BY MaxAssumption DEF IInv, TypeOK, FlagInv
<1>1. CASE UNCHANGED <<provisions, manualIntervention>>
  BY <1>0, <1>1
<1>2. ASSUME NEW r \in Reply, StatusHealthy(r)
      PROVE  provisions' <= provisions /\ run = "status" /\ Healthy(status')
  BY <1>0, <1>2 DEF StatusHealthy, ResetAttempts
<1>3. CASE Calls \/ Timers
  BY <1>1, <1>3
  DEF Calls, Timers, TriggerCheck, EnableRecovery, CheckTickerFires,
      PollTickerFires, DeadlineFires, Cancel, attempt, history
<1>4. CASE CheckOnTicker \/ CheckOnTrigger \/ Stop \/ Terminated
  BY <1>1, <1>4
  DEF CheckOnTicker, CheckOnTrigger, Stop, Terminated, vars, attempt, history
<1>5. ASSUME NEW r \in Reply, StatusReply(r) \/ WaitReply(r)
      PROVE  \/ UNCHANGED <<provisions, manualIntervention>>
             \/ StatusHealthy(r)
  BY <1>0, <1>5
  DEF StatusReply, WaitReply, StatusFails, StatusNoRemedy, StatusWiFiDown,
      WaitReady, WaitNotReady, attempt, history, Recovering, Waiting
<1>6. CASE GateStep
  <2>1. ~Reserve
    BY DEF Reserve, Exhausted
  <2>2. CASE ColdStart
    BY <1>1, <2>2 DEF ColdStart, attempt, history
  <2>3. CASE Refuse
    BY <1>0, <2>3 DEF Refuse, history
  <2> QED
    BY <1>6, <2>1, <2>2, <2>3 DEF GateStep
<1>7. ~RecoveryStep
  BY <1>0
  DEF RecoveryStep, ProvisionFails, ProvisionAccepted, WaitPollTick,
      WaitDeadline, WaitCancelled, Recovering, Waiting
<1>8. CASE UNCHANGED vars
  BY <1>1, <1>8 DEF vars, attempt, history
<1> QED
  BY <1>1, <1>2, <1>3, <1>4, <1>5, <1>6, <1>7, <1>8 DEF Next, RunStep

\* Once human intervention is required nothing is provisioned, and only a
\* healthy status takes the flag down.
THEOREM LatchHolds == Spec => ManualLatch
<1>1. IInv /\ [Next]_vars => [Latch]_vars
  BY LatchStep
<1> QED
  BY <1>1, Invariance, PTL DEF Spec, ManualLatch, Latch

-----------------------------------------------------------------------------
(* Refinement of RecoveryBudget. *)

\* A step that keeps the two fields and does not enter or leave a recovery is
\* a stutter of the budget.
BudgetStutter ==
    /\ UNCHANGED <<recoveryAttempts, manualIntervention>>
    /\ (run' \in Recovering) <=> (run \in Recovering)

\* Such a step leaves the variables of the budget as they are.
LEMMA StutterMaps == BudgetStutter => UNCHANGED Budget!vars
<1> SUFFICES ASSUME BudgetStutter PROVE UNCHANGED Budget!vars
  OBVIOUS
<1>1. (run \in Recovering)' = (run \in Recovering)
  BY DEF BudgetStutter
<1> QED
  BY <1>1 DEF BudgetStutter, Budget!vars

\* A new supervisor has its whole budget.
LEMMA InitMaps == Init => Budget!Init
BY DEF Init, Budget!Init, Recovering, Waiting

\* Every step of the goroutine is a step of the budget or a stutter.
LEMMA StepMaps == IInv /\ [Next]_vars => [Budget!Next]_(Budget!vars)
<1> SUFFICES ASSUME IInv, [Next]_vars
             PROVE  Budget!Next \/ UNCHANGED Budget!vars
  OBVIOUS
<1> USE DEF Recovering, Waiting, attempt
<1>1. CASE Calls \/ Timers
  <2>1. BudgetStutter
    BY <1>1
    DEF Calls, Timers, TriggerCheck, EnableRecovery, CheckTickerFires,
        PollTickerFires, DeadlineFires, Cancel, BudgetStutter
  <2> QED
    BY <2>1, StutterMaps
<1>2. CASE CheckOnTicker \/ CheckOnTrigger \/ Stop \/ Terminated
  <2>1. BudgetStutter
    BY <1>2
    DEF CheckOnTicker, CheckOnTrigger, BeginCheck, Stop, Terminated, vars,
        BudgetStutter
  <2> QED
    BY <2>1, StutterMaps
<1>3. ASSUME NEW r \in Reply, StatusReply(r)
      PROVE  Budget!Next \/ UNCHANGED Budget!vars
  <2>1. CASE StatusHealthy(r)
    BY <2>1 DEF StatusHealthy, ResetAttempts, EndCheck, Budget!Next, Budget!Heal
  <2>2. CASE StatusFails(r) \/ StatusNoRemedy(r) \/ StatusWiFiDown(r)
    <3>1. BudgetStutter
      BY <2>2
      DEF StatusFails, StatusNoRemedy, StatusWiFiDown, EndCheck, BudgetStutter
    <3> QED
      BY <3>1, StutterMaps
  <2> QED
    BY <1>3, <2>1, <2>2 DEF StatusReply
<1>4. ASSUME NEW r \in Reply, WaitReply(r)
      PROVE  Budget!Next \/ UNCHANGED Budget!vars
  <2>1. CASE WaitReady(r)
    <3>1. manualIntervention' = manualIntervention
      BY <2>1 DEF WaitReady, ResetAttempts, IInv, FlagInv, TypeOK
    <3> QED
      BY <2>1, <3>1
      DEF WaitReady, ResetAttempts, EndCheck, Budget!Next, Budget!Succeed
  <2>2. CASE WaitNotReady(r)
    <3>1. BudgetStutter
      BY <2>2 DEF WaitNotReady, BudgetStutter
    <3> QED
      BY <3>1, StutterMaps
  <2> QED
    BY <1>4, <2>1, <2>2 DEF WaitReply
<1>5. CASE GateStep
  <2>1. CASE ColdStart
    <3>1. BudgetStutter
      BY <2>1 DEF ColdStart, EndCheck, BudgetStutter
    <3> QED
      BY <3>1, StutterMaps
  <2>2. CASE Refuse
    <3>1. recoveryAttempts = MaxRecoveryAttempts \/ manualIntervention
      BY <2>2, MaxAssumption DEF Refuse, Exhausted, IInv, TypeOK
    <3>2. manualIntervention /\ manualIntervention'
      BY <2>2, <3>1 DEF Refuse, IInv, FlagInv
    <3>3. manualIntervention' = manualIntervention
      BY <3>2 DEF Refuse, IInv, TypeOK
    <3>4. BudgetStutter
      BY <2>2, <3>3 DEF Refuse, EndCheck, BudgetStutter
    <3> QED
      BY <3>4, StutterMaps
  <2>3. CASE Reserve
    <3>1. recoveryAttempts < MaxRecoveryAttempts
      BY <2>3, MaxAssumption DEF Reserve, Exhausted, IInv, TypeOK
    <3> QED
      BY <2>3, <3>1 DEF Reserve, Exhausted, Budget!Next, Budget!Start
  <2> QED
    BY <1>5, <2>1, <2>2, <2>3 DEF GateStep
<1>6. CASE RecoveryStep
  <2>1. CASE ProvisionFails \/ WaitDeadline \/ WaitCancelled
    <3>1. run \in Recovering /\ RecoveryFails
      BY <2>1 DEF ProvisionFails, WaitDeadline, WaitCancelled
    <3>2. manualIntervention' = (recoveryAttempts = MaxRecoveryAttempts)
      <4>1. manualIntervention' <=> recoveryAttempts = MaxRecoveryAttempts
        BY <3>1, MaxAssumption DEF RecoveryFails, IInv, TypeOK, FlagInv
      <4>2. manualIntervention' \in BOOLEAN
        BY <3>1, TruthValues DEF RecoveryFails, IInv, TypeOK
      <4> QED
        BY <4>1, <4>2
    <3>3. /\ recoveryAttempts' = recoveryAttempts
          /\ run' \notin Recovering
      BY <3>1 DEF RecoveryFails, EndCheck
    <3> QED
      BY <3>1, <3>2, <3>3 DEF Budget!Next, Budget!Fail
  <2>2. CASE ProvisionAccepted \/ WaitPollTick
    <3>1. BudgetStutter
      BY <2>2 DEF ProvisionAccepted, WaitPollTick, BudgetStutter
    <3> QED
      BY <3>1, StutterMaps
  <2> QED
    BY <1>6, <2>1, <2>2 DEF RecoveryStep
<1>7. CASE UNCHANGED vars
  <2>1. BudgetStutter
    BY <1>7 DEF vars, BudgetStutter
  <2> QED
    BY <2>1, StutterMaps
<1> QED
  BY <1>1, <1>2, <1>3, <1>4, <1>5, <1>6, <1>7 DEF Next, RunStep

\* The supervisor implements the recovery budget.
THEOREM ImplementsBudget == Spec => BudgetSpec
<1>1. Init => Budget!Init
  BY InitMaps
<1>2. IInv /\ [Next]_vars => [Budget!Next]_(Budget!vars)
  BY StepMaps
<1> QED
  BY <1>1, <1>2, Invariance, PTL DEF Spec, BudgetSpec, Budget!Spec
=============================================================================
