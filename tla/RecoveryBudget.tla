--------------------------- MODULE RecoveryBudget ---------------------------
(***************************************************************************)
(* The promise of the ESP32 recovery supervisor, without its goroutine,    *)
(* channels, timers and HTTP calls: one recovery at a time, at most        *)
(* MaxRecoveryAttempts of them before a human is asked for, and nothing    *)
(* but the battery being well again (or a recovery that worked) gives the  *)
(* budget back.                                                            *)
(***************************************************************************)
EXTENDS Naturals

CONSTANT MaxRecoveryAttempts

VARIABLES
    used,       \* attempts made since the budget was last given back
    active,     \* a recovery is in progress
    exhausted   \* human intervention is required

vars == <<used, active, exhausted>>

Init == used = 0 /\ active = FALSE /\ exhausted = FALSE

Start == /\ ~active /\ ~exhausted /\ used < MaxRecoveryAttempts
         /\ used' = used + 1
         /\ active' = TRUE
         /\ UNCHANGED exhausted

Succeed == /\ active
           /\ used' = 0
           /\ active' = FALSE
           /\ UNCHANGED exhausted

\* The failure of the last attempt is what raises the flag.
Fail == /\ active
        /\ active' = FALSE
        /\ exhausted' = (used = MaxRecoveryAttempts)
        /\ UNCHANGED used

Heal == /\ ~active
        /\ used' = 0
        /\ exhausted' = FALSE
        /\ UNCHANGED active

Next == Start \/ Succeed \/ Fail \/ Heal

Spec == Init /\ [][Next]_vars
=============================================================================
