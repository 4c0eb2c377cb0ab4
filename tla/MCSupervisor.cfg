CONSTANT MaxRecoveryAttempts = 3
SPECIFICATION FairSpec
INVARIANTS
    AttemptBudget
    AttemptsSettled
    FlagMeansSpent
    NoLostTrigger
PROPERTIES
    ManualLatch
    TriggerServed
    ShutdownStops
    BudgetSpec
