SPECIFICATION Spec
CONSTANTS
    r1 = r1
    r2 = r2
    Residents = {r1, r2}
    MaxAttempts = 2
    Ttl = 2
    Window = 1
    Cooldown = 2
    MaxTries = 1
    Budgets <- MCBudgets
INVARIANTS
    TypeOK
    PanelFollowsIntent
    DisarmWasConfirmed
    PromptedOnce
    AcceptedWasPushed
PROPERTIES
    IntentReached
CHECK_DEADLOCK FALSE
