SPECIFICATION FairSpec
CONSTANTS
    MaxCommands = 1
    Intervals = {1, 2}
    Lease = 2
    Settle = 1
    Backoff = 1
    Window = 2
    MaxCalls = 1
    Budgets <- RetriedBudgets
PROPERTIES
    WaitingIsRetried
