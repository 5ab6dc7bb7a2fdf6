SPECIFICATION Spec
CONSTANTS
    MaxCommands = 1
    Intervals = {1, 2}
    Lease = 2
    Settle = 1
    Backoff = 2
    Window = 2
    MaxCalls = 2
    Budgets <- WakeBudgets
INVARIANTS
    TypeOK
PROPERTIES
    OneCallInFlight
    WakesSpaced
    ReportsFailures
