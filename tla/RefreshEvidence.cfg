SPECIFICATION Spec
CONSTANTS
    MaxCommands = 1
    Intervals = {1, 2}
    Lease = 2
    Settle = 1
    Backoff = 1
    Window = 2
    MaxCalls = 2
    Budgets <- EvidenceBudgets
PROPERTIES
    EvidenceIsNew
