SPECIFICATION Spec
CONSTANTS
    Buttons = {"ON", "OFF"}
    MaxQueue = 1
    MaxPresses = 1
    MaxFailures = 1
    MaxLosses = 0
    MaxRestarts = 0
INVARIANTS
    BypassOnlyDuringFailure
