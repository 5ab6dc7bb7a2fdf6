SPECIFICATION Spec
CONSTANTS
    Buttons = {"OFF"}
    MaxQueue = 1
    MaxPresses = 2
    MaxFailures = 3
    MaxLosses = 1
    MaxRestarts = 1
INVARIANTS
    UnaskedOnIsAutomatic
    QuietMeansAgreed
