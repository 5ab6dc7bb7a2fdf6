SPECIFICATION Spec
CONSTANTS
    Buttons = {"ON", "OFF"}
    MaxQueue = 2
    MaxPresses = 2
    MaxFailures = 2
    MaxLosses = 0
    MaxRestarts = 0
PROPERTIES
    ManualOnPreserved
