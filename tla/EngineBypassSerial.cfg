SPECIFICATION FairSpec
CONSTANTS
    Buttons = {"ON", "OFF"}
    MaxQueue = 1
    MaxPresses = 2
    MaxFailures = 2
    MaxLosses = 1
    MaxRestarts = 1
INVARIANTS
    TypeOK
    AutomaticIsOn
    PublishedFollowsSwitch
PROPERTIES
    ManualOnPreserved
    RecoveryReleases
