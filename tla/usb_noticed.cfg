CONSTANTS
    MaxPlugs = 2
    MaxReopens = 1
    MaxInFlight = 1
SPECIFICATION FairSpec
CHECK_DEADLOCK FALSE
PROPERTY AttachIsNoticed
