CONSTANTS
    MaxPlugs = 2
    MaxReopens = 1
    MaxInFlight = 1
SPECIFICATION FairSpec
INVARIANT OnlyClonesMakeStrays
INVARIANT DestroyLeavesOne
PROPERTY GrantConnects
PROPERTY PluggedIsAnnounced
CHECK_DEADLOCK FALSE
