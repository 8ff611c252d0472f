CONSTANTS
    MaxCalls = 4
    MaxRecordings = 2
SPECIFICATION FairSpec
INVARIANT WaiterHasStop
INVARIANT OnlyReopenStalesFlag
INVARIANT PreviewHasCallback
 
INVARIANT OnlyLateEndCrashes
CHECK_DEADLOCK FALSE
 
PROPERTY CloseClosesCamera
 
