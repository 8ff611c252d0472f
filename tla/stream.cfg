CONSTANTS
    NumTransfers = 2
    Bulk = FALSE
    Unpluggable = FALSE
    MaxPictures = 3
    MaxStarts = 2
SPECIFICATION Spec
INVARIANT TypeOK
INVARIANT ClosedIsQuiet
INVARIANT JoinAfterDrain
 
INVARIANT SleepersHaveReason
CHECK_DEADLOCK FALSE
