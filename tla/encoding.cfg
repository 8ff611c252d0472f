CONSTANTS
    MaxInputs = 2
    MaxInside = 1
SPECIFICATION FairSpec
INVARIANT SleepersMissedRequest
INVARIANT NobodyMissesTheStart
PROPERTY ImplementsFile
PROPERTY StopEndsThread
CHECK_DEADLOCK FALSE
