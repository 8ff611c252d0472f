CONSTANTS
    NumTransfers = 2
    Bulk = TRUE
    Unpluggable = TRUE
    MaxPictures = 2
    MaxStarts = 1
SPECIFICATION FairSpec
PROPERTY StopReturns
PROPERTY LaterPictureServed
CHECK_DEADLOCK FALSE
