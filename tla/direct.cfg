SPECIFICATION FairSpec
CONSTANTS
    Pieces = 3
    MaxRanges = 1
INVARIANTS ServedUntilClosed CallersAreTold CompletedIsTrue
PROPERTIES SessionIsOwned FailureStays SessionEnds
CHECK_DEADLOCK FALSE
