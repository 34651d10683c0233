SPECIFICATION MCSpec
CONSTANTS
    Commands = {"p1", "p2"}
    StreamFaults = {"stuck", "disk"}
INVARIANTS ClosedIsGone StatusIsTrue
PROPERTIES ListedUntilGone PartsAreOwned PartsEnd
CHECK_DEADLOCK FALSE
