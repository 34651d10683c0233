SPECIFICATION MCSpec
CONSTANTS
    Users = {"a", "b", "c"}
    Sportsnet = {"b"}
    Rounds = 1
    MaxEngines = 2
    MaxRequests = 2
    MaxProbes = 2
INVARIANTS PageIsRequested  MeasurementsApart ControlKept
PROPERTIES RecordingKept ServicesEnd
CHECK_DEADLOCK FALSE
