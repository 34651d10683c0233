SPECIFICATION HistorySpec
SYMMETRY Symmetry
CONSTANTS
    a = a
    b = b
    c1 = c1
    s1 = s1
    s2 = s2
    w1 = w1
    All = All
    None = None
    TVs = {a, b}
    MaxGame = 1
    Slots = {s1, s2}
    Callers = {c1}
    Workers = {w1}
    MaxGeneration = 3
    KickTargets = {}
    PressTargets = {{a}, {b}}
    Joins = {TRUE}
    OtherTargets = {}
    StopTargets = {a}
    Faults = {"patience"}
CHECK_DEADLOCK FALSE
PROPERTIES OverruledNeverPlays StartedIsOnTVs
