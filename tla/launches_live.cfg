SPECIFICATION FairSpec
CONSTANTS
    a = a
    b = b
    c1 = c1
    s1 = s1
    w1 = w1
    All = All
    None = None
    TVs = {a, b}
    MaxGame = 1
    Slots = {s1}
    Callers = {c1}
    Workers = {w1}
    MaxGeneration = 2
    KickTargets = {{a}}
    PressTargets = {{a}}
    Joins = {FALSE}
    OtherTargets = {{b}}
    StopTargets = {All}
    Faults = {"crash", "save"}
CHECK_DEADLOCK FALSE
PROPERTIES CommandsSettle
