SPECIFICATION Spec
SYMMETRY Symmetry
CONSTANTS
    a = a
    b = b
    c1 = c1
    c2 = c2
    s1 = s1
    w1 = w1
    w2 = w2
    All = All
    None = None
    TVs = {a, b}
    MaxGame = 1
    Slots = {s1}
    Callers = {c1, c2}
    Workers = {w1, w2}
    MaxGeneration = 2
    KickTargets = {{a}}
    PressTargets = {{a}}
    Joins = {FALSE}
    OtherTargets = {{a}, {b}}
    StopTargets = {a}
    Faults = {"crash", "patience"}
CHECK_DEADLOCK FALSE
INVARIANTS TasksOwned
PROPERTIES AtMostOneAttempt CloseKeepsWindow OthersUntouched ReturnsQuiet
