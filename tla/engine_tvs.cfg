SPECIFICATION Spec
CONSTANTS
    a = a
    b = b
    rec = rec
    video = video
    sound = sound
    None = None
    s1 = s1
    s2 = s2
    Size <- Sizes
    Slots = {s1, s2}
    Receivers = {a, b}
    Recorders = {}
    Producers = {video, sound}
    Makes <- Tracks
    Generated = FALSE
    QueueLimit = 1
    ByteLimit = 2
    MaxPackets = 2
SYMMETRY Symmetry
CHECK_DEADLOCK FALSE
INVARIANTS ThreadsOwned TornDown EndsAreTold
