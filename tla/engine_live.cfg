SPECIFICATION FairSpec
CONSTANTS
    a = a
    b = b
    rec = rec
    video = video
    sound = sound
    None = None
    s1 = s1
    s2 = s2
    Size <- Sizes
    Slots = {s1}
    Receivers = {a}
    Recorders = {rec}
    Producers = {video}
    Makes <- Picture
    Generated = TRUE
    QueueLimit = 1
    ByteLimit = 2
    MaxPackets = 2
CHECK_DEADLOCK FALSE
INVARIANTS QueuesKept
PROPERTIES ImplementsFeed EngineEnds
