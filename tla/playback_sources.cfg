CONSTANTS
  Receivers = {a}
  Channels = {}
  Pages = {p1}
  Clips = {}
  Videos = {v1}
  ReceiverEvents = {"error"}
  MaxStreams = 3
  MaxGeneration = 3
  Stoppers = {k1,k2}
  All = All
  None = None
SPECIFICATION FairSpec

CHECK_DEADLOCK FALSE
INVARIANTS ExclusiveReceivers NoneLost
PROPERTIES SupersededNeverAdds CallsReturn ClosesEnd
