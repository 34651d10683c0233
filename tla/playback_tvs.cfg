CONSTANTS
  Receivers = {a,b}
  Channels = {c1}
  Pages = {}
  Clips = {g1}
  Videos = {}
  ReceiverEvents = {"error"}
  MaxStreams = 2
  MaxGeneration = 3
  Stoppers = {k1,k2}
  All = All
  None = None
SPECIFICATION Spec
SYMMETRY Symmetry
CHECK_DEADLOCK FALSE
INVARIANTS Consistent
PROPERTIES StopReturnsQuiet ImplementsLease
