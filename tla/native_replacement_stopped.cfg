CONSTANTS
  Receivers = {a,b}
  Channels = {c1}
  Pages = {}
  Clips = {}
  Videos = {v1}
  ReceiverEvents = {"streaming", "error"}
  MaxStreams = 2
  MaxGeneration = 3
  Stoppers = {k1}
  All = All
  None = None
SPECIFICATION Spec

CHECK_DEADLOCK FALSE
INVARIANT RestingConsistent

