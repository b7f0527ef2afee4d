SPECIFICATION Spec
CONSTANTS
  Clients = {c1, c2}
  Frames = 2
  Parts = 2
  MaxRuns = 2
  HeaderOf <- MCHeaders
  PushQueue = 2
  IdlePolls = 2
  Readers = {s1, s2}
  Capacity = 2
  MaxLines = 3
INVARIANTS FramesArrive AnsweredFramesAreKept
PROPERTIES StreamsEnd IsALineFeed
CHECK_DEADLOCK FALSE
