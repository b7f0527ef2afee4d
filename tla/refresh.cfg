SPECIFICATION Spec
CONSTANTS
  U32 = 64
  U16Max = 7
  Black = Black
  Before = Before
  Walls <- MCWalls
  Values = {200}
  MaxChunk = 2
  Latches = 2
  MaxFrames = 2
  MaxLosses = 1
INVARIANTS
  RefreshShowsThePicture
  NothingOutOfPlace
  UnderTheCap
CHECK_DEADLOCK FALSE
