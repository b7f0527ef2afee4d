SPECIFICATION Spec
CONSTANTS
  Reqs = {r1, r2}
  Values = {9, 255}
  Walls = {"plain", "dim"}
  CapOf <- MCCapOf
  FirstWall = "plain"
  MaxCrash = 1
  MaxFail = 1
SYMMETRY Symmetry
INVARIANTS Persisted CapHolds LiveTellsThePanel
CHECK_DEADLOCK FALSE
