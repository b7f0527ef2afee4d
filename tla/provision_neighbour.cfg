SPECIFICATION Spec
CONSTANTS
  N = 2
  MaxRuns = 1
  Fresh = TRUE
INVARIANT OthersKeepTheirWindows
CHECK_DEADLOCK FALSE
