SPECIFICATION Spec
CONSTANTS
  Reqs = {r1}
  MaxJobs = 1
  Free = Free
INVARIANT NobodyWaitsForAStoppedWorker
CHECK_DEADLOCK FALSE
