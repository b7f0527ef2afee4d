SPECIFICATION LiveFairSpec
CONSTANTS
  Reqs = {r1}
  MaxJobs = 2
  Free = Free
INVARIANTS
  WatcherToldTheEnd
PROPERTIES
  ShowLeavesOnlyWithItsJob
  CancelEndsTheJob
  EarlyWaiterIsWoken
CHECK_DEADLOCK FALSE
