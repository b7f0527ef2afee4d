SPECIFICATION Spec
CONSTANTS
  Reqs = {r1, r2}
  MaxJobs = 2
  Free = Free
SYMMETRY Symmetry
INVARIANTS
  TypeOK
  LinkHasOneOwner
  OverMeansOffTheLink
PROPERTIES
  HardwareCancelledOnlyByDelete
CHECK_DEADLOCK FALSE
