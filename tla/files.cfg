SPECIFICATION MCSpec
CONSTANTS
  Fetchers = {p1, p2}
  Listed <- MCImages
  Chips <- MCParts
  NoChip = NoChip
  Ids = {1, 2}
  Models <- MCModels
  Clients = {c1, c2}
  MaxClock = 1
  N = 1
  MaxRuns = 3
  Fresh = TRUE
SYMMETRY ClientSymmetry
INVARIANTS
  AllTypes
  RightImage
  ReportIsTrue
  BackupIsKept
  AnswersAreTrue
  OkMeansProvisioned
  RecordsSurvive
  RecordsComeBack
PROPERTIES
  CommitGate
  OwnBytes
CHECK_DEADLOCK FALSE
