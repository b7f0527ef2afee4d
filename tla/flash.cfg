SPECIFICATION MCSpec
CONSTANTS
  Pages = {0, 1, 2, 3}
  Window = {0, 1}
  Blank = {2}
  MustVerify = {0, 1, 2}
  Attempts = 4
  Reads = 4
  MaxMisses = 2
  Chunk = 4
  Prefix = 2
  Batches = TRUE
  Chunks = 3
  Echo = FALSE
  Last = 4
  Bank = {0, 1, 2}
  Guarded = {1}
  MaxCommands = 4
  Specs <- MCSpecs
  MaxGens = 2
  RecordLists <- MCLists
  Cuts = {0, 1, 4, 6}
  Copies <- MCCopies
  Drops <- MCDrops
  Sources <- MCSources
  Library <- MCLibrary
INVARIANTS
  AllTypes
  OkMeansWritten
  StopsWithAWholeBlock
  FailureHasACause
  ReadsTellThePlace
  InstallTellsTheTruth
  BankIsAsSaid
  EraseTakesNothingAway
  EveryPixelHasItsPlace
  CardGetsTheImage
  FilesReadBack
  ImportNamesTheRest
CHECK_DEADLOCK FALSE
