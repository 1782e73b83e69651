SPECIFICATION Spec
CONSTANTS
  NumChapters = 2
  MaxDeleteClicks = 2
  MaxTroubles = 2
  MaxSections = 3
  Titles = {"a", "new"}
  NewTitle = "new"
  MaxSpawns = 3
  MaxRetries = 2
  MaxFailures = 2
  IdChapters = 2
  MaxMishaps = 2
INVARIANTS
  ServicesTypeOK
  NothingLost
  StoresAgree
  UndoRestores
  SectionsKeepHeadings
  NoOrphan
  QuitLeavesNone
  OneIdPerChapter
  MarkedIsMigrated
PROPERTIES
  OneSubtreeMoves
  UndoIsExact
  WindowCloses
  ServesAgain
  MigrationEnds
CHECK_DEADLOCK FALSE
