SPECIFICATION ProjectSpec
CONSTANTS
  e1 = e1
  e2 = e2
  e3 = e3
  m1 = m1
  a1 = a1
  a2 = a2
  c1 = c1
  NoRun = NoRun
  Analyses <- TwoAnalyses
  Untimed <- OneAnalysis
  Deaf <- OneAnalysis
  Tasks <- AnalysisTasks
  Registered <- AgentTasks
  Calls <- OneCall
  MaxConcurrency = 2
  MaxRetries = 0
  MaxCancels = 0
  MaxDeletes = 0
  MaxManualRetries = 0
  MaxRestarts = 0
  Typed <- ThreeTexts
  Mutations <- OneMutation
  Changes <- AllChanges
  Skeleton <- OneText
  MaxFileFaults = 1
  MaxSidecarFaults = 0
  Disturbances <- AtTheEditor
  MaxDisturbances = 2
  MaxTasks = 4
  FreshTasks = 3
  MaxEdits = 1
  MaxVisits = 1
  MaxAnalysisTroubles = 1
INVARIANTS
  ProjectTypeOK
  CleanIsSaved
  FilesAligned
  ScreenTells
PROPERTIES
  NothingOverwritten
  EditsReachDisk
  MutationEnds
  ManualKept
  TrackedEnds
  AnalysesEnd
CHECK_DEADLOCK FALSE
