SPECIFICATION InterferenceSpec
CONSTANTS
  e1 = e1
  e2 = e2
  e3 = e3
  m1 = m1
  t1 = t1
  t2 = t2
  t3 = t3
  c1 = c1
  NoRun = NoRun
  Tasks <- ThreeTasks
  Calls <- OneCall
  Registered <- ThreeTasks
  MaxConcurrency = 1
  MaxRetries = 1
  MaxCancels = 1
  MaxDeletes = 1
  MaxManualRetries = 1
  MaxRestarts = 1
  Typed <- TwoTexts
  Mutations <- OneMutation
  Changes <- AllChanges
  Skeleton <- OneText
  MaxFileFaults = 1
  MaxSidecarFaults = 1
  Disturbances <- Anything
  MaxDisturbances = 2
INVARIANTS
  SlotsAccounted
  NobodyWaitsInVain
  ChangeIsScheduled
PROPERTIES
  NeverEmptied
SYMMETRY TaskSymmetry
CHECK_DEADLOCK FALSE
