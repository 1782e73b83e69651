SPECIFICATION NestedFairSpec
CONSTANTS
  a1 = a1
  a2 = a2
  c1 = c1
  NoRun = NoRun
  Analyses <- TwoAnalyses
  Untimed <- TwoAnalyses
  Deaf <- TwoAnalyses
  Tasks <- AnalysisTasks
  Registered <- AgentTasks
  Calls <- OneCall
  MaxConcurrency = 2
  MaxRetries = 0
  MaxCancels = 0
  MaxDeletes = 0
  MaxManualRetries = 0
  MaxRestarts = 0
PROPERTIES
  TimeoutsEnforced
CHECK_DEADLOCK FALSE
