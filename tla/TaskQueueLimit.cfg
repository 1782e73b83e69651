SPECIFICATION Spec
CONSTANTS
  t1 = t1
  t2 = t2
  t3 = t3
  c1 = c1
  NoRun = NoRun
  Tasks <- ThreeTasks
  Calls <- OneCall
  Registered <- ThreeTasks
  MaxConcurrency = 1
  MaxRetries = 1
  MaxCancels = 0
  MaxDeletes = 0
  MaxManualRetries = 0
  MaxRestarts = 0
INVARIANTS
  ConcurrencyLimit
CHECK_DEADLOCK FALSE
