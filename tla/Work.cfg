SPECIFICATION WorkSpec
CONSTANTS
  t1 = t1
  t2 = t2
  t3 = t3
  c1 = c1
  NoRun = NoRun
  Tasks <- TwoTasks
  Calls <- OneCall
  Registered <- OneTask
  MaxConcurrency = 1
  MaxRetries = 1
  MaxCancels = 0
  MaxDeletes = 1
  MaxManualRetries = 0
  MaxRestarts = 1
  NumSections = 3
  MaxAutoRetries = 1
  Faulty <- ReportedDispatches
  MaxFaults = 1
  MaxClicks = 2
  s1 = s1
  Edits <- OneEdit
  NumTasks = 1
  MaxMoves = 1
  r1 = r1
  r2 = r2
  Roles <- TwoRoles
  MaxReviews = 2
  MaxReviewRetries = 1
  MaxReviewMishaps = 1
INVARIANTS
  WorkTypeOK
  ReportMatchesRow
  OneAtATime
  ResultIsWhole
  JudgedEditsKept
  WholeWhenAlone
PROPERTIES
  ImplementsLifecycle
  RegisteredTasksFinish
  CallsAnswered
  GeneratedKept
  GenerationSettles
  VerdictsKept
CHECK_DEADLOCK FALSE
