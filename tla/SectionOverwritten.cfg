SPECIFICATION SectionSpec
CONSTANTS
  s1 = s1
  Edits <- OneEdit
  NumTasks = 1
  MaxMoves = 0
INVARIANTS
  NeverSilently
CHECK_DEADLOCK FALSE
