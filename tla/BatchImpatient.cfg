SPECIFICATION BatchSpec
CONSTANTS
  NumSections = 2
  MaxAutoRetries = 1
  Faulty <- NoDispatch
  MaxFaults = 0
  MaxClicks = 2
INVARIANTS
  ResultIsAlwaysWhole
CHECK_DEADLOCK FALSE
