SPECIFICATION DocumentSpec
CONSTANTS
  e1 = e1
  e2 = e2
  e3 = e3
  m1 = m1
  Typed <- OneText
  Mutations <- NoMutation
  Changes <- AllChanges
  Skeleton <- NoText
  MaxFileFaults = 0
  MaxSidecarFaults = 0
  Disturbances <- JustLeave
  MaxDisturbances = 1
INVARIANTS
  EditsSurvive
CHECK_DEADLOCK FALSE
