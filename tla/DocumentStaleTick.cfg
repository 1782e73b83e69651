SPECIFICATION DocumentSpec
CONSTANTS
  e1 = e1
  e2 = e2
  e3 = e3
  m1 = m1
  Typed <- OneText
  Mutations <- OneMutation
  Changes <- AllChanges
  Skeleton <- OneText
  MaxFileFaults = 0
  MaxSidecarFaults = 0
  Disturbances <- JustEcho
  MaxDisturbances = 1
PROPERTIES
  NothingOverwritten
CHECK_DEADLOCK FALSE
