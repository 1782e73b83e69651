SPECIFICATION TreeSpec
CONSTANTS
  MaxSections = 3
  Titles = {"a", "new"}
  NewTitle = "new"
INVARIANT
  TreeFollowsMarkdown
CHECK_DEADLOCK FALSE
