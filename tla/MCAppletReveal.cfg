SPECIFICATION Spec
CONSTANTS
  Queries <- MCQueries
  Images <- MCImages
  Matches <- MCMatches
  Viewports <- MCViewports
  RequestCap = 2
  Capacity = 1
  EventCap = 1
  RowLimit = 2
  Captures = 2
  Lives = 2
  Unread = 2
  Moves = 4
INVARIANTS
  ClosedHoldsNothing
CHECK_DEADLOCK FALSE
