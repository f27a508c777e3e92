SPECIFICATION FairSpec
CONSTANTS
  Queries <- MCQueries
  Images <- MCImages
  Matches <- MCMatches
  RequestCap = 2
  Capacity = 1
  EventCap = 1
  RowLimit = 2
  Viewports <- MCViewports
  Captures = 3
  Lives = 2
  Unread = 2
  Moves = 5
INVARIANTS
  AppletTypeOK
  HighlightIsRight
  TrustIsChecked
  PictureIsItsOwn
  PictureIsOnItsWay
  ListIsCurrent
  DrawnIsTheRows
PROPERTIES
  ScrollShowsRow
  StatusSettles
CHECK_DEADLOCK FALSE
