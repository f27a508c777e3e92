CONSTANTS
  one = one
  two = two
  Data <- TwoData
  OverCap <- NoData
  Undecodable <- TwoData
  Secrets <- NoData
  MaxFlavors = 1
  MaxEntries = 1
  MaxAge <- NoAgeLimit
  Stamps <- OneTick
  ClockSteps = TRUE
  MaxId = 1
  Captures <- OneCopy
  Cut <- OneData
  Droppable <- NoData
  Primary = FALSE
  EventCap = 1
  CommandCap = 1
  WireBound = 2
  Lossy = TRUE
  Frontends = TRUE
  Calls <- OneCall
  PinArgs <- NoPins
SPECIFICATION FairDaemonSpec
PROPERTIES
  FrontendsCatchUp
  GuardIsSpent
