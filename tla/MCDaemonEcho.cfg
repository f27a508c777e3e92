CONSTANTS
  one = one
  two = two
  Data <- TwoData
  OverCap <- NoData
  Undecodable <- TwoData
  Secrets <- NoData
  MaxFlavors = 1
  MaxEntries = 2
  MaxAge <- NoAgeLimit
  Stamps <- OneTick
  ClockSteps = TRUE
  MaxId = 2
  Captures <- OneCopy
  Cut <- SpareData
  Droppable <- NoData
  Primary = FALSE
  EventCap = 1
  CommandCap = 4
  WireBound = 3
  Lossy = FALSE
  Frontends = FALSE
  Calls <- OneCall
  PinArgs <- NoPins
SPECIFICATION DaemonSpec
PROPERTIES
  CopyBackAddsNoRow
