CONSTANTS
  one = one
  two = two
  Data <- TwoData
  OverCap <- NoData
  Undecodable <- TwoData
  Secrets <- NoData
  MaxFlavors = 1
  MaxEntries = 1
  MaxAge = 1
  Stamps <- TwoTicks
  ClockSteps = FALSE
  MaxId = 1
  Captures <- OneCopy
  Cut <- OneData
  Droppable <- NoData
  Primary = TRUE
  EventCap = 1
  CommandCap = 1
  WireBound = 2
  Lossy = TRUE
  Frontends = TRUE
  Calls <- TwoCalls
  PinArgs <- AnyPin
SPECIFICATION DaemonSpec
INVARIANTS
  DaemonIsSound
  StaleListIsAnnounced
