CONSTANTS
  one = one
  two = two
  Data <- TwoData
  OverCap <- NoData
  Undecodable <- TwoData
  Secrets <- NoData
  MaxFlavors = 1
  MaxEntries = 1
  MaxAge <- NoAgeLimit
  Stamps <- OneTick
  ClockSteps = TRUE
  MaxId = 2
  Captures <- TwoCopies
  Cut <- TwoData
  Droppable <- NoData
  Primary = FALSE
  EventCap = 1
  CommandCap = 1
  WireBound = 3
  Lossy = FALSE
  Frontends = FALSE
  Calls <- OneCall
  PinArgs <- NoPins
SPECIFICATION DaemonSpec
SYMMETRY DataSymmetry
INVARIANTS
  GuardAwaitsEcho
  LastCopyIsKept
