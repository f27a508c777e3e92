CONSTANTS
  Data <- MCData
  OverCap <- MCOverCap
  Undecodable <- MCUndecodable
  Secrets <- MCSecrets
  MaxFlavors = 3
  MaxEntries = 2
  MaxAge = 2
  Stamps <- Ticks
  ClockSteps = FALSE
  MaxId = 4
  Captures <- AllCaptures
SPECIFICATION Spec
INVARIANTS
  IdentityHolds
  SecretsAreMasked
  InsertAnswersWithHolder
PROPERTIES
  PinnedLeavesOnlyByName
  SensitiveStays
  EvictsOldestFirst
  OnlyUnpinningOverfills
