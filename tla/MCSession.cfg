SPECIFICATION MCSpec
CONSTANTS
  Processes <- MCProcesses
  ModifierKeys <- MCModifiers
  Commands <- MCCommands
  Older <- MCOlder
  MaxEntries = 1
  CommandCap = 1
  Punctual = TRUE
  Copies = 1
  Stops = 1
INVARIANTS
  SessionIsSound
  PastesItsEntry
  RmKeepsItsWord
PROPERTIES
  SentLeavesNothingHeld
  EveryCommandEnds
CHECK_DEADLOCK FALSE
