SPECIFICATION FairSpec
CONSTANTS
  Procs <- MCProcs
  Keys = 5
  Stops = 2
INVARIANTS
  KeyIsFoundAlone
  OneAtATime
PROPERTIES
  WrittenInPrivate
  ServesAgain
CHECK_DEADLOCK FALSE
