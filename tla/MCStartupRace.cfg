SPECIFICATION Spec
CONSTANTS
  Procs <- MCProcs
  Keys = 5
  Stops = 1
INVARIANTS
  KeyIsFound
CHECK_DEADLOCK FALSE
