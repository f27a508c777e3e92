CONSTANTS
  text = text
  html = html
  Mimes = {text, html}
  Selections = 2
  Chunks = 2
  Cap = 1
  Capacity = 1
  Fallible = TRUE
SPECIFICATION FairSpec
INVARIANTS
  LoopIsPending
  WholeOrDropped
PROPERTIES
  KeepsPromise
  EveryReadEnds
