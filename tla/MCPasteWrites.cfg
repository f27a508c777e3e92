CONSTANTS
  p1 = p1
  p2 = p2
  p3 = p3
  Requests = {p1, p2, p3}
  Sizes <- LongThenShort
  Room = 1
  MaxPending = 2
  Fallible = TRUE
SPECIFICATION FairSpec
INVARIANTS
  PastesAreAccounted
  BytesAreTheBlobs
PROPERTIES
  EndsForAReason
  EveryPasteEnds
