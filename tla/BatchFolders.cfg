SPECIFICATION FairSpec
CONSTANTS
  NoWriter = NoWriter
  Writers = {w1, w2, w3}
  Names = {x}
  MaxPerBatch = 2
  MaxCopies = 5
INVARIANTS
  OneInside
  CapKept
  NothingReplaced
  OverrunBounded
PROPERTIES
  PlacementEnds
CHECK_DEADLOCK FALSE
