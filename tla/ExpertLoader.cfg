SPECIFICATION FairSpec
CONSTANTS
  a = a
  b = b
  c = c
  d = d
  Key <- MCKey
  Batches <- MCBatches
  Slots = 3
  Depth = 2
  MaxLoads = 6
  Garbage = Garbage
  NoTransfer = NoTransfer
  NoBatch = NoBatch
INVARIANTS
  VisiblePagesAreLoaded
  InFlightTracked
  ReturnedSlotsHold
  NoCopyAfterDestroy
PROPERTIES
  BatchEnds
CHECK_DEADLOCK FALSE
