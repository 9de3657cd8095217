SPECIFICATION ForwardSpec
CONSTANTS
  x = x
  y = y
  z = z
  gate = gate
  down = down
  Key <- AllPages
  ExpertId <- AllExperts
  Batches <- MCBatches
  Experts <- MCExperts
  Kinds <- MCKinds
  Picks <- MCPicks
  Candidates <- MCCandidates
  Layers = 2
  Slots = 7
  VramCapacity = 1
  Depth = 2
  Warmup = 0
  MaxTokens = 2
  MaxLoads = 100
  Garbage = Garbage
  NoTransfer = NoTransfer
  NoBatch = NoBatch
INVARIANTS
  PicksResident
  KernelPagesStay
SYMMETRY MCSymmetry
CHECK_DEADLOCK FALSE
