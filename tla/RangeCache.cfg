SPECIFICATION Spec
CONSTANTS
  k1 = k1
  k2 = k2
  w1 = w1
  w2 = w2
  Keys <- MCKeys
  Threads <- MCThreads
  Size = 2
  DownloadBudget = 6
  CacheBudget = 4
  MaxRestarts = 1
SYMMETRY Symmetry
INVARIANTS
  OfficialIsRight
  ProofHasPayload
  DiskWithinBudget
  DownloadBounded
PROPERTIES
  PayloadIsFinal
