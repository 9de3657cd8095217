SPECIFICATION FairSpec
CONSTANTS
  t1 = t1
  t2 = t2
  Tokens <- MCTokens
  NoToken = NoToken
  NoSession = NoSession
  Layers = 3
  MaxSeqLen = 2
  MaxSteps = 3
INVARIANTS
  ReadyForNextToken
  WholeTokens
  BridgeAgrees
  LeaseReleasedOrGone
PROPERTIES
  CommitIsWholePass
  StepReturns
CHECK_DEADLOCK FALSE
