SPECIFICATION Spec
CONSTANTS
  VocabSize = 2
  BlockSizes <- MCBlockSizes
  MaxSeqLen = 6
  Native <- MCNative
  Prompts <- MCPrompts
  InitialPoison <- Sound
  AliasedReplies = FALSE
  MaxRounds = 2
  MaxCheckpoints = 9
  NoRound = NoRound
  NoRequest = NoRequest
INVARIANTS
  TypeOK
  RoundShape
  CommittedIsGreedy
  CheckpointMatchesContext
PROPERTIES
  LongestPrefixCommitted
  RefinesGreedyDecoding
CHECK_DEADLOCK FALSE
