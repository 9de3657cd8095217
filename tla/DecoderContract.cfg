SPECIFICATION Spec
CONSTANTS
  x1 = x1
  x2 = x2
  x3 = x3
  Experts <- MCExperts
  Native <- MCNative
  Warm <- MCWarm
  Layers = 2
  TopK = 2
  Tokens = {0, 1, 2, 3}
  BOS = 0
  Stray = 3
  Attempts = 2
  Budgets = {3, 20}
  MaxWorkers = 2
PROPERTIES
  ContractErrorStops
CHECK_DEADLOCK FALSE
