CONSTANTS
  NumFeatures = 1
  NumData = 1
  Vals = {0, 1}
  MaxAlias = 3
  Garbage <- MCGarbage
SPECIFICATION Spec
INVARIANT ValueFillRowsMatch
