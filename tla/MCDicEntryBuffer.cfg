\* one feature and one data field, aliases of up to three rows; storage
\* fills, copies and reads (the value fills have a run of their own)
CONSTANTS
  NumFeatures = 1
  NumData = 1
  Vals = {0, 1}
  MaxAlias = 3
  Garbage <- MCGarbage
SPECIFICATION StorageSpec
INVARIANTS
  TypeOK
  RowsMatchEntry
PROPERTY
  RefinesEntryRows
