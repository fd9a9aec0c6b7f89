\* surfaces of one and two codepoints, one value str2int knows and one it
\* does not, every failure; SimpleCsv inputs of up to three lines, DoubleCsv
\* inputs of one line of up to two words
CONSTANTS
  c = c
  k = k
  u = u
  h = h
  Surfs <- MCSurfs
  Vals <- MCVals
  Id <- MCId
  Comments <- MCComments
  Errs = {"none", "utf8", "fields", "import"}
  MaxLines = 3
  MaxDblLines = 1
  MaxTokens = 2
SPECIFICATION Spec
\* the client stops once the input is read to the end
CHECK_DEADLOCK FALSE
INVARIANTS
  TypeOK
  ReadReturnsNextExample
  ReadFailureLeavesPrefix
PROPERTY
  ReadingEnds
