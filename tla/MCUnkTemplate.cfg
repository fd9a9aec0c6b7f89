\* an intact entry store, plain and alias entries, up to two per trie node,
\* with pointer lists intact or one pointer short
CONSTANTS
  NumFeatures = 3
  NumData = 1
  Vals = {0, 1}
  Base <- MCBase
  ReplaceWithSurface = {2}
  Shorts = {0}
  PtrShorts = {0, 1}
  Garbage <- MCGarbage
  Murmur <- MCMurmur
  HashBits = 8
  MaxEntries = 2
SPECIFICATION Spec
INVARIANTS
  TypeOK
  PatternCheckExact
