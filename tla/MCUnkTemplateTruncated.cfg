\* an entry store that ends 1 or 4 ints short of an entry, and intact ones;
\* pointer lists intact or one pointer short
CONSTANTS
  NumFeatures = 3
  NumData = 1
  Vals = {0, 1}
  Base <- MCBase
  ReplaceWithSurface = {2}
  Shorts = {0, 1, 4}
  PtrShorts = {0, 1}
  Garbage <- MCGarbage
  Murmur <- MCMurmur
  HashBits = 8
  MaxEntries = 2
SPECIFICATION Spec
INVARIANTS
  NoSilentFallback
