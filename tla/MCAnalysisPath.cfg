CONSTANTS
  Boundaries = {2, 3, 4, 5}
  MaxBeam = 2
  Targets = {1, 2, 3, 4, 5, 6}

SPECIFICATION Spec

INVARIANT TypeOK
INVARIANT WalkSeesEveryPointerOnce
INVARIANT SeekAgreesWithPath
INVARIANT ChunkReadSeesSlice
PROPERTY RefinesPathWalk
