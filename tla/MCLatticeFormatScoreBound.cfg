\* outputN one above the beam size (topN given larger than the beam)
CONSTANTS
  Nodes <- MCNodes
  NodeLen <- MCNodeLen
  NodeEntries <- MCNodeEntries
  EosBnd = 5
  BeamSize = 3
  OutputNs = {4}
SPECIFICATION Spec
INVARIANTS
  ScoreLoopInBeam
