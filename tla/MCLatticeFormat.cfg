\* beam of 3 over four paths (so beams are full, partly fake, or empty);
\* outputN below, at and between the beam sizes
CONSTANTS
  Nodes <- MCNodes
  NodeLen <- MCNodeLen
  NodeEntries <- MCNodeEntries
  EosBnd = 5
  BeamSize = 3
  OutputNs = {1, 2, 3}
SPECIFICATION Spec
INVARIANTS
  TypeOK
  OutputIsTopLattice
