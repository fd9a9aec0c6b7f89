CONSTANTS
  a = a
  b = b
  kk = kk
  z = z
  Alphabet = {a, b, kk, z}
  Classes = {"Kata", "Kanji", "Other"}
  ClassOf <- MCClassOf
  CandidateWords <- MCWords
  Makers <- MCMakers
  MaxInputLen = 4

SPECIFICATION Spec
CHECK_DEADLOCK FALSE

INVARIANT TypeOK
INVARIANT CoveredInputConnects
INVARIANT UnkSeedsExact
INVARIANT NotPrefixSound
PROPERTY AllMakersReturn
