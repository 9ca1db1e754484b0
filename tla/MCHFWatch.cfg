CONSTANTS
  m1 = m1
  m2 = m2
  c1 = c1
  c2 = c2
  n1 = n1
  n2 = n2
  Ids <- MCIds
  Commits <- MCCommits
  NamesOf <- MCNamesOf
  NoSha = NoSha
  NoId = NoId
  Unavailable = Unavailable
  MayDryRun = FALSE
  MaxRuns = 3
  MaxMoves = 3
  MaxFaults = 3
  MaxEvents = 3
SPECIFICATION Spec
SYMMETRY Symmetry
INVARIANTS
  TypeOK
  StateIsLogged
  DetailsAreFramed
  CardBelongsToSha
  OneDigestPerRun
PROPERTIES
  BaselineMovesWithItsLeaf
  RecordedBeforeAdopted
CHECK_DEADLOCK FALSE
