CONSTANTS
  Items <- TwoAndALog
  Artifacts <- TwoArtifacts
  Lengthless <- OneLengthless
  jar = jar
  index = index
  btlog = btlog
  v1 = v1
  v2 = v2
  Versions = {v1, v2}
  Cut = Cut
  MayDryRun = FALSE
  MaxMoves = 2
  MaxFaults = 2
SPECIFICATION FairSpec
INVARIANTS
  TypeOK
  ObservedInItsRun
PROPERTIES
  RecordedBeforeAdopted
  CatchesUp
CHECK_DEADLOCK FALSE
