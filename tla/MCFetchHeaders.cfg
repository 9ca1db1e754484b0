CONSTANTS
  Ranges <- ThreeRanges
  Batch = 3
  Retries = 2
  Missing = Missing
  MaxFaults = 2
  MaxReorgs = 1
  MaxRuns = 4
SPECIFICATION FairSpec
INVARIANTS
  WorkIsNotRepeated
PROPERTIES
  FetchedIsNeverLost
  RangeIsCollected
CHECK_DEADLOCK FALSE
