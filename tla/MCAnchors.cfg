CONSTANTS
  d1 = d1
  d2 = d2
  a = a
  b = b
  Setups <- MCSetups
  NoFile = NoFile
  Unasked = Unasked
  Undescribed = Undescribed
SPECIFICATION AnchorSpec
INVARIANTS
  ReplayFollowsThePaths
  CountIsOfAnchoredFiles
  ExitIsHonest
CHECK_DEADLOCK FALSE
