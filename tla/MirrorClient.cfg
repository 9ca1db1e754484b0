CONSTANTS
  Package = 4
  MaxPackages = 2
  From = {0, 3, 5, 12}
  MaxSize = 11
  MaxChanges = 2
  MaxFaults = 2
SPECIFICATION FairSpec
INVARIANTS
  TypeOK
  OwnProofsVerify
  OnlyGapsAreRefused
  GoodRunsMirrorTheTree
PROPERTY EverythingIsMirrored
CHECK_DEADLOCK FALSE
