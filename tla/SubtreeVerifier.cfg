CONSTANT MaxTree = 9
SPECIFICATION CallSpec
INVARIANTS
  VerdictIsExact
  RebuiltHashesAreNodes
  TwoVerifiersAgree
  PositionsOrdered
PROPERTY Terminates
CHECK_DEADLOCK FALSE
