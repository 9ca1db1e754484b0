CONSTANTS
  q = 29
  b = 6
  d = 27
  l = 5
  Bx = 2
  By = 23
  Short = Short
  Scalars <- MCScalars
  Messages = {0, 1, 2}
  H <- MCHash
SPECIFICATION Spec
INVARIANTS
  VerdictIsTheEquation
  SignedIsAccepted
  OneResponse
CHECK_DEADLOCK FALSE
