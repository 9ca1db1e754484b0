CONSTANTS
  prediction = prediction
  outcome = outcome
  rotation = rotation
  manifest = manifest
  p = p
  q = q
  a = a
  b = b
  none = none
  MaxLeaves = 4
  Types <- MCTypes
  Parties <- MCParties
  Names <- MCNames
  NotStr = none
  RotationType = rotation
  ManifestType = manifest
  Exports <- MCExports
SPECIFICATION Spec
INVARIANTS
  TypeOK
  LastWriteWins
  ContestedSubjectsKeepEveryIssuer
  AccountingExact
  IdentityGraphExact
CHECK_DEADLOCK FALSE
