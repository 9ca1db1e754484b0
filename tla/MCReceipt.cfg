CONSTANTS
  prediction = prediction
  rotation = rotation
  manifest = manifest
  p = p
  q = q
  a = a
  none = none
  w1 = w1
  w2 = w2
  old = old
  new = new
  operator = operator
  Types <- MCTypes
  Parties <- MCParties
  Names <- MCNames
  NotStr = none
  RotationType = rotation
  ManifestType = manifest
  Witnesses <- MCWitnesses
  KeyIds <- MCKeyIds
  LogName = operator
  LogKeyId = new
  NotStated = none
  Contents <- MCContents
  SignatureBlocks <- MCSignatureBlocks
  TrustRoots <- MCTrustRoots
  KeyFiles <- MCKeyFiles
  Elsewhere <- MCElsewhere
  NotYet = none
  MaxSize = 3
  MaxMixes = 1
SPECIFICATION Spec
INVARIANTS
  CheckedReceiptIsTrue
  HeadReceiptsCheckOut
CHECK_DEADLOCK FALSE
