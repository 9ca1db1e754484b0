CONSTANTS
  prediction = prediction
  rotation = rotation
  manifest = manifest
  p = p
  q = q
  a = a
  none = none
  w1 = w1
  w2 = w2
  old = old
  new = new
  operator = operator
  Types <- MCTypes
  Parties <- MCParties
  Names <- MCNames
  NotStr = none
  RotationType = rotation
  ManifestType = manifest
  Witnesses <- MCWitnesses
  KeyIds <- MCKeyIds
  LogName = operator
  LogKeyId = new
  NotStated = none
  Contents <- MCContents
  NonObjects <- MCNonObjects
  Queries <- MCQueries
  SignatureBlocks <- MCSignatureBlocks
  TrustRoots <- MCTrustRoots
  KeyFiles <- MCKeyFiles
  LogKeys <- MCLogKeys
  NotGiven = none
  MaxSize = 3
  MaxChanges = 2
SPECIFICATION Spec
INVARIANT QuorumIsOfRootedWitnesses
CHECK_DEADLOCK FALSE
