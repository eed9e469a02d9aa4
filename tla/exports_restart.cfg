SPECIFICATION CarrierSpec
SYMMETRY CarrierSymmetry
CONSTANTS
  RawVars <- MCRawVars
  NonNegative <- MCNonNegative
  LessEqual <- MCLessEqual
  Worlds <- MCWorlds
  GenesisWorlds <- MCGenesis
  Transformations <- Narrowing
  Execute <- ExecuteFollowed
  Passes <- PassesInvariants
  Encodable <- EncodableOp
  Observes <- ObservesOp
  RecordIds = {}
  MaxEvents = 3
  Paths = {p1, p2}
  Keys = {k1, k2}
  KeyId <- MCKeyId
  Unsigned = unsigned
  Recompiled <- RecompiledWorld
  EmbeddedLimit = 4
  TraceBound = 4
INVARIANTS
  ExportsAreRestartable
