SPECIFICATION CarrierSpec
SYMMETRY CarrierSymmetry
CONSTANTS
  RawVars <- MCRawVars
  NonNegative <- MCNonNegative
  LessEqual <- MCLessEqual
  Worlds <- MCWorlds
  GenesisWorlds <- MCGenesis
  Transformations <- MCTransformations
  Execute <- ExecuteFollowed
  Passes <- PassesInvariants
  Encodable <- EncodableOp
  Observes <- ObservesOp
  RecordIds = {}
  MaxEvents = 3
  Paths = {p1, p2}
  Keys = {k1, k2}
  KeyId <- MCKeyId
  Unsigned = unsigned
  Recompiled <- RecompiledWorld
  EmbeddedLimit = 100
  TraceBound = 4
INVARIANTS
  WrittenCarriersLoad
  WrittenLedgersReplay
  TraceSuffixTellsLedger
