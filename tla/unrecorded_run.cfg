SPECIFICATION Spec
CONSTANTS
  RawVars <- MCRawVars
  NonNegative <- MCNonNegative
  LessEqual <- MCLessEqual
  Worlds <- MCWorlds
  GenesisWorlds <- MCGenesisWorlds
  Transformations <- MCTransformations
  Execute <- ExecuteOn
  Passes <- PassesInvariants
  Encodable <- EncodableOp
  Observes <- ObservesOp
  RecordIds = {}
  MaxEvents = 2
PROPERTY
  EveryRunIsRecorded
