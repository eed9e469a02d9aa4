SPECIFICATION MCSpec
CONSTANTS
  RawVars <- MCRawVars
  NonNegative <- MCNonNegative
  LessEqual <- MCLessEqual
  Worlds <- MCWorlds
  GenesisWorlds <- MCGenesisWorlds
  Transformations <- MCTransformations
  Execute <- ExecuteOn
  Passes <- PassesInvariants
  Encodable <- EncodableOp
  Observes <- ObservesOp
  RecordIds = {r1, r2}
  MaxEvents = 5
INVARIANTS
  TypeOK
  HeadDescribesWorld
  LedgerStaysReadable
  Reproducible
  ReplayReturnsSession
  OnlyVerifiedWorlds
  NoStaleLinearization
  TerminalIsFinal
  WorkFollowsAuthorization
  TraceTellsLedger
PROPERTY
  HistorySpec
SYMMETRY RecordSymmetry
