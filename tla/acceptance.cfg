SPECIFICATION MCSpec
CONSTANTS
  RawVars <- MCRawVars
  NonNegative <- MCNonNegative
  LessEqual = {}
  Worlds <- MCWorlds
  GenesisWorlds <- MCGenesis
  Transformations <- MCTransformations
  Execute <- ExecuteRun
  Passes <- PassesInvariants
  Encodable <- EncodableRun
  Observes <- ObservesRun
  RecordIds <- MCRecordIds
  MaxEvents = 4
  Scans = {"s1", "s2", "s3"}
  Fits <- MCFits
  Checks <- MCChecks
  Changes <- MCChanges
  Readings = {3}
  Policies <- MCPolicies
INVARIANTS
  IssuedReceiptsAreCoherent
  AcceptsOnEvidenceOnly
  TakesIssuedReceipts
  RecordedAcceptancesHold
