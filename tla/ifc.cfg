SPECIFICATION MCSpec
CONSTANTS
  Paths <- OnePath
  Models <- OnceChanged
  Measured <- ShownVars
  Saved <- SavedLater
  MaxChanges = 3
INVARIANTS
  ReloadReturnsBelief
  AuditAgreesWithLoader
  DrawnPiecesAreReady
