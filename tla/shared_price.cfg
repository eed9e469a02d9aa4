SPECIFICATION Spec
CONSTANTS
  Paths <- OnePath
  Models <- SharedModels
  Saved <- SharedModels
  Measured <- ShownVars
  MaxChanges = 2
INVARIANT
  EveryRawMeanReloads
