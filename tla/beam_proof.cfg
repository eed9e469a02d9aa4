SPECIFICATION FirstReportSpec
CONSTANTS
  UMax = 7
  WMax = 63
  Million = 4
  Phi = 3
  Grain = 4
  Worlds <- EveryMean
  Genesis <- FirstWorld
  Demands <- EveryDemand
  Evidence = {mill, lab}
  Programs = {v1, v2, v3}
  v1 = v1
  v2 = v2
  v3 = v3
  mill = mill
  lab = lab
  MaxEvents = 3
INVARIANTS
  TypeOK
  GuestAcceptsEveryRequest
  VerdictWithinRounding
  VerifiedProofsBindTheirWorld
PROPERTIES
  VerifiedByNamedGuest
  SettledProofsVerify
CHECK_DEADLOCK FALSE
SYMMETRY Alike
