SPECIFICATION MCSpec
CONSTANTS
  Raw = {4}
  Derived = {1, 2, 3}
  RawVars <- MCRawVars
  Topo <- MCTopo
  Expr <- MCExpr
  Means <- MCMeans
  Sigmas <- MCSigmas
INVARIANTS
  OrderIsTopological
  OrderIsSmallest
  RefusedIffCyclic
  AffectedIsLeastClosed
  IncrementalMatchesComplete
PROPERTY
  LoopsEnd
CHECK_DEADLOCK FALSE
