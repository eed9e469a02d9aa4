SPECIFICATION MCSpec
CONSTANTS
  Spellings <- MCSpellings
  Models <- MCModels
  Certificates <- MCCertificates
  Garbled <- MCGarbled
  Requests <- MCRequests
  MaxWrites = 2
  wall = wall
  door = door
  storey = storey
  Entities = {wall, door, storey}
  Elements = {wall, door}
  Modes = {structure, graph}
  FirstMode = structure
  structure = structure
  graph = graph
  Unknown = unknown
  Malformed = malformed
  Inherited = inherited
  Nothing = nothing
  MaxActs = 0
  Beams <- MCBeams
  Genesis <- MCGenesis
  Checks <- MCChecks
  Operations <- MCOperations
  MaxRuns = 2
  MaxChecks = 2
INVARIANT
  DrawnProposalsWereDecided
CHECK_DEADLOCK FALSE
