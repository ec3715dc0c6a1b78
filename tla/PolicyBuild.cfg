SPECIFICATION Spec
CONSTANTS
  Demonstrations <- MCDemonstrations
  HandGraphs <- MCHandGraphs
  Trusted <- MCTrusted
  CycleActions <- MCCycleActions
  Development <- MCDevelopment
  HeldOut <- MCHeldOut
  InitialCount = 1
  MaxNodeVisits = 12
  RunLengths = {3, 5, 6, 7, 8, 9, 10, 12}
  Literals <- MCLiterals
  SpatialNames = {"pose"}
  Dirs = {d1}
  MaxCommands = 3
  MaxEdits = 1
INVARIANTS OneCodePerDirectory FunnelBlamesTheFailure
PROPERTIES GraspsArePaired ExtractedCyclesBind
CHECK_DEADLOCK FALSE
