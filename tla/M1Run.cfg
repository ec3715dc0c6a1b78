SPECIFICATION FairSpec
CONSTANTS
  Nodes <- MCNodes
  NextOf <- MCNextOf
  NoNode = "none"
  MaxNodeVisits = 32
  MaxAttempts <- MCMaxAttempts
  Ids <- MCIds
  NoId = NoId
  Attributable <- MCAttributable
  FirstConstraint <- MCFirstConstraint
  NotAResult = NotAResult
  ActionOf <- MCActionOf
  CycleEntry = "pick"
  GraspEntry = "grasp"
  MaxProbes = 3
  GraspPose <- MCGraspPose
  TubeAxis <- MCTubeAxis
  HolderPose <- MCHolderPose
  GraspHole <- MCGraspHole
  None = None
CHECK_DEADLOCK FALSE
INVARIANTS PreflightSuffices AttachmentIsEarned ControllersKeepContract
PROPERTIES Returns
