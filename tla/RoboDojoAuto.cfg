SPECIFICATION AutoSpec
CONSTANTS
  Suites <- MCSuites
  Skills <- MCSkills
  Names <- MCNames
  Tiers = {3, 4, 5}
  MaxScenes = 2
  Wishes <- MCWishes
  OwnLabels <- MCOwnLabels
  Left <- MCLeft
  HalfOf <- MCHalfOf
  Faulty = TRUE
INVARIANTS
  TowerStands
  GraspIsNear
  SuccessIsReal
CHECK_DEADLOCK FALSE
