SPECIFICATION Spec
CONSTANTS
  Duration = 4000
  Videos <- MCVideos
  Answers <- MCAnswers
  Refinements <- MCRefinements
  MaxCommands = 3
INVARIANTS
  ReadyTracesAreSound
  PassIsComplete
  SplitsInsideTheParent
  VerdictsAgree
CHECK_DEADLOCK FALSE
