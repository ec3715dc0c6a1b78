SPECIFICATION FairSpec
CONSTANTS
  Nodes <- MCNodes
  Entries <- MCEntries
  NextOf <- MCNextOf
  NoNode = "none"
  MaxNodeVisits = 3
  MaxAttempts <- MCMaxAttempts
  Ids <- MCIds
  NoId = NoId
  Attributable <- MCAttributable
  FirstConstraint <- MCFirstConstraint
  NotAResult = NotAResult
  align = align
  pose = pose
  insert = insert
CHECK_DEADLOCK FALSE
INVARIANTS ActsOnFreshEvidence AttemptsAreCalls BlameIsAttributable
PROPERTIES KeepsPromise Terminates
