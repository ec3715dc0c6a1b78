SPECIFICATION FairSpec
CONSTANTS
  NTasks = 3
  NCandidates = 1
  Resetting = {2}
  Needed = 100
  Faults = {"lost", "timeout", "lag"}
CHECK_DEADLOCK FALSE
INVARIANTS SuccessIsOwn QuietStartsFromLayout
PROPERTIES Finishes
