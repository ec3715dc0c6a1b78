SPECIFICATION SessionSpec
CONSTANTS
  MaxRuns = 3
  MaxCalls = 6
  Faults = {"lost", "malformed"}
CHECK_DEADLOCK FALSE
INVARIANTS RejectedRunsNeverFinal FinalIsOwnAndOnce SettledFinalIsQuiet
