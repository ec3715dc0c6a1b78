SPECIFICATION FairSpec
CONSTANTS
  Plans <- MCPlans
  Lifecycles <- MCLifecycles
  Faults = {"lost", "timeout", "lag"}
CHECK_DEADLOCK FALSE
INVARIANTS PickIsOwn LedgerAgrees ParentsPassed OneLateSample
PROPERTIES Concludes
