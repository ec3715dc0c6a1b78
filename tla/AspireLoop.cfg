CONSTANTS NInvocations = 2 NGenerations = 2 Population = 2 MaxAttempts = 2 NTasks = 1 TopK = 1 Needed = 100 SamePrefix = TRUE
SPECIFICATION FairSpec
INVARIANTS ManifestIsEarned ParentIsUnbeaten
PROPERTY Ends
CHECK_DEADLOCK FALSE
