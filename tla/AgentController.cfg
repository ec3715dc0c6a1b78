CONSTANTS Families = {"pickplace"} Happening <- Everything MaxEpisodes = 2 Threshold = 100
SPECIFICATION AgentSpec
INVARIANTS JudgesAreNotHeard SpecIsSeen
CHECK_DEADLOCK FALSE
