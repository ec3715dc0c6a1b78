SPECIFICATION EvidenceSpec
CONSTANTS
  Prompts <- MCPrompts
  Width = 2
  LinkReach = 2
  MatchReach = 2
  MaxGap = 2
  Points = 4
  MinVisible = 20
  Frames = 5
  Scenes <- MCScenes
  Traces <- MCTraces
  TrackAnswers <- MCTrackAnswers
  TicksPerMs = 4
  VideoTicks = 22
  Structures <- MCStructures
  MaxRetries = 1
  MaxFailures = 2
  MaxJobs = 4
INVARIANTS
  TrackletsShareOut
  LinksAreOneToOne
  StructureIsClosed
PROPERTY
  QuotesAgreeUnlessTorn
CHECK_DEADLOCK FALSE
