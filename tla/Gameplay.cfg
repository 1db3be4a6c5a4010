SPECIFICATION LiveSpec
CONSTANTS
  p1 = p1
  t1 = t1
  Players <- Nobody
  Teams <- Nobody
  Points = {}
  RoundTimes = {0, 1, 5}
  RoundCounts = {0, 1, 2}
  TimeLimits = {0, 3, 5}
  TeamplayValues = {1}
  AutoTeam = FALSE
  MinRoundTime = 2
  MaxRoundTime = 4
  RoundDelay = 2
  SkipDelay = 1
  ChatTime = 1
  EndWindow = 1
  LevelDelay = 1
  CurrentTimes = {}
  Additions = {}
  ScenarioMayBlock = TRUE
  Commands <- MatchCommands
  MaxLength = 5
  MaxScore = 0
  MaxOverrun = 6
INVARIANTS
  TypeOK
  Lifecycle
  TimersFollowSettings
PROPERTIES
  LevelChangedOnce
  GameOverChangesLevel
  IntermissionEnds
  UnattendedMatchEnds
