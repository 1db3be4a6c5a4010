SPECIFICATION Spec
CONSTANTS
  p1 = p1
  t1 = t1
  Players <- OnePlayer
  Teams <- OneTeam
  Points <- SomePoints
  RoundTimes = {1}
  RoundCounts = {0}
  TimeLimits = {2}
  TeamplayValues = {0, 1}
  AutoTeam = TRUE
  MinRoundTime = 1
  MaxRoundTime = 1
  RoundDelay = 1
  SkipDelay = 1
  ChatTime = 1
  EndWindow = 1
  LevelDelay = 0
  CurrentTimes = {0, 1}
  Additions <- Added
  ScenarioMayBlock = FALSE
  Commands <- ScoreCommands
  MaxLength = 1
  MaxScore = 2
  MaxOverrun = 2
PROPERTY ImplementsMatch
