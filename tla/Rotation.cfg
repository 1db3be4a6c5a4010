SPECIFICATION LiveSpec
CONSTANTS
  bunker = bunker
  egypt = egypt
  facility = facility
  caverns = caverns
  cradle = cradle
  aztec = aztec
  custom = custom
  transition = transition
  typo = typo
  NoMap = NoMap
  Maps = {bunker, egypt, facility, caverns, cradle}
  CustomMaps = {custom}
  Transition = transition
  Missing = {aztec}
  Unknown = {typo}
  Intensity <- MCIntensity
  PlayerCounts = {1, 2, 3}
  Suits <- MCSuits
  MapCycle = {custom}
  UseMapCycle = FALSE
  BufferCount = 2
  CrashThreshold = 14
  TransitionThreshold = 10
  Wishes = {egypt, caverns, custom}
  Names = {bunker, aztec, typo}
PROPERTIES
  TransitionGoesOn
  HistoryKept
  LevelsAsAnnounced
  AnnouncedIsPlayed
