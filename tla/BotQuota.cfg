CONSTANTS
  Humans = {h1, h2}
  Bots = {b1, b2}
  MayRefuse = {h2}
  MaxClients = 4
  Thresholds = {0, 3}
  OpenSlots = 1
  Strict = TRUE
  h1 = h1
  h2 = h2
  b1 = b1
  b2 = b2
SPECIFICATION QuietSpec
INVARIANT TypeOK
PROPERTIES FramesEvenTeams TeamsFollowMode TeamsEvenOut BotsFollowThreshold
