SPECIFICATION FairSpec
CONSTANTS
  a = a
  b = b
  c = c
  Doors = {a, b, c}
  People = {u1, u2}
  u1 = u1
  u2 = u2
  NoDoor = NoDoor
  Nobody = Nobody
  Partner <- Ring
  Order <- InOrder
  Length <- Lengths
  UseLimit <- Limits
  Wait <- Waits
  AutoReturn = {c}
  ForceClosed = {c}
  Usable = {a, b}
  Touchable = {c}
  Lockable = {c}
  Commanded = {c}
  Commanders = {Nobody}
INVARIANTS
  PartnersInSync
  UnlockedRestFresh
PROPERTIES
  LastDoorReports
  OnlyMoverTurns
  ComesToRest
  ReturnsShut
