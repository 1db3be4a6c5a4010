CONSTANTS
  a = a
  b = b
  c1 = c1
  c2 = c2
  p1 = p1
  p2 = p2
  t1 = t1
  GroupOrder <- MCGroupOrder
  Limits <- MCLimits
  CapSpots = {c1, c2}
  PlayerSpots = {p1, p2}
  TokenSpots = {t1}
  StartDisabled = {c2}
  Near <- MCNear
SPECIFICATION Spec
INVARIANTS AreasWithinLimit PlacesShared ShortageRetried
PROPERTIES AreasStay AreasSettle
