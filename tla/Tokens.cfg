CONSTANTS
  Types = {flag, gun}
  Temporary = {gun}
  Limits <- MCLimits
  Spawners = {s1, s2}
  StartDisabled = {}
  Tokens = {k1, k2}
  None = None
  flag = flag
  gun = gun
  s1 = s1
  s2 = s2
  k1 = k1
  k2 = k2
SPECIFICATION FairSpec
INVARIANTS HoldersAgree SpawnersServeOneType OverridesListed TokensKnown
PROPERTIES ImplementsPool TokensReturn
