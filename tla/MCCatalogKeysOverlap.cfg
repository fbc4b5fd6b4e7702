SPECIFICATION ResolverSpec
CONSTANTS
  u1 = u1
  u2 = u2
  k1 = k1
  k2 = k2
  NoKey = NoKey
  Users <- MCUsers
  Keys <- MCKeys
  FirstCatalog <- MCFirstCatalog
  Refreshers = {r1, r2}
  MaxEdits = 2
  MaxFaults = 1
PROPERTIES AcceptedChangeStays
