SPECIFICATION MCSpec
CONSTANTS
  alice = alice
  stranger = stranger
  k1 = k1
  k2 = k2
  NoKey = NoKey
  None = None
  Users <- OneUser
  Usernames <- OneUserAndStranger
  Keys <- OneKey
  FirstCatalog <- AliceHasK1
  Refreshers = {}
  MaxEdits = 0
  MaxFaults = 1
  Audiences = {registry, memory}
  Ids = {1, 2, 3, 4, 5}
  Requests = {q1, q2}
  Ttl = 2
  MaxAttempts = 2
  CleanupLimit = 2
  MaxTime = 2
  Window = 2
  MaxPerWindow = 2
  MaxEntries = 2
  Accounts = {a1}
  AuthorizedKeys = {g1, g2}
  Resolvers = {f1, f2}
  NoAnswer = NoAnswer
  Lifetime = 2
  MaxDelay = 1
  MaxClock = 3
  MaxPages = 1
SYMMETRY SafetySymmetry
INVARIANTS AuthTypeOK SingleUse SessionMatchesChallenge AttemptCap RateBound KeyIsRecent
PROPERTIES TakenBeforeExpiry ImplementsSessionGrant
CHECK_DEADLOCK FALSE
