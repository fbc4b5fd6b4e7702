SPECIFICATION AuthSpec
CONSTANTS
  alice = alice
  stranger = stranger
  k1 = k1
  k2 = k2
  NoKey = NoKey
  None = None
  Users <- OneUser
  Usernames <- OneUser
  Keys <- BothKeys
  FirstCatalog <- AliceHasK1
  Refreshers = {r1}
  MaxEdits = 1
  MaxFaults = 1
  Audiences = {registry}
  Ids = {c1}
  Requests = {q1, q2}
  Ttl = 1
  MaxAttempts = 2
  CleanupLimit = 2
  MaxTime = 1
  Window = 2
  MaxPerWindow = 1
  MaxEntries = 2
INVARIANTS SessionKeyCurrent
PROPERTIES EveryExchangeAnswered
CHECK_DEADLOCK FALSE
