SPECIFICATION HubSpec
CONSTANTS
  n1 = n1
  n2 = n2
  p = p
  q = q
  None = None
  User = alice
  Namespaces = {n1}
  Configs = {p, q}
  Editions <- AllEditions
  Audiences = {registry}
  Registry = registry
  Callers = {manager, other}
  Hub = manager
  Exchanges = {x1, x2}
  Approvers = {a1}
  Life = 3
  Reuse = 2
  Expired = 0
  MaxEdits = 1
  MaxFaults = 1
PROPERTIES ApprovedIsServed
CHECK_DEADLOCK FALSE
