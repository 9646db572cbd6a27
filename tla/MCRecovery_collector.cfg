SPECIFICATION Spec
CONSTANTS
  Objects = {"s1"}
  Scopes = {"s1", "s2"}
  ScopeOf <- MCScopeOf
  Ledgers = {"attention"}
  MaxRevision = 3
  MaxCrashes = 0
  MaxRestores = 1
INVARIANTS CollectorIsAhead
CHECK_DEADLOCK FALSE
