SPECIFICATION Spec
CONSTANTS
  Objects = {"s1"}
  Scopes = {"s1", "s2"}
  ScopeOf <- MCScopeOf
  Ledgers = {"attention"}
  MaxRevision = 3
  MaxCrashes = 1
  MaxRestores = 1
INVARIANTS NothingResurfaces NewerSurvives
CHECK_DEADLOCK FALSE
