\* Two overlapping refreshes and one invalidation.
SPECIFICATION Spec
CONSTANTS
  Provider = {p1}
  Caller = {c1, c2}
  MinRefreshInterval = 1
  MaxSafeInteger = 1
  MaxTime = 1
  MaxGenerations = 1
  MaxInvalidations = 1
  None = None
  Failed = Failed
SYMMETRY Interchangeable
INVARIANTS CachedReadsCurrent
CHECK_DEADLOCK FALSE
