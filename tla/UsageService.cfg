\* Three overlapping refreshes of one provider, reloaded once and invalidated twice.
SPECIFICATION Spec
CONSTANTS
  Provider = {p1}
  Caller = {c1, c2, c3}
  MinRefreshInterval = 1
  MaxSafeInteger = 1
  MaxTime = 1
  MaxGenerations = 2
  MaxInvalidations = 2
  None = None
  Failed = Failed
SYMMETRY Interchangeable
INVARIANTS NoResurrection OneCollection FreshRefresh
PROPERTIES InvalidationEndsFresh
CHECK_DEADLOCK FALSE
