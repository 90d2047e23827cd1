\* The plugin's start and three more calls of every kind, three at a time, over two providers.
SPECIFICATION Spec
CONSTANTS
  Provider = {p1, p2}
  Caller = {c1, c2, c3}
  Menu = {"initialize", "refreshAll", "refreshProvider", "ensureAllFresh"}
  MaxCalls = 3
  None = None
SYMMETRY Interchangeable
INVARIANTS ReadyIsCurrent RefreshesSettle
PROPERTIES RosterNeverGoesBack
CHECK_DEADLOCK FALSE
