\* Thirteen parts, each on an instance of its own.
SPECIFICATION Spec
CONSTANTS
  None = None
  s1 = s1
  s2 = s2
  i3 = i3
  Session = {s1, s2}
  MaxSteps = 3
  MaxFailures = 1
  MaxAuxiliary = 1
  MaxInFlight = 1
  Item = {s1, s2, i3}
  MaxPieces = 1
  MaxRetrying = 1
  t1 = t1
  t2 = t2
  Letters = {t1, t2}
  k1 = k1
  Key = {k1}
  tag = tag
  Tag = {tag}
  Marked = {}
  Load = {s1, s2}
  Identity = {e1, e2}
  r1 = r1
  r2 = r2
  Route = {r1, r2}
  Searcher = {s1, s2}
  Query = {r1, r2}
  e1 = e1
  e2 = e2
  Executable = {e1, e2}
  MaxPreflights = 2
  MaxQueries = 2
  Caller = {s1, s2}
  Floor = 2
  MaxTime = 2
  MaxProcesses = 3
  MaxCollects = 3
  Number = {40, 120}
  MaxMeters = 2
  MaxReadings = 2
  Pooled = "antigravity"
  MaxSaved = 1
  MaxClicks = 2
  Model = {e1, e2}
  MaxCalls = 5
  Terminal = {s1, s2}
  Version = {r1, r2}
  Topic = {s1, s2}
  MaxLines = 5
  MaxBytes = 14
  MaxInitial = 3
  MaxEdits = 1
  CallId = {r1, r2}
  Empty = Empty
  MaxLoads = 3
  MaxVersions = 3
SYMMETRY Interchangeable
INVARIANTS Consistent HeardHistory WellFormed ArgumentsSurvive PresentServes RosterFollowsRegistry NothingOutlives VerifiedRuns Bounded ShownAsSaid ClicksCount AllAgree NothingLost MapKept ShownIsLongest RepliesRead CatalogAnswers
CHECK_DEADLOCK FALSE
