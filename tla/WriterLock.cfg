\* Two callers with two calls each and any number of reclaims beside a plain-file locker; any
\* of them may die; a freed inode number may come back, the hardest case for the identity checks.
\* The transaction has no topics and stands still.
SPECIFICATION LockSpec
CONSTANTS
  Actor = {a1, a2}
  Upstream = {u1}
  MaxCalls = 2
  BirthIdentity = TRUE
  InodeReuse = TRUE
  NoEntry = NoEntry
  Topic = {}
  Existing = {}
  Menu = {}
  MaxCrashes = 0
  MaxFaults = 0
  MaxSettlementFaults = 0
  MaxObservations = 1
  Old = Old
  Fresh = Fresh
  Absent = Absent
  Nil = Nil
INVARIANTS MutualExclusion
PROPERTIES ImplementsLock WaiterServed
CHECK_DEADLOCK FALSE
