\* Two processes whose rollback or cleanup may fail too, and which may die, with no timeout to
\* break a deadlock.
SPECIFICATION FairSpec
CONSTANTS
  Actor = {a1, a2}
  t1 = t1
  t2 = t2
  Topic = {t1}
  Existing = {}
  Menu <- Writes
  MaxCalls = 2
  MaxCrashes = 1
  MaxFaults = 1
  MaxSettlementFaults = 1
  MaxObservations = 5
  Old = Old
  Fresh = Fresh
  Absent = Absent
  Nil = Nil
PROPERTIES ImplementsAtomicMemory CommittedNeverRolledBack RecoveryLeavesNothing CallsReturn
CHECK_DEADLOCK FALSE
