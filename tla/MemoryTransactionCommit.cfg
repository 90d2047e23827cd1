\* A recovering process, a waiter and a dead process.
SPECIFICATION Spec
CONSTANTS
  Actor = {a1, a2, a3}
  t1 = t1
  t2 = t2
  Topic = {t1}
  Existing = {}
  Menu <- WritesAndReads
  MaxCalls = 1
  MaxCrashes = 1
  MaxFaults = 0
  MaxSettlementFaults = 0
  MaxObservations = 5
  Old = Old
  Fresh = Fresh
  Absent = Absent
  Nil = Nil
SYMMETRY Interchangeable
PROPERTIES CommittedNeverRolledBack
CHECK_DEADLOCK FALSE
