\* Every kind of operation, two processes with two calls each, one of which may die anywhere.
SPECIFICATION Spec
CONSTANTS
  Actor = {a1, a2}
  t1 = t1
  t2 = t2
  Topic = {t1}
  Existing = {}
  Menu <- Mutations
  MaxCalls = 2
  MaxCrashes = 1
  MaxFaults = 0
  MaxSettlementFaults = 0
  MaxObservations = 5
  Old = Old
  Fresh = Fresh
  Absent = Absent
  Nil = Nil
SYMMETRY Interchangeable
PROPERTIES ImplementsAtomicMemory WritesUnderLock
CHECK_DEADLOCK FALSE
