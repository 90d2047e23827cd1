\* Two steps at a time of one session, three in all, auxiliary calls between them, rewritten
\* histories, failures of every kind, the idle timer and dispose.
SPECIFICATION Spec
CONSTANTS
  Key = {k1}
  Call = {c1, c2}
  Signature = {s1, s2}
  MaxSteps = 3
  MaxChildren = 3
  None = None
SYMMETRY Interchangeable
INVARIANTS HeardHistory NoOrphan Undisturbed ExecutedOnce Reapable
CHECK_DEADLOCK FALSE
