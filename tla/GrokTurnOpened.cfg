\* One step at a time, of text: a turn that throws before any has succeeded.
SPECIFICATION Spec
CONSTANTS
  Key = {k1}
  Call = {c1}
  Signature = {s1}
  Kind = {"text"}
  MaxSteps = 3
  None = None
INVARIANTS OpenedInFull
CHECK_DEADLOCK FALSE
