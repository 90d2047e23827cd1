\* A conversation that answered a step and is asked for the next one when its idle timer fires.
SPECIFICATION Spec
CONSTANTS
  Key = {k1}
  Call = {c1}
  Signature = {s1}
  MaxSteps = 2
  MaxChildren = 2
  None = None
INVARIANTS ReapedInSilence
CHECK_DEADLOCK FALSE
