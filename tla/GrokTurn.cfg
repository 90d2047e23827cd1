\* Two overlapping steps, four in all, on rewritten histories, with auxiliary calls.
SPECIFICATION Spec
CONSTANTS
  Key = {k1}
  Call = {c1, c2}
  Signature = {s1, s2}
  Kind = {"text", "image"}
  MaxSteps = 4
  None = None
SYMMETRY Interchangeable
INVARIANTS HeardHistory
PROPERTIES ForgetsOnlyItsOwn
CHECK_DEADLOCK FALSE
