SPECIFICATION Spec
CONSTANTS
  Versions = {v1, v2}
  Requests = {r1, r2, r3, r4}
  Fallback = Fallback
  None = None
SYMMETRY Symmetry
INVARIANTS
  Consistent
  NeverWithoutCv
  OneDefaultUnlessRaced
