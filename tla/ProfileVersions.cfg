SPECIFICATION Spec
CONSTANTS
  Languages = {en, de, fr}
  SUPPORTED_LANGUAGES = {en, de}
  Versions = {v1, v2}
  Requests = {r1, r2, r3, r4}
  None = None
SYMMETRY Symmetry
INVARIANT
  Consistent
PROPERTIES
  NeverGoesDark
  UndisturbedCommitHeals
