SPECIFICATION Spec
CONSTANTS
  x = x
  en = en
  de = de
  a = a
  b = b
  Sessions = {s1, s2}
  Slugs = {x}
  Languages = {en, de}
  Titles = {1, 2}
  Contents = {1, 2}
  Tags = {a, b}
  TagLists <- MCTagLists
  First <- MCFirst
  Blank <- MCBlank
  Generated <- MCGenerated
  Randoms = {1}
  MaxIds = 3
  MaxTagOps = 1
  MaxSaves = 2
  None = None
INVARIANTS
  Consistent
  EmbeddingFollowsText
  ForgottenTagStaysGone
PROPERTY
  UntouchedColumnsKept
SYMMETRY MCSymmetry
