SPECIFICATION Spec
CONSTANTS
  c1 = c1
  c2 = c2
  Urns = {u1}
  Contents <- MCContents
  Flaky <- MCContents
  Downloads = {"blob", "url"}
  Edits <- MCEdits
  Attempts = {a1, a2}
  retries = 2
  publish = TRUE
  None = None
SYMMETRY Symmetry
INVARIANTS
  Consistent
  ZeroExitMeansImported
  CurrentUnlessOvertaken
PROPERTY
  ImportKeepsEditorial
