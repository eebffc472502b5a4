SPECIFICATION Spec
CONSTANTS
  Requests = {r1, r2, r3}
  Slots = {t1, t2}
  CvDocuments = {cv1, cv2}
  None = None
SYMMETRY Symmetry
INVARIANTS
  Consistent
  TimelineIsTrue
PROPERTY ForwardUnlessRaced
