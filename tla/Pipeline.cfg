SPECIFICATION Spec
CONSTANTS
  MAX_FIX_ITERS = 1
  max_ci_fix = 1
  ReviewAnswers <- MCReviewAnswers
  ReleaseAnswers <- MCReleaseAnswers
  MaxRuns = 2
INVARIANTS
  Consistent
  ReleasedOnlyIfCleared
  GreenWorkSurvives
PROPERTY
  RunEnds
