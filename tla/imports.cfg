\* Two importers, two jobs, authors writing by hand
CONSTANTS
  Jobs = {j1, j2}
  Slugs = {s1, s2}
  Workers = {w1, w2}
  Free = Free
  Nobody = Nobody
  Author = Author
  MaxAttempts = 2
  RowsPerRun = 2
  MaxRows = 2
  MaxRequests = 2
SPECIFICATION Spec
SYMMETRY Symmetries
INVARIANTS ProgressMatches ImportedOnce
PROPERTIES RestsBetweenAttempts KeepsPromise
CHECK_DEADLOCK FALSE
