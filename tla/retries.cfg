\* Two importers, two jobs, rows that fail again and again
CONSTANTS
  Jobs = {j1, j2}
  Slugs = {s1}
  Workers = {w1, w2}
  Free = Free
  Nobody = Nobody
  Author = Author
  MaxAttempts = 2
  RowsPerRun = 2
  MaxRows = 2
  MaxRequests = 1
SPECIFICATION FairSpec
PROPERTY JobEnds
CHECK_DEADLOCK FALSE
