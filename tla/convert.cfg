\* A job of up to two rows, two importers, a client who watches, two downgrades
CONSTANTS
  Jobs = {j1}
  Slugs = {s1, s2}
  Workers = {w1, w2}
  Readers = {q1}
  Free = Free
  Nobody = Nobody
  Author = Author
  MaxAttempts = 2
  RowsPerRun = 2
  MaxRows = 2
  MaxRequests = 2
  Downgrades = 2
SPECIFICATION MigrationSpec
SYMMETRY Symmetries
INVARIANTS ProgressNotAhead
PROPERTIES StoppedUntilRetry
CHECK_DEADLOCK FALSE
