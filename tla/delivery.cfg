\* Two publishers, two importers, retention, and two faults
CONSTANTS
  ArticleEvents = {1, 3}
  ImportEvents = {2}
  Foreign = {f}
  Publishers = {p1, p2}
  Consumers = {c1, c2}
  Cleaners = {k}
  Free = Free
  NoMessage = NoMessage
  BatchSize = 2
  CleanLimit = 1
  MaxFaults = 2
SPECIFICATION Spec
SYMMETRY ProcessSymmetry
INVARIANTS PublishedWasRouted CopiesNeedFaults NoMessageLost GenuineNotQuarantined
PROPERTY KeepsPromise
CHECK_DEADLOCK FALSE
