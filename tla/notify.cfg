\* One event of an article, one import request and a foreign message
CONSTANTS
  ArticleEvents = {1}
  ImportEvents = {2}
  Foreign = {f}
  Publishers = {p1, p2}
  Consumers = {c1}
  Cleaners = {k}
  Free = Free
  NoMessage = NoMessage
  BatchSize = 2
  CleanLimit = 1
  MaxFaults = 2
SPECIFICATION FairSpec
PROPERTIES PendingIsPublished RequestsAreHandled
CHECK_DEADLOCK FALSE
