\* Two articles, two schedulers that take one row each time, one request.
SPECIFICATION FairSpec
CONSTANTS
  Articles = {a1, a2}
  Users = {ed}
  Editors = {ed}
  Requests = {r1}
  Schedulers = {s1, s2}
  Free = Free
  System = System
  Fields = {body}
  Headline = {}
  IfMatch <- OneToFour
  Horizon = 2
  BatchLimit = 1
CHECK_DEADLOCK FALSE
PROPERTIES NeverEarly ImplementsLifecycle ScheduledIsPublished
