\* One article, an editor, a scheduler, and two downgrades between any two of their transactions
SPECIFICATION MigrationSpec
CONSTANTS
  Articles = {a1}
  Users = {ed}
  Editors = {ed}
  Requests = {r1}
  Schedulers = {s1}
  Free = Free
  System = System
  Fields = {body}
  Headline = {}
  IfMatch <- OneToFour
  Horizon = 2
  BatchLimit = 1
  Downgrades = 2
CHECK_DEADLOCK FALSE
INVARIANTS UpgradeAccepted PublicStillApproved
PROPERTIES RoundTripLossless
