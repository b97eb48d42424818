\* One article, two requests of an editor and a scheduler in every order.
SPECIFICATION Spec
CONSTANTS
  Articles = {a1}
  Users = {ed}
  Editors = {ed}
  Requests = {r1, r2}
  Schedulers = {s1}
  Free = Free
  System = System
  Fields = {title, body}
  Headline = {title}
  IfMatch <- OneToThree
  Horizon = 2
  BatchLimit = 1
SYMMETRY RequestSymmetry
CHECK_DEADLOCK FALSE
INVARIANTS TypeOK ConstraintsHold RevisionLedger EditsCompose
PROPERTIES DecidedAtIfMatch VersionsImmutable
