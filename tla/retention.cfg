\* Three invocations in any mode, an operator who changes policies twice
SPECIFICATION Spec
CONSTANTS
  Runs = {c1, c2, c3}
  Own = own
  Others = {other}
  Events <- OneToThree
  BatchSize = 2
  Changes = 2
SYMMETRY RunSymmetry
CHECK_DEADLOCK FALSE
INVARIANTS NeverInItsOwnWay ReportsExact
PROPERTIES DeletedUnderPolicy ForeignKept
