\* Four articles, three of them of one author, and pages of two
SPECIFICATION Spec
CONSTANTS
  Articles = {a1, a2, a3, a4}
  Mine = {a1, a2, a3}
  Clients = {c1}
  PageSize = 2
SYMMETRY Symmetries
CHECK_DEADLOCK FALSE
INVARIANTS NothingMissed
