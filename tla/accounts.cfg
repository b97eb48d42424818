\* One address in two spellings, which a client and the seed want
SPECIFICATION Spec
CONSTANTS
  ada = ada
  lower = lower
  mixed = mixed
  Addresses = {ada}
  Spellings = {lower, mixed}
  LowerCase = lower
  Passwords = {p1, p2}
  Clients = {c1, c2}
  Seeded <- SeededAda
  Lifetime = 1
  Horizon = 1
SYMMETRY Symmetries
CHECK_DEADLOCK FALSE
INVARIANTS OneAccountPerAddress AccountsKept ServedAsAccount
