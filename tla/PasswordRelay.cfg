CONSTANTS
  Posts = {p1, p2, p3}
  Addresses = {a1}
  Accounts = {u1}
  AddressLimit = 1
  AccountLimit = 1
  Window = 2
  Lag = 1
  MaxNow = 3
  MaxLost = 1
  MaxCrash = 1
SPECIFICATION Spec
SYMMETRY Symmetry
CHECK_DEADLOCK FALSE
INVARIANT GuessesWithinLimit
INVARIANT CountsExactly
