CONSTANTS
  Posts = {p1, p2, p3, p4}
  Addresses = {a1}
  Accounts = {u1, u2}
  AddressLimit = 2
  AccountLimit = 2
  Window = 2
  Lag = 1
  MaxNow = 1
  MaxLost = 0
  MaxCrash = 0
SPECIFICATION Spec
SYMMETRY Symmetry
CHECK_DEADLOCK FALSE
INVARIANT RightOnesDoNotLock
