CONSTANTS
  Names = {n1, n2}
  Groups = {g1}
  Passwords = {p1, p2}
  Slots = {r1, r2}
  NoName = nobody
  MaxRequests = 4
  MaxUpsets = 2
SPECIFICATION AccountsSpec
INVARIANTS RowIsTruthful NothingIsStray
SYMMETRY Symmetry
CHECK_DEADLOCK FALSE
