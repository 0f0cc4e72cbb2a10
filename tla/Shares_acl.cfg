CONSTANTS
  Reqs = {r1, r2, r3}
  Names = {n1}
  Volumes = {v1}
  Principals = {u, w}
  Numbers = {id1, id2}
  NoNumber = nonumber
  Levels = {"rw"}
  NoRow = norow
  NoAcl = noacl
  Failing = {}
  MaxMoves = 0
  MaxParallel = 2
SPECIFICATION Spec
SYMMETRY ReqSymmetry
INVARIANT AclIsTable
CHECK_DEADLOCK FALSE
