CONSTANTS
  Reqs = {r1, r2, r3}
  Names = {n1}
  Volumes = {v1, v2}
  Principals = {u}
  Numbers = {id1, id2}
  NoNumber = nonumber
  Levels = {"rw"}
  NoRow = norow
  NoAcl = noacl
  Failing = {"setfacl", "samba", "call"}
  MaxMoves = 1
  MaxParallel = 2
SPECIFICATION Spec
SYMMETRY ReqSymmetry
INVARIANTS AclIsTableSerially  ShareHasDirectory
PROPERTY NewShareIsClosed
CHECK_DEADLOCK FALSE
