CONSTANTS
  Calls = {c1}
  MaxCalls = 3
  MaxWorkers = 2
  IdleLimit = 1
  MaxKills = 1
  Dirs = {d1, d2}
  Names = {a, b}
  Jobs = {j1, j2}
  MaxItems = 1
  MaxOps = 3
  MaxFull = 1
SPECIFICATION Spec
INVARIANTS OneWorker DeadIsNoticed NothingIsLost WrittenIsWhole
PROPERTIES ReadIsAnswered
SYMMETRY Symmetry
CHECK_DEADLOCK FALSE
