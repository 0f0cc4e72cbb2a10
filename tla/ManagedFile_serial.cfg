CONSTANTS
  Calls = {k1, k2, k3}
  Contents = {good1, good2, bad}
  Good = {good1, good2}
  NoFile = nofile
  Down = down
  NoContent = nothing
  MaxBackups = 2
  MaxCalls = 1
  MaxTime = 3
SPECIFICATION FileSpec
INVARIANTS QuietIsSettled ReplacedIsKept
CHECK_DEADLOCK FALSE
