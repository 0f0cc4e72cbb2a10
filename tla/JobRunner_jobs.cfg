CONSTANTS
  Jobs = {j1, j2, j3}
  Resources = {r1}
  NoResource = none
  NoJob = nojob
  MaxConcurrency = 2
  Bodies <- OneUnitBodies
  MaxRestarts = 1
  MaxUnlogged = 1
SPECIFICATION FairSpec
INVARIANTS TypeOK ResourceExclusive ConcurrencyBounded NeverStoppedMidway OutcomeReported
PROPERTIES ImplementsService EveryJobEnds
CHECK_DEADLOCK FALSE
