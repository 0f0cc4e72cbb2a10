CONSTANTS
  Tokens = {t1, t2}
  Requests = {r1, r2}
  NoToken = notoken
  Limit = 1
SPECIFICATION Spec
INVARIANTS ServedAsItself EndedStaysEnded
PROPERTY EndsByItsOwn
CHECK_DEADLOCK FALSE
