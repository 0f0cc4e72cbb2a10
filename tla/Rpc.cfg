CONSTANTS
  Calls = {c1, c2}
  NoCall = nocall
  NoConn = noconn
  MaxConns = 2
  MaxEvents = 2
  MaxUpsets = 1
SPECIFICATION FairSpec
INVARIANTS WaitingIsWatched EventsInOrder
PROPERTIES ImplementsService EveryCallEnds
CHECK_DEADLOCK FALSE
