CONSTANTS
  Topics = {t1}
  QueueMax = 2
  MaxSockets = 3
  MaxEvents = 3
  MaxUses = 2
  MaxStops = 1
  InFlight = 1
SPECIFICATION FairSpec
INVARIANTS OneSocket SubscriptionsAgree
PROPERTIES NeverGoesBack NewestIsShown
CHECK_DEADLOCK FALSE
