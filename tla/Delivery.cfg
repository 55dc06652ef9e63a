SPECIFICATION FairSpec
CONSTANTS
  p = p
  Pages = {p}
  Class <- SameTeam
  OtherEvents <- InjectUpdates
  QueueSize = 2
  MAX_ERRORS_BEFORE_FALLBACK = 3
  NeverConnectedErrors = 2
  InFlight = 2
  MaxChannel = 1
INVARIANTS
  RoundsReachPages
PROPERTIES
  PagesCatchUp
