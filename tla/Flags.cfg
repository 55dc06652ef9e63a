SPECIFICATION Spec
CONSTANTS
  r1 = r1
  r2 = r2
  v1 = v1
  t1 = t1
  t2 = t2
  Flag <- FewFlags
  Agent <- TwoTeams
  GivenBefore <- UserFlag
  Requests = {r1, r2}
  EARLY = 1
  INTERVAL = 1
  AgentTTL = 3
  GridTTL = 1
  Slow = 1
  Viewers = {v1}
  flag_points_user = 1
  flag_points_root = 2
  MaxTime = 4
  MaxRequests = 3
SYMMETRY Symmetric
INVARIANTS
  CapturesCountOnce
  TotalsFollowScore
  StatusFollowsCheckins
PROPERTIES
  RefusedOnlyIfRepeated
CHECK_DEADLOCK FALSE
