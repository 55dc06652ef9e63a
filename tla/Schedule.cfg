SPECIFICATION Spec
CONSTANTS
  Schedules <- Plans
  NewWindows <- Asked
  Freezes = {3}
  CACHE_TTL = 1
  PageTTL = 1
  Slow = 2
  MaxTime = 6
  MaxRounds = 2
  MaxEdits = 1
INVARIANTS
  OneRoundMissing
  LatePageEnds
PROPERTIES
  GateFollowsSchedule
  NothingVanishes
CHECK_DEADLOCK FALSE
