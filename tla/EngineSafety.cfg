SPECIFICATION Spec
CONSTANTS
  web = web
  mail = mail
  t1 = t1
  t2 = t2
  Services = {web, mail}
  Teams = {t1, t2}
  TeamOf <- OneTeam
  Points <- Unequal
  TotalRounds = 2
  MaxFailures = 2
  MaxRounds = 2
INVARIANTS
  ScoresMatchChecks
  RoundsAreWhole
  PassIsOfThisRound
  FailureCacheMatchesChecks
  NumbersAreSequential
  HalfWrittenRoundsAccounted
PROPERTIES
  FinishedRoundsStay
  KeepsBoard
