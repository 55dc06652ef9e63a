SPECIFICATION Spec
CONSTANTS
  web1 = web1
  mail1 = mail1
  web2 = web2
  t1 = t1
  t2 = t2
  Services = {web1, mail1, web2}
  Teams = {t1, t2}
  TeamOf <- OfTeam
  NameOf <- Named
  StartPoints <- Worth
  Outcomes <- MayPass
  Configs <- Starts
  Values <- Entered
  Weights <- Asked
  PointValues = {4}
  Awards = {1}
  InjectScores = {50}
  Unit = 100
  FallsShort <- Short
  Exceeds <- Above
  ChartPoints = 2
  MaxRounds = 2
  MaxTime = 2
  MaxChanges = 2
INVARIANTS
  PenaltiesAgree
  PenaltiesWithinBase
  PlacesAgree
  LineMeetsBar
  StatisticsAgree
  ServicePagesAgree
PROPERTIES
  FrozenScoresStay
