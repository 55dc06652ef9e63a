SPECIFICATION FairSpec
CONSTANTS
  web = web
  mail = mail
  t1 = t1
  t2 = t2
  Services = {web}
  Teams = {t1}
  TeamOf <- OneTeam
  Points <- Unequal
  TotalRounds = 0
  MaxFailures = 2
  MaxRounds = 2
PROPERTIES
  RoundTerminates
  EngineRecovers
  PersistentFailureExits
  ShutdownHonoured
