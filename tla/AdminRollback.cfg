SPECIFICATION AdminFairSpec
CONSTANTS
  web = web
  t1 = t1
  a1 = a1
  a2 = a2
  Services = {web}
  Teams = {t1}
  TeamOf <- OneTeam
  Points <- Worth2
  TotalRounds = 0
  MaxFailures = 0
  MaxRounds = 2
  Admins = {a1, a2}
  MaxRequests = 2
  BatchSize = 1
INVARIANTS
  RollbackLeavesWhole
  ResyncsAfterRollback
PROPERTIES
  RollbackKeepsEarlier
  EngineResumes
