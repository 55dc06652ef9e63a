SPECIFICATION Spec
CONSTANTS
  r1 = r1
  r2 = r2
  i1 = i1
  i2 = i2
  Requests = {r1, r2}
  Items = {i1, i2}
  MaxPoints = 1
  MaxActs = 5
SYMMETRY Symmetric
INVARIANTS
  SerialScoresOfOneGrade
  StampMatchesStatus
PROPERTIES
  HandedInFilesStay
