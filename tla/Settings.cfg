SPECIFICATION FairSpec
CONSTANTS
  engine = engine
  r1 = r1
  r2 = r2
  Requests = {r1, r2}
  MaxWrites = 2
INVARIANTS
  SerialWritesStick
PROPERTIES
  EngineSeesSetting
