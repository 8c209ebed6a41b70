SPECIFICATION PoolSpec
CONSTANTS
  t1 = t1
  t2 = t2
  p1 = p1
  p2 = p2
  k1 = k1
  Tasks = {t1, t2}
  Position <- InOrder
  Projects = {p1, p2}
  Settings <- AllSettings
  Profiles = {k1}
  ProfileMax <- StageCaps
  Cycles = {"cron", "wake"}
  LastStage = 2
  WINDOW = 2
  None = None
INVARIANTS
  PoolTypeOK
  SemaphoreAccounting
  ClaimsBacked
  SerialProject
PROPERTY QueueDepth
