SPECIFICATION FairSpec
CONSTANTS
  Threads = {t1, t2}
  Names = {alice}
  NoName = NoName
  Sessions = {s1, s2, s3}
  NoSession = NoSession
  PoolSize = 2
  Backend = "postgres"
  Ops = {"stage", "confirm", "cancel", "create"}
  Faults = {"commit", "rollback"}
PROPERTIES CallsReturn
CHECK_DEADLOCK FALSE
