SPECIFICATION Spec
CONSTANTS
  Threads = {t1, t2}
  Names = {alice, bob}
  NoName = NoName
  Sessions = {s1, s2, s3}
  NoSession = NoSession
  PoolSize = 2
  Backend = "postgres"
  Ops = {"stage", "confirm", "cancel", "create", "delete", "with"}
  Faults = {"commit"}
INVARIANTS TypeOK DeadPendingIsBeingCleared DeadlockOnlyBehindPending
PROPERTIES ImplementsSlot WritesAreAnswerable
SYMMETRY Symmetry
CHECK_DEADLOCK FALSE
