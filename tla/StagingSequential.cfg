SPECIFICATION Spec
CONSTANTS
  Threads = {t1}
  Names = {alice, bob}
  NoName = NoName
  Sessions = {s1, s2, s3}
  NoSession = NoSession
  PoolSize = 2
  Backend = "sqlite"
  Ops = {"stage", "confirm", "cancel", "create", "delete", "with"}
  Faults = {"commit"}
INVARIANTS ConfirmWrites PreviewKept
SYMMETRY Symmetry
