SPECIFICATION Spec
CONSTANTS
  Databases = {postgres, other}
  Caches = {redis}
  Default = postgres
  Sqlite = Sqlite
  Threads = {t1, t2, t3}
  MaxUnlocks = 1
INVARIANTS TypeOK InterfaceOnPrimary StagedIsReachable
SYMMETRY Symmetry
