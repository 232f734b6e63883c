SPECIFICATION LimitsSpec
CONSTANTS
  Databases = {postgres}
  Caches = {redis}
  Default = postgres
  Sqlite = Sqlite
  Threads = {}
  MaxUnlocks = 1
  Redis = redis
  Calls = {c1, c2, c3}
  Hosts = {h1, h2}
  NoHost = NoHost
  GeneralLimit = 2
  LoginLimit = 1
  Window = 2
  MaxTime = 2
INVARIANTS LimitsTypeOK AdmittedWithinLimit
PROPERTIES RejectedOnlyOverLimit
SYMMETRY Symmetry
CHECK_DEADLOCK FALSE
