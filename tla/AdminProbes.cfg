SPECIFICATION FairProbesSpec
CONSTANTS
  Databases = {postgres}
  Caches = {redis}
  Default = postgres
  Sqlite = Sqlite
  Threads = {}
  Pages = {p1, p2}
  MaxUnlocks = 1
  MaxTasks = 3
INVARIANTS ProbesTypeOK RefreshRenews
PROPERTIES ConnectingIsAnswered
CHECK_DEADLOCK FALSE
