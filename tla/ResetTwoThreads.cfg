SPECIFICATION Spec
CONSTANTS
  Threads = {t1, t2}
  Users = {u1, u2}
  NoUser = NoUser
  Tokens = {k1, k2}
  NoToken = NoToken
  TTL = 1
  MaxTime = 2
  Cascade = TRUE
  Faults = {"mail", "db", "crash"}
INVARIANTS TypeOK UsedMeansSet RowsHaveUsers UsesOverlap
SYMMETRY Symmetry
