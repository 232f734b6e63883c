SPECIFICATION Spec
CONSTANTS
  t1 = t1
  t2 = t2
  Threads = {t1, t2, loop}
  Loop = loop
  Ids = {i1, i2}
  Fields = {name, stock_qty}
  Name = name
  Values = {v1, v2}
  None = None
  MaxCalls = 6
INVARIANTS TypeOK AnsweredIsStored
SYMMETRY Symmetry
CHECK_DEADLOCK FALSE
