SPECIFICATION ManageSpec
CONSTANTS
  Threads = {t1, t2, loop}
  Loop = loop
  Names = {root, alice, bob}
  Root = root
  RoleNames = {ops}
  MaxUsers = 3
  MaxRoles = 2
  MaxCalls = 7
  PageSize = 2
  ForeignKeys = TRUE
SYMMETRY Symmetry
CHECK_DEADLOCK FALSE
INVARIANTS ManageTypeOK AssignmentKept
PROPERTIES NeverStranded
