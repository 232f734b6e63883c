SPECIFICATION FairSpec
CONSTANTS
  Sockets = {s1, s2}
  Server = Server
  Rooms = {lobby, game}
  NoRoom = NoRoom
  Malformed = TRUE
  MaxFrames = 2
  MaxNotices = 1
INVARIANTS TypeOK NoEmptyRooms LeftForGood EveryoneReached DeadArePruned
PROPERTY GoneLeaves
CHECK_DEADLOCK FALSE
