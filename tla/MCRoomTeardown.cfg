CONSTANTS
  Conns = {c1, c2, c3, c4}
  Rooms = {r1, r2}
  NoRoom = NoRoom
  NoOptions = NoOptions
  RoomIds = {1, 7}
  RandomIds = {7}
  MaxRooms = 2
  HardMax = 3
  Requests <- MCRequests
SPECIFICATION TeardownSpec
CHECK_DEADLOCK FALSE
PROPERTIES AtomicServer CallsReturn
