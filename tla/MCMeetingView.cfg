CONSTANTS
  Conns = {c1, c2, c3}
  Rooms = {r1}
  NoRoom = NoRoom
  NoOptions = NoOptions
  RoomIds = {7}
  RandomIds = {7}
  MaxRooms = 1
  HardMax = 3
  Requests <- MCRequests
  Users = {c1, c2, c3}
  Flags = {"default", "locked"}
  Notices = {"TextRecv"}
  DefaultFlags = "default"
  Account <- MCAccount
  MaxOutbox = 5
  MaxUplink = 1
  MaxVersion = 2
  MaxActs = 1
SPECIFICATION ViewSpec
SYMMETRY MCSymmetry
CHECK_DEADLOCK FALSE
INVARIANTS MemberListsConverge RoomStateConverges
