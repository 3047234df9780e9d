CONSTANTS
  Conns = {c1, c2, c3, c4}
  Rooms = {r1, r2, r3}
  NoRoom = NoRoom
  NoOptions = NoOptions
  RoomIds = {1, 2, 7}
  RandomIds = {7}
  MaxRooms = 2
  HardMax = 3
  Requests <- MCRequests
SPECIFICATION FairSpec
CHECK_DEADLOCK FALSE
INVARIANTS RoomsAreWhole MembershipAgrees WithinLimits
PROPERTIES ExpiryHitsItsOwnRoom ImplementsRegistry MeetingsEnd
