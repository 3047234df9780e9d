SPECIFICATION Spec
CONSTANTS
  Requests <- MCRequests
  RoomNumbers <- MCRoomNumbers
  HostedRoom = 123456789
  HardMax = 16
  InitBufferSize = 16
  MaxSent = 4
INVARIANT FramesKeepTheirMeaning NothingIsLeftBehind
CHECK_DEADLOCK FALSE
