CONSTANTS
  MaxSessions = 2
  MaxPackets = 3
  MaxQueue = 2
  Kinds = {"CreateMeeting", "RoomSettings", "SendText"}
SPECIFICATION Spec
CHECK_DEADLOCK FALSE
INVARIANTS OneWorkerPerSession PacketsStayInSession OrderIsKept
PROPERTIES NothingHangs
