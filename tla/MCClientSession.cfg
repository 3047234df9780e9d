CONSTANT
  MaxSessions = 3
SPECIFICATION Spec
CHECK_DEADLOCK FALSE
INVARIANTS SocketFollowsWindow RequestsStayInSession
PROPERTIES ConnectAfterTimelyDisconnect NothingWaitsForEver
