CONSTANTS
  Me = me
  Users = {u1}
  Nobody = nobody
  MaxMeetings = 2
  MaxVersion = 2
  MaxNotices = 2
  MaxActs = 2
SPECIFICATION ScreenSpec
CHECK_DEADLOCK FALSE
INVARIANTS ScreenIsCurrent NoFrozenPicture
PROPERTIES TilesAreFilled
