CONSTANTS
  Users = {u1, u2}
  NoUser = NoUser
  MaxMeetings = 2
  MaxInbox = 4
SPECIFICATION Spec
SYMMETRY MCSymmetry
CHECK_DEADLOCK FALSE
INVARIANTS ButtonsTellTheTruth PicturesAreLive
PROPERTIES EndedByOwnMedia
