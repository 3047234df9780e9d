CONSTANTS
  MaxRuns = 4
  MaxMeetings = 3
  MaxRecords = 2
  Accounts = {a1, a2}
  NoAccount = NoAccount
SPECIFICATION StoreSpec
SYMMETRY MCSymmetry
CHECK_DEADLOCK FALSE
INVARIANTS HistoryIsWhole AccountIsKept
PROPERTIES ClosesItsOwnRecord
