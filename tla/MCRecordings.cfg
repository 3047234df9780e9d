CONSTANTS
  MaxTakes = 2
  MaxRestarts = 1
  MaxMoves = 1
SPECIFICATION RecordingsSpec
CHECK_DEADLOCK FALSE
INVARIANT RevokedStops FiledOnce MetadataIsTrue TwoCopiesAgree
PROPERTY StoppedTakesAreFiled
