SPECIFICATION Spec
CONSTANTS
  Names = {ann}
  Passwords = {secret}
  Texts = {fresh, edited}
  Fresh = fresh
  None = None
  MaxFiles = 2
  MaxLoads = 2
INVARIANTS AccountsAreWhole OwnProfileIsShown
PROPERTY RequestsEnd
