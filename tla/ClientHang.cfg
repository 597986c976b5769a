SPECIFICATION FairSpec
CONSTANTS
  Users = {u1, u2}
  MaxLines = 2
  ZERO = ZERO
PROPERTY DisconnectEndsClient
