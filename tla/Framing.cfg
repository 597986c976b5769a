SPECIFICATION FairSpec
CONSTANTS
  CipherLen = 20
  MaxMessages = 1
  MaxDelivers = 2
  MaxSpoilt = 1
CONSTRAINT OneTrouble
INVARIANTS LossNeedsBacklog LoginPacketsArrive
PROPERTY LoginEnds
CHECK_DEADLOCK FALSE
