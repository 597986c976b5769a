SPECIFICATION FairSpec
CONSTANTS
  Sessions = {s1, s2, s3}
  NULL = NULL
  MaxRepeats = 1
INVARIANTS TypeOK MutexInv ListShape SemCountsSessions NullOnlyIfInterrupted
PROPERTIES ImplementsFifo EveryRequestTaken
