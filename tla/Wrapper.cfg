SPECIFICATION FairSpec
CONSTANTS
  Conns = {c1, c2, c3}
INVARIANTS OnlyHeldIsUsed NothingLeaks
PROPERTIES ClientCallsReturn DestroyReturns
CHECK_DEADLOCK FALSE
