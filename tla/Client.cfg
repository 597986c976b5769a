SPECIFICATION FairSpec
CONSTANTS
  Users = {u1, u2}
  MaxLines = 2
  ZERO = ZERO
INVARIANTS TypeOK ServerExpects KeyMatchesUnlessLate DroppedOnlyBeforeAuthResp ExitAfterCallbacks
PROPERTIES InterruptLeavesChat LoginSettles
