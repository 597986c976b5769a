SPECIFICATION Spec
CONSTANTS
  Texts = {alice, full, over, exit}
  Full = {full}
  Over = {over}
  Reserved = {exit}
  Passwords = {p, empty}
  EMPTY = empty
  Adders = {a1, a2, a3}
SYMMETRY Symmetry
INVARIANTS OnlyAddedLogIn AddedCanLogIn OneLinePerUser
PROPERTY VerdictsLast
CHECK_DEADLOCK FALSE
