SPECIFICATION FairSpec
CONSTANTS
  a = a
  b1 = b1
  b2 = b2
  alice = alice
  bob = bob
  Logins = {a, b1, b2}
  Users = {alice, bob}
  UserOf <- MCUserOf
  MaxMessages = 2
  RegistryMax = 2
  NULL = NULL
INVARIANTS SenderIsTrue UnreadableIsStale FailedIsUnseen
PROPERTY EveryMessageSettles
CHECK_DEADLOCK FALSE
