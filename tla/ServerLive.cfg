SPECIFICATION FairSpec
CONSTANTS
  Conns = {c1, c2}
  Users = {u1}
  h1 = h1
  Hashes = {h1, h2}
  UsersFile <- MCUsersFile
  RegistryMax = 2
  NULL = NULL
PROPERTIES LoginAnswered StopCompletes StopNoticed AuthOkIsEarned
