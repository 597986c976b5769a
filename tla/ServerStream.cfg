SPECIFICATION Spec
CONSTANTS
  Conns = {c1, c2}
  Users = {u1, u2}
  h1 = h1
  Hashes = {h1}
  UsersFile <- MCUsersFile
  RegistryMax = 2
  NULL = NULL
INVARIANT FoundStreamIsOpen
