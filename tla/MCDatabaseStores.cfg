SPECIFICATION StoresSpec
CONSTANTS
  u1 = u1
  u2 = u2
  Clients = {c1, c2}
  Users = {u1, u2}
  Sessions = {s1}
  Messages = {1, 2, 3}
  Examples = {1, 2, 3}
  UserOf <- MCUserOf
  Matches <- MCMatches
  Limit = 2
  MaxScanned = 2
  MaxCalls = 5
PROPERTY ImplementsPort
CHECK_DEADLOCK FALSE
