CONSTANTS
  r1 = r1
  r2 = r2
  r3 = r3
  s1 = s1
  s2 = s2
  u1 = u1
  Runs = {r1, r2, r3}
  Sessions = {s1, s2}
  Users = {u1}
  SessionOf <- MCSessionOf
  UserOf <- MCUserOf
  HistoryLimit = 2
  MemoryWindow = 3
  MaxRounds = 12

SPECIFICATION Spec
INVARIANTS
  TypeOK
  PublishedAfterTrace
  ExamplesAreApproved
  MattersAreApart
  TurnsAreKept
  MemoryIsFresh
CHECK_DEADLOCK FALSE
