CONSTANTS
  s1 = s1
  s2 = s2
  s3 = s3
  s4 = s4
  u1 = u1
  mine = mine
  other = other
  Streams = {s1, s2, s3, s4}
  Users = {u1}
  Tokens = {mine, other}
  UserOf <- MCUserOf
  TokenOf <- MCTokenOf
  NoToken = NoToken
  Window = 4
  Chunks = 2
  MaxMilestones <- MCMaxMilestones
  Leaving = {s1}

SPECIFICATION Spec
INVARIANTS
  TypeOK
  Transcript
  HistoriesAreSound
CHECK_DEADLOCK FALSE
PROPERTIES
  StreamsEnd
