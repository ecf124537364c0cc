SPECIFICATION SearchSpec
CONSTANTS
  a = a
  b = b
  c = c
  new = new
  old = old
  NoId = NoId
  Ids = {a, b, c}
  Payloads = {new, old}
  Broken <- MCBroken
  Requests = {NoTopK, 0, 2, 51}
  NoTopK = NoTopK
  DefaultTopK = 10
  MaxTopK = 50
  Multiplier = 3
  RrfK = 1
  Scale = 12
  MaxPoints = 3
INVARIANT PageIsSound
CHECK_DEADLOCK FALSE
