\* One call at a time.
SPECIFICATION BuiltSpec
CONSTANTS
  Block = 4
  Round = 2
  Pair = 1
  BulkMin = 5
  o1 = o1
  o2 = o2
  c1 = c1
  b1 = b1
  Objects = {o1, o2}
  Callers = {c1}
  Buffers = {b1}
  Contents <- FewContents
  Seeds = {0, 7}
  MaxTotal = 2
  MaxMoves = 1
  NoSeed = NoSeed
  BadSeed = BadSeed
  Free = Free
  NoObject = NoObject
  NoBuffer = NoBuffer
PROPERTIES
  ResetRestoresBuilt
CHECK_DEADLOCK FALSE
