\* Two hashers, two calls at a time, one buffer.
SPECIFICATION Spec
CONSTANTS
  Block = 4
  Round = 2
  Pair = 1
  BulkMin = 5
  o1 = o1
  o2 = o2
  c1 = c1
  c2 = c2
  b1 = b1
  Objects = {o1, o2}
  Callers = {c1, c2}
  Buffers = {b1}
  Contents <- FewContents
  Seeds = {0, 7}
  MaxTotal = 2
  MaxMoves = 1
  NoSeed = NoSeed
  BadSeed = BadSeed
  Free = Free
  NoObject = NoObject
  NoBuffer = NoBuffer
SYMMETRY MCSymmetry
INVARIANTS
  IInv
  ViewsAccounted
  StateIsGiven
  AllOrNothing
  ImportAllOrNothing
  AnswersRight
