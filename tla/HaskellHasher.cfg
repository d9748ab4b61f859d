\* Every length of a call, every byte count divided by 8.
SPECIFICATION Spec
CONSTANTS
  Block = 8
  Round = 4
  Pair = 2
  BulkMin = 40
  Keep = 16
  BufCap = 56
  Seeds = {1, 2}
  Chunks <- EveryLength
  MaxTotal = 200
INVARIANTS
  IInv
  MemoryBounded
  DigestIsOneShot
PROPERTIES
  ImplementsStreamSpec
