\* HayaStream, every byte count divided by 8, all lengths of a call, two seeds.
SPECIFICATION FairSpec
CONSTANTS
  Block = 8
  Round = 4
  Pair = 2
  BulkMin = 40
  Keep = 16
  BufCap = 56
  Seeds = {1, 2}
  Chunks <- EveryLength
  MaxTotal = 118
INVARIANTS
  IInv
  NothingLostOrRepeated
  FloorKept
  DigestIsOneShot
PROPERTIES
  FastPathFinishes
  ImplementsStreamSpec
  UpdateReturns
