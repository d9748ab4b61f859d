\* Sizes as in hasher.rs and hayahash.h.
SPECIFICATION Spec
CONSTANTS
  Block = 64
  Round = 32
  Pair = 16
  BulkMin = 320
  InlineCap = 64
  Seeds = {0, 7}
  Chunks <- EdgeLengths
  MaxTotal = 330
INVARIANTS
  DigestIsOneShot
  AllocatesOnlyWhenLarger
PROPERTIES
  ImplementsStreamSpec
