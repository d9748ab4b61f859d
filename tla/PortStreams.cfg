\* PortStreams, every byte count divided by 8, int of 8 bits.
SPECIFICATION PortSpec
CONSTANTS
  Block = 8
  Round = 4
  Pair = 2
  BulkMin = 40
  Keep = 16
  BufCap = 56
  Seeds = {1}
  Chunks <- PortChunks
  MaxTotal = 260
  IndexMax = 127
  Offsets <- EdgeOffsets
  Sizes <- EdgeSizes
INVARIANTS
  NothingOverflows
  ReadsInsideArray
PROPERTIES
  ImplementsHayaStream
