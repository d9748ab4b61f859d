\* Every length 0..511 in every build and port, both widths.
SPECIFICATION Spec
CONSTANTS
  Builds <- AllBuilds
  Lengths <- AllLengths
  Starts = {0, 5}
INVARIANTS
  SameWalk
  ReadsInside
  EveryByteRead
PROPERTIES
  LoopsAdvance
