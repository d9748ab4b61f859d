\* Bytes of one bit: every length, one byte set, or two up to 8 bytes.
SPECIFICATION PairSpec
CONSTANTS
  Byte = {0, 1}
  Word <- Bits
  ZeroByte = 0
  Pack <- MCPack
  Num <- MCNum
  Xor <- MCXor
  Plus <- MCPlus
  Times <- MCTimes
  Rotl <- MCRotl
  Shr <- MCShr
  K = 21
  M1 = 83
  M2 = 53
  N1 = 205
  N2 = 83
  Inputs <- FewSet
  Seeds = {0, 129}
INVARIANTS
  NeverMerge
CHECK_DEADLOCK FALSE
