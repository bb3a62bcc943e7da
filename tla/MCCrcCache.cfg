SPECIFICATION Spec
CONSTANTS
  Threads = {t1, t2, t3}
  RawLen = 3
  Windows <- Parts
  Byte <- MCBytes
  Zero <- NoBits
  Vals <- MCVals
  ZeroVal <- NoBits
  Bases <- MCBases
  Xor <- MCXor
  Crc <- MCCrc
  NullCrc <- MCNullCrc
  Width = 2
  Poly <- MCPoly
  ByteBits = 1
  Log = 1
SYMMETRY Symmetry
INVARIANTS TypeOK CacheRight SumRight OneInside
