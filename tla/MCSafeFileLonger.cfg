SPECIFICATION Spec
CONSTANTS
  a = a
  b = b
  Byte <- MCByte
  Vals <- LongVals
  Absent = Absent
  Probe = 2
  Reads <- MCReads
  Inodes <- MCInodes
INVARIANT Written
