SPECIFICATION Spec
CONSTANTS
  a = a
  b = b
  Byte <- MCByte
  Vals <- MCVals
  Absent = Absent
  Probe = 2
  Reads <- MCReads
  Inodes <- MCInodes
SYMMETRY Symmetry
VIEW Live
INVARIANTS TypeOK OldOrNew Written FailedKept ReadsOneVersion
