SPECIFICATION FairSpec
CONSTANTS
  Raws = {r1, r2}
  Ptrs = {p1, p2, p3}
  Threads = {t1, t2}
  NoRaw = NoRaw
  NoPtr = NoPtr
INVARIANTS TypeOK NrefCounts NoDangling DeleterAlone NoLeak
PROPERTIES SharedOutlives Freed
