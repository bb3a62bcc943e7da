SPECIFICATION ObjectsSpec
CONSTANTS
  Threads = {"t", "u"}
  Handles = {"h1", "h2", "h3"}
  Actions = {"a", "b", "c"}
  Nobody = "nobody"
  NoAction = "no action"
  MaxImpls = 3
  Disciplined = TRUE
  Containers = {"A", "B"}
  Keys = {1, 2}
  Slots = {"i", "j"}
  Lists = {"A", "B"}
  PtrNodes = {"n1", "n2", "n3"}
  Disposed = "disposed"
  \* A length of 4 is that of 2^31 where an int has 3 bits.
  MemThreads = {"t", "u"}
  Raws = {"x"}
  Pools = {"anon", "meta"}
  Anon = "anon"
  Lens = {1, 4}
  Large = {4}
  IntMod = 8
  ItemSize = 3
  Blocks = {2}
  MaxOps = 4
VIEW View
INVARIANTS AppendersShow Threaded OwnersCounted RunsAtLast Compacted IteratorsKept PoolsBalance
CHECK_DEADLOCK FALSE
