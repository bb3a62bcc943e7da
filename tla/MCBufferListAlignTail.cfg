SPECIFICATION Spec
CONSTANTS
  Lists = {A, B}
  Clients <- AlignTailClients
  Align = 2
  AllocUnit = 3
  Overhead = 1
VIEW HeapView
SYMMETRY Symmetry
INVARIANTS NoFault
CHECK_DEADLOCK FALSE
