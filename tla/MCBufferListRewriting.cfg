SPECIFICATION Spec
CONSTANTS
  Lists = {A, B}
  Clients <- RewritingClients
  Align = 2
  AllocUnit = 3
  Overhead = 1
VIEW ChainView
SYMMETRY Symmetry
INVARIANTS Wellformed
PROPERTIES ImplementsSharedText FaultsOnlyAt Realigned
CHECK_DEADLOCK FALSE
