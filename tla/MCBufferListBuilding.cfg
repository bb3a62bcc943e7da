SPECIFICATION Spec
CONSTANTS
  Lists = {A, B}
  Clients <- BuildingClients
  Align = 2
  AllocUnit = 3
  Overhead = 1
VIEW ChainView
SYMMETRY Symmetry
INVARIANTS Wellformed AppendSpaceOwn
PROPERTIES ImplementsSharedText FaultsOnlyAt
CHECK_DEADLOCK FALSE
