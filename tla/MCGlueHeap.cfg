SPECIFICATION Spec
CONSTANTS
  Handles = {h1, h2, h3}
  Addresses = {a1, a2, a3}
  Blocks = {b1, b2}
  MaxSize = 2
  InitialSize = 2
  NULL = NULL
SYMMETRY Symmetry
CHECK_DEADLOCK FALSE
INVARIANTS
  Tracked
  OwnedIntact
  NoLeak
  TableFits
