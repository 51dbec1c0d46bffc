SPECIFICATION Spec
CONSTANTS
  Procs = {p1, p2, p3}
  Blocks = {k1, k2, k3}
  Bufs = {f1, f2}
  Vals = {0, 1}
  None = None
SYMMETRY Symmetry
INVARIANTS OneCopy NoSleeperOnFree
PROPERTIES IsBlockStore
CHECK_DEADLOCK FALSE
