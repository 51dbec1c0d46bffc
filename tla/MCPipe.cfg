SPECIFICATION Spec
CONSTANTS
  Procs = {p1, p2, p3}
  First = p1
  Killable = {p1}
  Bytes = {0, 1}
  PIPESIZE = 2
  UINT = 4
  MaxN = 2
SYMMETRY Symmetry
INVARIANTS NoMissedWakeup FreedInTime
PROPERTIES IsChannel
CHECK_DEADLOCK FALSE
