SPECIFICATION Spec
CONSTANTS
  Procs = {1, 2}
  NPages = 29
  Fan = 2
  Programs <- Several
  Sizes = {3, 7}
  MaxSz = 12
  MaxArgs = 2
  MaxCalls = 5
  Marks = {"mark"}
INVARIANTS NoPanic PageOnce
PROPERTY IsPrivateMemory
CHECK_DEADLOCK FALSE
