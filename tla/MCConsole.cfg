SPECIFICATION Spec
CONSTANTS
  Readers = {r1}
  Writers = {w1}
  Size = 2
  Wrap = 4
  Keys = {"a", "cr", "D", "H", "U"}
  MaxTyped = 3
  ReadSizes = {2}
  MaxReads = 1
  WriteSize = 2
  Chunk = 2
  MaxPrints = 1
  FifoSize = 3
INVARIANTS InputKept
PROPERTY ReadsEnd WritesEnd
CHECK_DEADLOCK FALSE
