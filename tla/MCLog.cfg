SPECIFICATION MCSpec
CONSTANTS
  Procs = {p1, p2}
  b1 = b1
  b2 = b2
  b3 = b3
  b4 = b4
  Blocks <- Four
  Writes <- FewWrites
  Vals = {0, 1}
  Absent = Absent
  MAXOPBLOCKS = 2
  OpBlocks = 1
  LOGBLOCKS = 4
INVARIANTS LogSpace NoPanic
PROPERTIES CrashAtomic SleeperWoken
