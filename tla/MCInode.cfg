SPECIFICATION Spec
CONSTANTS
  Procs = {p1, p2}
  Names = {"d", "f"}
  NInodes = 3
  NINODE = 3
  Calls <- SomeCalls
  Image <- ImageDir
  DiskFull = TRUE
  PowerFails = TRUE
SYMMETRY Symmetry
INVARIANTS RefExact Coherent LinksExact NeverStuck
PROPERTY Reclaimed
