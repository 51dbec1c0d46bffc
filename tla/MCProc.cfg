SPECIFICATION Spec
CONSTANTS
  Slots = {s1, s2, s3, s4}
  initproc = s1
  Cpus = {c1, c2}
  Killable = {s2, s3, s4}
  None = None
SYMMETRY Symmetry
INVARIANTS StackExclusive NoOrphan NoMissedExit
