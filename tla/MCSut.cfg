SPECIFICATION Spec
CONSTANTS
  NTasks = 2
  MaxCalls = 3
  Ops = {"yield", "open", "write", "close"}
INVARIANTS NeverTwice
PROPERTIES AllRun
CHECK_DEADLOCK FALSE
