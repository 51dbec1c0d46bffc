SPECIFICATION Spec
CONSTANTS
  Routers = {1, 2, 3}
  MaxPorts = 2
  Attaches <- Line
  MaxStarts <- Starts
  MaxOther <- First1
INVARIANTS OwnNewest TwoWayAnswered
PROPERTY OwnEntryKept
CHECK_DEADLOCK FALSE
