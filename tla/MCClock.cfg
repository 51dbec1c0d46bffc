SPECIFICATION Spec
CONSTANTS
  NProc = 2
  NCpu = 2
  UINT = 2
  MaxN = 1
  MaxKills = 1
INVARIANTS InterruptsMatched NeverStuck TickNotMissed NotEarly
