SPECIFICATION Spec
CONSTANTS
  Workers = 1
  MaxSlots = 5
  Operators = {"HUP", "USR2", "WINCH", "QUIT"}
  MaxSignals = 4
  MaxFaults = 0
INVARIANT ExitsAlone
CHECK_DEADLOCK FALSE
