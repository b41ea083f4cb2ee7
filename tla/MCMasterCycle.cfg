SPECIFICATION Spec
CONSTANTS
  Workers = 2
  MaxSlots = 5
  Operators = {"HUP", "USR1", "USR2", "WINCH", "QUIT", "TERM"}
  MaxSignals = 2
  MaxFaults = 1
INVARIANT ChildrenAreKnown
INVARIANT NoOrphans
INVARIANT OldWorkersTold
INVARIANT WorkersBounded
PROPERTY TerminateEnds
CHECK_DEADLOCK FALSE
