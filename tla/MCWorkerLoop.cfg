SPECIFICATION Spec
CONSTANTS
  ConnectionN = 2
  MaxClients = 3
  MaxPieces = 3
  MaxReads = 1
  MaxCloses = 1
INVARIANT PoolConsistent
INVARIANT NothingLeftOpen
INVARIANT NoLostEvent
PROPERTY BusyKept
PROPERTY QuitEnds
CHECK_DEADLOCK FALSE
