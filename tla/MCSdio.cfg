SPECIFICATION Spec
CONSTANTS
  Wrap = 8
  Sane = 3
  Window = 3
  Reserve = 2
  Glom = 1
  Hi = 2
  Low = 1
  QueueLen = 2
  RxBound = 1
  TxBound = 2
  MaxFrames = 2
  MaxData = 2
  MaxCmd = 2
  MaxFaults = 1
INVARIANTS CtlOutcome 
 
CHECK_DEADLOCK FALSE
