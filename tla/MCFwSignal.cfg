SPECIFICATION FwsSpec
CONSTANTS
  Slot = {1, 2, 3}
  Fifo = {0, 1}
  Entry = {a, b}
  Init_credit <- Credits
  HiWater = 2
  LoWater = 1
  PsqLen = 2
  MaxPkt = 3
  MaxSleep = 1
  MaxFault = 1
SYMMETRY Symmetry
INVARIANTS SlotsHeld CreditsKept NothingStranded
PROPERTY InOrder
CHECK_DEADLOCK FALSE
