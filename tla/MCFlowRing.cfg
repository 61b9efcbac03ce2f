CONSTANTS
  Ring = {0, 1}
  If = {wl}
  Da = {a, b}
  None = None
  Delay = 1
  Trickle = 2
  High = 1
  Low = 1
  Depth = 2
  Refill = 1
  PktIds = 1
  MaxPkt = 2
  MaxAfter = 0
  MaxOps = 1
SPECIFICATION Spec
SYMMETRY Symmetry
INVARIANTS NoOops NoStranded StopEnds RingMemory NeverOvercounted
CHECK_DEADLOCK FALSE
