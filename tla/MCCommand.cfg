CONSTANTS
  MaxResp = 2
  MaxEvent = 1
  MaxRx = 3
  Threshold = 2
  Depth = 4
  MaxCmd = 3
  MaxLate = 1
  MaxRefused = 1
SPECIFICATION Spec
INVARIANTS SlipBounded BuffersAccounted Fed PowerAgrees
CHECK_DEADLOCK FALSE
