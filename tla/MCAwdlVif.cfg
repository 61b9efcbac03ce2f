\* Creations of awdl0 beside another virtual interface, safety.
SPECIFICATION Spec
CONSTANTS
  None = None
  Vif = {v1, v2, v3}
  Ifp = {i1, i2, i3}
  Bss = {b1, b2}
  OtherOps = TRUE
  Overlap = FALSE
  IrqQuiesced = TRUE
SYMMETRY ObjectSymmetry
CHECK_DEADLOCK FALSE
INVARIANTS NoDangling NoVifLeak DetachClean
PROPERTIES ClaimedIsWorkers
