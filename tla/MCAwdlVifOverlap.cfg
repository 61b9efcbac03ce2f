\* A creation requested while an earlier IF_ADD is outstanding.
SPECIFICATION FairSpec
CONSTANTS
  None = None
  Vif = {v1, v2}
  Ifp = {i1, i2}
  Bss = {b1, b2}
  OtherOps = FALSE
  Overlap = TRUE
  IrqQuiesced = TRUE
CHECK_DEADLOCK FALSE
INVARIANT DeferredIsOwned
