\* Creations of awdl0 alone, with the fairness of the kernel's scheduling.
SPECIFICATION FairSpec
CONSTANTS
  None = None
  Vif = {v1, v2, v3}
  Ifp = {i1, i2}
  Bss = {b1, b2}
  OtherOps = FALSE
  Overlap = FALSE
  IrqQuiesced = TRUE
CHECK_DEADLOCK FALSE
PROPERTIES CreationEnds DetachEnds ImplementsLink
