\* Lookups, waits and transfers under TERM and KILL.
SPECIFICATION FairSpec
CONSTANTS
  None = None
  Mac = {m1, m2}
  Own = {q}
  AIRDROP_PORT = apple
CHECK_DEADLOCK FALSE
INVARIANTS OneAdvert NothingLeftOnAir
PROPERTIES AnsweredPortKept Ends
