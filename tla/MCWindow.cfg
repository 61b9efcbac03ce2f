\* The window under start, stop, expiry and omdrop-core.
SPECIFICATION FairSpec
CONSTANTS
  None = None
  Forever = Forever
  Core = Core
  Starts = {s1, s2}
  Stops = {p1}
  Helpers = {mdns, peers}
  MaxSecs = 1
CHECK_DEADLOCK FALSE
INVARIANTS OneSupervisor NoStrayChild TeardownIsOwn
PROPERTIES StopIsQuiet WindowEnds
