\* The gate, the identity writes and the ticks of windows beside awdl-up.
SPECIFICATION FairSpec
CONSTANTS
  None = None
  Self = self
  Trees = {self, a, b}
  Enables = 2
INVARIANTS HungOnlyBySlip RecordedAdvertised
PROPERTIES TracksElection
