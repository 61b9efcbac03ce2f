\* Windows over a table with fewer slots than peers.
SPECIFICATION PeersFairSpec
CONSTANTS
  NoPeer = NoPeer
  Peer = {p1, p2, p3}
  Slots = 2
  LinkLoss = FALSE
  DelFails = FALSE
  PrimeAny = FALSE
INVARIANTS Recoverable
PROPERTIES Reachable
