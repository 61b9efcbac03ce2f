\* Programs resolve while windows open and close and a pair is created.
SPECIFICATION SmallSpec
CONSTANTS
  Nobody = Nobody
  Other = other
  Users = {u1, u2}
  Readers = {}
  Ids = {f, g}
  Unlocked = TRUE
SYMMETRY Alike
INVARIANTS PairOfOne NoHalfLeft
PROPERTIES AnswersByContract
