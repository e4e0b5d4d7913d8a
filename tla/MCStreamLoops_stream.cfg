SPECIFICATION Spec
CONSTANTS
  None = None
  Sessions = {s1, s2}
  Loops = {l1, l2, l3}
  Savers = {g1}
INVARIANTS
  NoLostLoop
  OneStream
  StreamFollowsSession
SYMMETRY Identifiers
