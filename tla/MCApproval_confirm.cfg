SPECIFICATION Spec
CONSTANTS
  None = None
  Peers = {p1, p2}
  Users = {u1}
PROPERTY ExplicitlyConfirmed
