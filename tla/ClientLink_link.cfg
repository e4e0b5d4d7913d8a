SPECIFICATION FairSpec
CONSTANTS
  None = None
  Sockets = {k1, k2, k3}
  MayNotReconnect = TRUE
INVARIANTS
  NoStraySocket
PROPERTIES
  CloseEnds
  MuteIsReplaced
  Recovers
CHECK_DEADLOCK FALSE
