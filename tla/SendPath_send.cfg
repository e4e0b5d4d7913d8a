SPECIFICATION FairSpec
CONSTANTS
  Sizes = {0, 1, 3, 5}
  QueueCap = 2
  Limits = {TRUE, FALSE}
  Burst = 4
  Deadline = 7
  Late = 1
INVARIANTS
  WithinBandwidth
  OpenHasWriter
PROPERTY
  FullQueueMoves
CHECK_DEADLOCK FALSE
