SPECIFICATION FairSpec
CONSTANTS
  None = None
  helped = helped
  helper = helper
  second = second
  c1 = c1
  c2 = c2
  c3 = c3
  c4 = c4
  Conns = {c1, c2, c3, c4}
  Devices = {helper, helped, second}
  Peers = {}
  SessionIds = {}
  Tokens = {}
  Codes = {}
  Kinds = {}
  DeviceOf <- OneHelper
  Asks <- NobodyAsks
  Early = {c2}
  MayIdle = {c2, c3}
  MaxClients = 2
  QueueMayFill = FALSE
INVARIANT
  WithinCapacity
PROPERTIES
  PlacesPassOn
  QuietIsReaped
  HandlersReturn
