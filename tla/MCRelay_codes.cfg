SPECIFICATION Spec
CONSTANTS
  None = None
  helped = helped
  helper = helper
  second = second
  c1 = c1
  c2 = c2
  c3 = c3
  c4 = c4
  Conns = {c1, c2, c3}
  Devices = {helper, helped, second}
  Peers = {}
  SessionIds = {}
  Tokens = {}
  Codes = {k1}
  Kinds = {}
  DeviceOf <- TwoHelpers
  Asks <- HelpersAsk
  Early = {}
  MayIdle = {}
  MaxClients = 0
  QueueMayFill = TRUE
INVARIANT
  OneRequestPerCode
