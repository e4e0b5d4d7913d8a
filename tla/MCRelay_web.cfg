SPECIFICATION Spec
CONSTANTS
  None = None
  helped = helped
  helper = helper
  second = second
  c1 = c1
  c2 = c2
  c3 = c3
  c4 = c4
  Conns = {c1, c2, c3}
  Devices = {helper, helped}
  Peers = {p1}
  SessionIds = {s1}
  Tokens = {t1}
  Codes = {}
  Kinds = {"input"}
  DeviceOf <- OneHelper
  Asks <- NobodyAsks
  Early = {}
  MayIdle = {}
  MaxClients = 0
  QueueMayFill = FALSE
INVARIANTS
  WebSessionBoundToShare
  VisitorLeavesNothing
  InputInFlightGranted
PROPERTY
  SessionAuthoritySpec
SYMMETRY
  Reconnecting
