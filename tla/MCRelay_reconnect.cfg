SPECIFICATION Spec
CONSTANTS
  None = None
  helped = helped
  helper = helper
  second = second
  c1 = c1
  c2 = c2
  c3 = c3
  c4 = c4
  Conns = {c1, c2, c3}
  Devices = {helper, helped}
  Peers = {}
  SessionIds = {s1}
  Tokens = {}
  Codes = {}
  Kinds = {"input", "frame"}
  DeviceOf <- OneHelper
  Asks <- HelperAsks
  Early = {c1}
  MayIdle = {}
  MaxClients = 0
  QueueMayFill = FALSE
INVARIANTS
  TypeOK
  SessionPartiesOnline
  MessagesStayInSession
PROPERTIES
  EndIsAnnounced
  SessionAuthoritySpec
SYMMETRY
  Reconnecting
