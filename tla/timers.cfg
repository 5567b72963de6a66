SPECIFICATION Spec

CONSTANTS
  s = s
  p = p
  a = a
  b = b
  Null = Null
  Node = {s, a}
  ID = {1, 2, 3}
  Ip <- MCIp
  Port <- MCPort
  LocalEp <- MCLocalEp
  MapEp <- ConeMap
  Filters = {a}
  Hairpin = {}
  MainNodes = {}
  RemoteServer <- MCRemoteServer
  IDsOf <- FixedID
  Garbage <- FlagOfServer
  BindChannels <- FromBind
  Repeats = 1
  MaxHosts = 3
  PACKAGENUM = 1
  ProbeRounds = 1
  DetectRounds = 1
  InOrder = FALSE
  Synchronous = FALSE
  Restarts = TRUE
  MaxLoss = 0
  MaxDup = 1
  MaxCrash = 0
  MaxRounds = 2

INVARIANT CountersOfPeers
 
CHECK_DEADLOCK FALSE
