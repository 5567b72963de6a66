SPECIFICATION Spec

CONSTANTS
  s = s
  p = p
  a = a
  b = b
  Null = Null
  Node = {s, a, b}
  ID = {1, 2, 3}
  Ip <- MCIp
  Port <- MCPort
  LocalEp <- MCLocalEp
  MapEp <- ConeMap
  Filters = {a, b}
  Hairpin = {}
  MainNodes = {s}
  RemoteServer <- MCRemoteServer
  IDsOf <- AnyID
  Garbage <- FlagIsFalse
  BindChannels = {}
  Repeats = 1
  MaxHosts = 3
  PACKAGENUM = 2
  ProbeRounds = 2
  DetectRounds = 1
  InOrder = FALSE
  Synchronous = FALSE
  Restarts = TRUE
  MaxLoss = 0
  MaxDup = 0
  MaxCrash = 0
  MaxRounds = 0

INVARIANT OpenconnectTellsNatType
CHECK_DEADLOCK FALSE
