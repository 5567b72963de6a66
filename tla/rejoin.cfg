SPECIFICATION FairSpec

CONSTANTS
  s = s
  p = p
  a = a
  b = b
  Null = Null
  Node = {s, a}
  ID = {1, 2, 3, 4}
  Ip <- MCIp
  Port <- MCPort
  LocalEp <- MCLocalEp
  MapEp <- ConeMap
  Filters = {a}
  Hairpin = {}
  MainNodes = {s}
  RemoteServer <- MCRemoteServer
  IDsOf <- AnyID
  Garbage <- FlagIsFalse
  BindChannels = {}
  Repeats = 1
  MaxHosts = 3
  PACKAGENUM = 2
  ProbeRounds = 2
  DetectRounds = 1
  InOrder = TRUE
  Synchronous = TRUE
  Restarts = TRUE
  MaxLoss = 0
  MaxDup = 0
  MaxCrash = 2
  MaxRounds = 0

PROPERTY HolePunched
CHECK_DEADLOCK FALSE
