SPECIFICATION FairSpec

CONSTANTS
  s = s
  p = p
  a = a
  b = b
  Null = Null
  Node = {s, p, a}
  ID = {1, 2, 3}
  Ip <- MCIp
  Port <- MCPort
  LocalEp <- MCLocalEp
  MapEp <- ConeMap
  Filters = {}
  Hairpin = {}
  MainNodes = {s}
  RemoteServer <- MCRemoteServer
  IDsOf <- AnyID
  Garbage <- FlagIsFalse
  BindChannels = {}
  Repeats = 1
  MaxHosts = 3
  PACKAGENUM = 2
  ProbeRounds = 2
  DetectRounds = 1
  InOrder = TRUE
  Synchronous = TRUE
  Restarts = TRUE
  MaxLoss = 0
  MaxDup = 0
  MaxCrash = 0
  MaxRounds = 0

PROPERTY VerdictReached
CHECK_DEADLOCK FALSE
