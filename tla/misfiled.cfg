SPECIFICATION Spec

CONSTANTS
  s = s
  p = p
  a = a
  b = b
  Null = Null
  Node = {s, p, a, b}
  ID = {1, 2, 3, 4}
  Ip <- MCIp
  Port <- MCPort
  LocalEp <- MCLocalEp
  MapEp <- ConeMap
  Filters = {a, b}
  Hairpin = {}
  MainNodes = {s}
  RemoteServer <- TwoServers
  IDsOf <- ServersLast
  Garbage <- FlagIsFalse
  BindChannels = {}
  Repeats = 1
  MaxHosts = 4
  PACKAGENUM = 2
  ProbeRounds = 2
  DetectRounds = 1
  InOrder = TRUE
  Synchronous = TRUE
  Restarts = TRUE
  MaxLoss = 0
  MaxDup = 0
  MaxCrash = 0
  MaxRounds = 0

INVARIANT ListedIsConnected
CHECK_DEADLOCK FALSE
