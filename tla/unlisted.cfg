SPECIFICATION Spec

CONSTANTS
  s = s
  p = p
  a = a
  b = b
  Null = Null
  Node = {s, a, b}
  ID = {1, 3, 4, 7}
  Ip <- MCIp
  Port <- MCPort
  LocalEp <- MCLocalEp
  MapEp <- ConeMap
  Filters = {a, b}
  Hairpin = {}
  MainNodes = {s}
  RemoteServer <- MCRemoteServer
  IDsOf <- FixedID
  Garbage <- FlagIsFalse
  BindChannels = {}
  Repeats = 1
  MaxHosts = 3
  PACKAGENUM = 2
  ProbeRounds = 2
  DetectRounds = 1
  InOrder = TRUE
  Synchronous = TRUE
  Restarts = TRUE
  MaxLoss = 0
  MaxDup = 0
  MaxCrash = 1
  MaxRounds = 0

INVARIANT UpdateListsReader
CHECK_DEADLOCK FALSE
