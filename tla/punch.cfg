SPECIFICATION FairSpec

CONSTANTS
  s = s
  p = p
  a = a
  b = b
  Null = Null
  Node = {s, a, b}
  ID = {1, 2, 3, 4, 5}
  Ip <- MCIp
  Port <- MCPort
  LocalEp <- MCLocalEp
  MapEp <- ConeMap
  Filters = {a, b}
  Hairpin = {}
  MainNodes = {s}
  RemoteServer <- MCRemoteServer
  IDsOf <- OrderOfS
  Garbage <- FlagIsFalse
  BindChannels = {}
  Repeats = 1
  MaxHosts = 3
  PACKAGENUM = 2
  ProbeRounds = 2
  DetectRounds = 1
  InOrder = TRUE
  Synchronous = TRUE
  Restarts = FALSE
  MaxLoss = 0
  MaxDup = 0
  MaxCrash = 1
  MaxRounds = 0

INVARIANT NobodyAborts
PROPERTY NoFalseEviction
PROPERTY HolePunched
PROPERTY DeadForgotten
CHECK_DEADLOCK FALSE
