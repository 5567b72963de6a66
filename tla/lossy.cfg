SPECIFICATION Spec

CONSTANTS
  s = s
  p = p
  a = a
  b = b
  Null = Null
  Node = {s, a, b}
  ID = {1, 3, 4, 7}
  Ip <- MCIp
  Port <- MCPort
  LocalEp <- MCLocalEp
  MapEp <- ConeMap
  Filters = {a, b}
  Hairpin = {}
  MainNodes = {s}
  RemoteServer <- MCRemoteServer
  IDsOf <- FixedID
  Garbage <- FlagIsFalse
  BindChannels = {}
  Repeats = 1
  MaxHosts = 3
  PACKAGENUM = 2
  ProbeRounds = 2
  DetectRounds = 1
  InOrder = FALSE
  Synchronous = FALSE
  Restarts = TRUE
  MaxLoss = 1
  MaxDup = 0
  MaxCrash = 1
  MaxRounds = 0

INVARIANT TypeOK
INVARIANT OnlyHeardPeers
INVARIANT HolesOpen
INVARIANT ListedIsConnected
PROPERTY ImplementsMembership
CHECK_DEADLOCK FALSE
