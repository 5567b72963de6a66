SPECIFICATION Spec

CONSTANTS
  ID = {1, 2, 3}
  Self = 2
  SelfEp = 1
  MaxSilence = 2
  Ep = {1, 2}
  Key = {1}
  PACKAGENUM = 2
  End = End

INVARIANT TypeOK
INVARIANT TimerHostsValid
INVARIANT EveryPeerTicked
INVARIANT DeadPeersGone
INVARIANT CountedWithinOne
CHECK_DEADLOCK FALSE
