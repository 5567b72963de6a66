CONSTANTS
  Worker = {w1, w2}
  Client = {c1, c2}
  Owner = owner
  Task = {t1, t2, t3}
  NoTask = none
  Free = free
  MaxSpurious = 1
SPECIFICATION FairSpec
INVARIANT TypeOK
INVARIANT WorkConserving
INVARIANT NobodySleepsOn
PROPERTY ImplementsPool
CHECK_DEADLOCK FALSE
