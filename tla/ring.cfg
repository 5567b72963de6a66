SPECIFICATION Spec

CONSTANTS
  Slots = 3
  Thread = {t1, t2, t3}
  Nothing = Nothing
  Empty = Empty
  Torn = Torn
  MaxReceives = 5
  MaxFailures = 1

INVARIANT TypeOK
INVARIANT OneReceive
PROPERTY IntactUntilLapped
PROPERTY Answered
CHECK_DEADLOCK FALSE
