SPECIFICATION FairSpec
CONSTANTS
  Messages = {m1, m2}
  Malformed = {m2}
  Replicas = {k1, k2}
  BatchSize = 2
  HandlersMayFail = TRUE
  ReceiveMayFail = TRUE
  MaxDeaths = 1
INVARIANTS TypeOK NeverLost AttemptsCounted
PROPERTY EveryMessageEnds
CHECK_DEADLOCK FALSE
