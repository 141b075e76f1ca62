CONSTANTS
  h1 = h1
  h2 = h2
  Hub <- MCHub
  None = None
  RingCap = 1
  QueueCap = 1
  MaxRead = 2
  MaxOut = 2
  MaxOpens = 2
SPECIFICATION FairSpec
INVARIANTS SenderCurrent StreamContiguous ReplayReachesBack
PROPERTIES CloseEnds OutputArrives
CHECK_DEADLOCK FALSE
