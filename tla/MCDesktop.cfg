CONSTANTS
  MaxChan = 2
  MaxConns = 2
  MaxLoads = 2
  MaxCloses = 1
  NoChannel = NoChannel
SPECIFICATION FairSpec
INVARIANT TabsRight
PROPERTY TabsAndSessionsMeet
CHECK_DEADLOCK FALSE
