CONSTANTS
  MaxSockets = 4
  None = None
SPECIFICATION FairSpec
INVARIANT OneWatchedSocket
PROPERTIES SilentServerLeft TriesAgain
CHECK_DEADLOCK FALSE
