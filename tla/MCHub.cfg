CONSTANTS
  ctrl = ctrl
  a = a
  s1 = s1
  Handler <- MCHandler
  Control = ctrl
  ChanOf <- MCChanOf
  None = None
  Sender <- MCSender
  QueueCap = 1
  MaxSends = 2
  MaxFrames = 3
  MaxBuffered = 2
SPECIFICATION FairSpec
INVARIANT CloseIsFinal
PROPERTIES NoControlAfterClose DeadConnectionEnds QueueDrains
CHECK_DEADLOCK FALSE
