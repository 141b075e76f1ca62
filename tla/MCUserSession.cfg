CONSTANTS
  h1 = h1
  h2 = h2
  t1 = t1
  t2 = t2
  p1 = p1
  p2 = p2
  Hub <- MCHub
  PtyChan = {1}
  ProxyChan = {2}
  Session <- MCSession
  ChanOf <- MCChanOf
  None = None
  MaxFrames = 2
SPECIFICATION Spec
SYMMETRY MCSymmetry
INVARIANTS InputReachesSession ClosedLeavesMap AloneInOrder
CHECK_DEADLOCK FALSE
