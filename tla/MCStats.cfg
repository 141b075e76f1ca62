CONSTANTS
  h1 = h1
  h2 = h2
  Hub <- MCHub
  None = None
SPECIFICATION FairSpec
INVARIANTS LoopsMatchSenders FullFrameFirst
PROPERTY FramesArrive
CHECK_DEADLOCK FALSE
