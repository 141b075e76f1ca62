SPECIFICATION Spec
CONSTANTS
  root = root
  user = user
  a = a
  b = b
  x = x
  y = y
  Dirs = {root, user}
  Names = {a, b}
  Start = root
  Home = user
  Nowhere = Nowhere
  Full <- MCFull
  MaxPanels = 3
  MaxActs = 3
INVARIANTS SelectionSeen 
PROPERTY DataKept
CHECK_DEADLOCK FALSE
