SPECIFICATION Spec
CONSTANTS
  Pages = {p1, p2}
  Tabs = {t1}
  MaxConns = 2
  MaxEdits = 2
INVARIANT FileSound
PROPERTIES FileForward Persisted
CHECK_DEADLOCK FALSE
