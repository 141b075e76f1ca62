SPECIFICATION TokensSpec
CONSTANTS
  Deployers = {d1, d2}
  Pages = {p1}
  TTL = 2
  MaxClock = 2
  MaxSecrets = 3
INVARIANT TokensSurvive
PROPERTY Settles
CHECK_DEADLOCK FALSE
