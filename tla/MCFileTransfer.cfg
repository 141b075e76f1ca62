SPECIFICATION FairTransferSpec
CONSTANTS
  u1 = u1
  d1 = d1
  path = path
  Absent = Absent
  Upload <- MCUpload
  Download <- MCDownload
  Path <- MCPath
  PathOf <- MCPathOf
  Size <- MCSize
  Cell <- MCCell
  Stored <- MCStored
  QueueCap = 1
  MaxConns = 2
INVARIANT TransfersExact
PROPERTY TransfersComplete
CHECK_DEADLOCK FALSE
