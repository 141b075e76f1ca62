CONSTANTS
  Byte <- MCByte
  Cap = 3
  Payloads <- MCPayloads
  Base = 2
  MaxPayload = 2
  Inodes = {i1, i2}
  Ports = {1, 2}
  PIDs = {1, 2}
SYMMETRY Alike
SPECIFICATION MCSpec
INVARIANTS IndexInv ReplayFrameArrives ScanRight
PROPERTY ImplementsLog
