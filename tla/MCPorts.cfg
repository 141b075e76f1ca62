SPECIFICATION Spec
CONSTANTS
  Requests <- MCRequests
  Answers <- MCAnswers
  Paths <- MCPaths
  Port = "80"
  OtherPorts = {"81", "800"}
  Longer = {"800"}
  MaxBytes = 2
  Clients = {c1, c2}
  First = c1
  NoClient = NoClient
  WriteQueue = 1
  MaxChunks = 2
INVARIANTS TokenStays AnswerMeant RelayFaithful ChunksOnce
PROPERTIES RelayEnds EndPassedOn
CHECK_DEADLOCK FALSE
