SPECIFICATION Spec
CONSTANTS
  Chunk = 2
  Parts = 2
  SockCap = 3
  Lens <- LongIn
  MaxMsgs <- TwoEach
  Faults = FALSE
  None = None
INVARIANTS DeliversAsSent
CHECK_DEADLOCK FALSE
