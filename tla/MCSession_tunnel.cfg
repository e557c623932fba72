SPECIFICATION FairSpec
CONSTANTS
  Chunk = 2
  Parts = 2
  SockCap = 3
  Lens <- LongOut
  MaxMsgs <- TwoEach
  Faults = TRUE
  None = None
INVARIANTS KeysInStep OneChunkPerKey
PROPERTIES ImplementsDuplex Arrives
CHECK_DEADLOCK FALSE
