SPECIFICATION Spec
CONSTANTS
  None = None
  Clients = {c1, c2}
  Kinds = {"logged", "transient"}
  MaxMsgs = 2
  SockCap = 1
  PipeCap = 1
  Duration = 0
  MaxTime = 1
  Oom = FALSE
INVARIANT ResumesSameMessage
CHECK_DEADLOCK FALSE
