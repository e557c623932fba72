SPECIFICATION FairSpec
CONSTANTS
  None = None
  Clients = {c1, c2}
  Kinds = {"logged", "transient", "empty"}
  MaxMsgs = 2
  SockCap = 1
  PipeCap = 1
  Duration = 0
  MaxTime = 1
  Oom = TRUE
INVARIANTS PlacesInLog BacklogArmed
PROPERTIES LoggedStays  ImplementsBroadcast EventuallyDelivered
CHECK_DEADLOCK FALSE
