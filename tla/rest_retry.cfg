SPECIFICATION FairSpec
CONSTANTS
  MaxRequests = 2
  UserCalls = {"request", "tick", "disconnect"}
  TickCalls = {}
  CancelCalls = {"request"}
  BadPaths = FALSE
  MaxDepth = 5
  MaxThrows = 0
PROPERTY DisconnectCompletes
CHECK_DEADLOCK FALSE
