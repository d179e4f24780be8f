SPECIFICATION FairSpec
CONSTANTS
  MaxRequests = 3
  UserCalls = {"request", "tick", "disconnect", "destroy"}
  TickCalls = {"request", "tick", "disconnect"}
  CancelCalls = {"request"}
  BadPaths = TRUE
  MaxDepth = 5
  MaxThrows = 1
INVARIANT TypeOK
INVARIANT ContextFound
INVARIANT NoRequestLost
INVARIANT NoTouchAfterFree
PROPERTY KeepsPromise
PROPERTY Answered
CHECK_DEADLOCK FALSE
