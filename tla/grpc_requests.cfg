SPECIFICATION FairSpec
CONSTANTS
  MaxRequests = 3
  UserCalls = {"request", "tick", "disconnect", "destroy"}
  CallbackCalls = {"request", "tick", "disconnect"}
  MaxDepth = 6
  MaxThrows = 1
INVARIANT TypeOK
INVARIANT TagsAreContexts
INVARIANT NoRequestLost
PROPERTY KeepsPromise
PROPERTY Answered
