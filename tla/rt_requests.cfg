SPECIFICATION FairSpec
CONSTANTS
  MaxRequests = 2
  ResetAbove = 0
  MaxDepth = 3
  MaxConnects = 1
  MaxPushes = 1
  MaxData = 1
  Formats = {"Json"}
  UserCalls = {"request", "connect", "disconnect", "sendMatchData"}
  CallbackCalls = {"request"}
INVARIANT TypeOK
INVARIANT ReplyFindsItsRequest
INVARIANT FramesOwnContexts
INVARIANT ContextsArePending
PROPERTY KeepsPromise
PROPERTY AnsweredWhileConnected
