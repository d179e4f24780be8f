SPECIFICATION Spec
CONSTANTS
  MaxRequests = 2
  ResetAbove = 0
  MaxDepth = 2
  MaxConnects = 2
  MaxPushes = 0
  MaxData = 0
  Formats = {"Json", "Protobuf"}
  UserCalls = {"request", "connect"}
  CallbackCalls = {"request", "sendMatchData", "connect"}
INVARIANT ReplyFindsItsRequest
INVARIANT FramesOwnContexts
PROPERTY KeepsPromise
