SPECIFICATION Spec
CONSTANTS
  Frames = {"message"}
  MaxClients = 3
  MaxSends = 0
  UserCalls = {"connect", "disconnect"}
  CallbackCalls <- ReconnectOnClosed
  ReconnectLatestOnly = TRUE
  BadUrls = FALSE
  ActivityTimeout = TRUE
  MaxFrames = 0
  MaxThrows = 0
INVARIANT TypeOK
INVARIANT NoHoldAndWait
INVARIANT DisconnectReportedOnce
INVARIANT SocketOrder
INVARIANT LocalCloseIsUnowned
