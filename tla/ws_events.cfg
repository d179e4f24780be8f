SPECIFICATION Spec
CONSTANTS
  Frames = {"message"}
  MaxClients = 2
  MaxSends = 1
  UserCalls = {"connect", "send", "destroy"}
  CallbackCalls <- SendInCallbacks
  ReconnectLatestOnly = TRUE
  BadUrls = TRUE
  ActivityTimeout = FALSE
  MaxFrames = 1
  MaxThrows = 0
INVARIANT DisconnectReportedOnce
INVARIANT SocketOrder
INVARIANT NoSendOnDestroyed
INVARIANT QuietAfterDestructor
PROPERTY ImplementsTransport
