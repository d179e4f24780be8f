SPECIFICATION Spec
CONSTANTS
  Frames = {"message"}
  MaxClients = 1
  MaxSends = 0
  UserCalls = {"connect"}
  CallbackCalls <- NoCallbackCalls
  ReconnectLatestOnly = TRUE
  BadUrls = FALSE
  ActivityTimeout = FALSE
  MaxFrames = 0
  MaxThrows = 0
INVARIANT ConnectedIsTrue
