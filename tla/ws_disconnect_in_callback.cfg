SPECIFICATION FairSpec
CONSTANTS
  Frames = {"message"}
  MaxClients = 1
  MaxSends = 0
  UserCalls = {"connect"}
  CallbackCalls <- DisconnectInCallbacks
  ReconnectLatestOnly = TRUE
  BadUrls = FALSE
  ActivityTimeout = FALSE
  MaxFrames = 1
  MaxThrows = 0
PROPERTY DisconnectCloses
CHECK_DEADLOCK FALSE
