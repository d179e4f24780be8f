SPECIFICATION FairSpec
CONSTANTS
  Frames = {"message"}
  MaxClients = 2
  MaxSends = 0
  UserCalls = {"connect", "disconnect"}
  CallbackCalls <- ReconnectOnClosed
  ReconnectLatestOnly = TRUE
  BadUrls = FALSE
  ActivityTimeout = FALSE
  MaxFrames = 1
  MaxThrows = 1
PROPERTY CallsReturn
PROPERTY ConnectAnswered
PROPERTY DisconnectDelivered
PROPERTY ImplementsTransport
