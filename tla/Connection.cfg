SPECIFICATION Spec
CONSTANTS
  Flushes = {"f1"}
  MaxGen = 2
  MaxOut = 1
  MaxPongs = 2
  MaxUnsolicited = 1
  MaxCalls = 1
  AsyncAuth = TRUE
  CanReconnect = TRUE
  IgnoreAuthErrorAbort = FALSE
  UserActions = {"close", "drain", "reconnect"}
INVARIANT FlushHonest ConnectFirst NeverStranded NoLeakedTransport
PROPERTY NoDialAfterClose
CHECK_DEADLOCK FALSE
