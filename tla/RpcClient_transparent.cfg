SPECIFICATION FairSpec
CONSTANTS
  c1 = c1
  c2 = c2
  Calls = {c1}
  Method <- OneCall
  NtfnKinds = {}
  Registered <- ShippedRegistry
  AutoReconnect = TRUE
  SendBufferSize = 1
  MaxConns = 2
  StableConns = {2}
  AppCalls = {}
  BlockingCalls = {}
PROPERTIES ReconnectTransparent
CHECK_DEADLOCK FALSE
