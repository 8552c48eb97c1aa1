SPECIFICATION FairSpec
CONSTANTS
  c1 = c1
  c2 = c2
  Calls = {c1, c2}
  Method <- TwoCalls
  NtfnKinds = {}
  Registered <- ShippedRegistry
  AutoReconnect = FALSE
  SendBufferSize = 1
  MaxConns = 1
  StableConns = {}
  AppCalls = {"Disconnect", "Shutdown"}
  BlockingCalls = {c2}
INVARIANTS CallbackUnanswered
PROPERTIES EveryFutureAnswered
CHECK_DEADLOCK FALSE
