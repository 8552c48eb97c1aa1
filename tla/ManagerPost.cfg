SPECIFICATION ManagerPostSpec
CONSTANTS
  h1 = h1
  h2 = h2
  Handlers = {h1, h2}
  RPCMaxWebsockets = 1
  c1 = c1
  c2 = c2
  c3 = c3
  Calls = {c1, c2, c3}
  Receivers = {c1, c2}
  SendPostBufferSize = 1
  Tries = 2
  AppShutdown = TRUE
INVARIANTS StopDisconnects ResponseBound
PROPERTIES QueueIsFifo StopReturns ManagerAnswers ClientRegistered FuturesAnswered HandlerStops
CHECK_DEADLOCK FALSE
