SPECIFICATION ClientServerSpec
CONSTANTS
  c1 = c1
  c2 = c2
  Calls = {c1}
  Method <- OneRescan
  NtfnKinds = {}
  Registered = {"call", "rescan"}
  AutoReconnect = TRUE
  SendBufferSize = 1
  MaxConns = 2
  StableConns = {2}
  AppCalls = {"Shutdown"}
  BlockingCalls = {}
  p1 = p1
  p2 = p2
  Clients = {p1, p2}
  Bodies <- AnyAndOne
  Readers = {p1}
  RPCMaxClients = 1
  RPCQuirks = FALSE
INVARIANTS ClientCount RequestsAnswered
PROPERTIES ImplementsFutures ShutdownStops HandlersReturn
CHECK_DEADLOCK FALSE
