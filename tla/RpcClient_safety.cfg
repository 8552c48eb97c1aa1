SPECIFICATION Spec
CONSTANTS
  c1 = c1
  c2 = c2
  Calls = {c1}
  Method <- OneNotify
  NtfnKinds = {"blocks"}
  Registered = {"call", "blocks"}
  AutoReconnect = TRUE
  SendBufferSize = 1
  MaxConns = 2
  StableConns = {}
  AppCalls = {"Shutdown"}
  BlockingCalls = {c1}
INVARIANTS SingleResponse BooksKept ConnectionInv
CHECK_DEADLOCK FALSE
