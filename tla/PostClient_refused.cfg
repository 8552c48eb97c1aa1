SPECIFICATION PostSpec
CONSTANTS
  c1 = c1
  c2 = c2
  c3 = c3
  Calls = {c1}
  Receivers = {c1}
  SendPostBufferSize = 1
  Tries = 1
  AppShutdown = TRUE
INVARIANTS RefusedNotExecuted
CHECK_DEADLOCK FALSE
