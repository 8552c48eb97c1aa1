SPECIFICATION ManagerFairSpec
CONSTANTS
  h1 = h1
  h2 = h2
  Handlers = {h1}
  RPCMaxWebsockets = 1
PROPERTIES RemovedForgotten
CHECK_DEADLOCK FALSE
