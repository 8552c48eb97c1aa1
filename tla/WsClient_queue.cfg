SPECIFICATION FairSpec
CONSTANTS
  Users = {"limited"}
  Singles <- OneSingle
  Batches = {}
  Registered <- ShippedRegistry
  RPCMaxConcurrentReqs = 1
  SendBufferSize = 1
  Notifiers = {"t1", "t2"}
  MaxMsgs = 2
  MaxNtfns = 3
PROPERTIES QueueNotificationReturns
CHECK_DEADLOCK FALSE
