SPECIFICATION FairSpec
CONSTANTS
  Users = {"none", "limited"}
  Singles <- AllSingles
  Batches <- SomeBatches
  Registered <- ShippedRegistry
  RPCMaxConcurrentReqs = 1
  SendBufferSize = 1
  Notifiers = {"t1"}
  MaxMsgs = 2
  MaxNtfns = 2
INVARIANTS OneOutstanding NtfnFIFO
PROPERTIES ReplyWritten ShutdownCompletes QueueNotificationReturns
CHECK_DEADLOCK FALSE
