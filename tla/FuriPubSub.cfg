SPECIFICATION FairSpec
CONSTANTS
  Publishers = {input, timer}
  Subscribers = {gui, desktop, dump}
  Queued = {gui, dump}
  Leavers = {desktop, dump}
  QueueSize = 1
  MaxSent = 3
  NULL = NULL
CHECK_DEADLOCK FALSE
INVARIANTS
  NoCallbackAfterUnsubscribe
PROPERTIES
  ImplementsBroadcast
  UnsubscribeReturns
