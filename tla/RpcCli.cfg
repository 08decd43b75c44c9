SPECIFICATION FairSpec
CONSTANTS
  BufferSize = 2
  MaxChunks = 3
  Messages = {"request", "stream", "stop", "unknown", "bad"}
  NULL = NULL
INVARIANTS
  NoCallbackAfterClose
  NoUseAfterEnd
PROPERTIES
  CloseReturns
  NoLostWakeup
CHECK_DEADLOCK FALSE
