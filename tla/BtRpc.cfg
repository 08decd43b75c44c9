SPECIFICATION FairBtSpec
CONSTANTS
  BufferSize = 2
  MaxChunks = 3
  Messages = {"request", "stream", "bad"}
  NULL = NULL
INVARIANTS
  NoSendAfterClose
  RepliesAreSent
PROPERTY
  DisconnectEnds
CHECK_DEADLOCK FALSE
