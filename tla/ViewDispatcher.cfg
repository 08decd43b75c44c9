SPECIFICATION FairSpec
CONSTANTS
  Keys = {"Up", "Ok"}
  Views = {menu, dialog}
  QueueSize = 2
  MaxEvents = 2
  MaxCustom = 1
  MaxOps = 1
  NULL = NULL
INVARIANTS
  NoInputAfterRemove
  OneViewAtATime
PROPERTIES
  PressOnlyCurrent
  StopReturns
  FreedUnlessFull
CHECK_DEADLOCK FALSE
