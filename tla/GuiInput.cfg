SPECIFICATION FairSpec
CONSTANTS
  Keys = {"Up", "Left"}
  FullPorts = {app}
  WindowPorts = {}
  DesktopPorts = {desktop, lock}
  QueueSize = 1
  MaxOps = 3
  MaxInjects = 1
  NULL = NULL
INVARIANTS
  NoInputAfterRemove
  OneViewPortAtATime
  QueueIsServed
PROPERTIES
  LockdownShields
  PressIsReleased
