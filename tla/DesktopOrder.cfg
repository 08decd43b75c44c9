SPECIFICATION BootedSpec
CONSTANTS
  Starters = {menu}
  Cli = {}
  Apps = {plain}
  SafeApps = {}
  MaxTasks = 2
  NULL = NULL
  QueueSize = 3
  MaxSubs = 1
CHECK_DEADLOCK FALSE
INVARIANTS
  AnimationsAlternate
