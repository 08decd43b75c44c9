SPECIFICATION FairDesktopSpec
CONSTANTS
  Starters = {menu}
  Cli = {cli}
  Apps = {plain, safe}
  SafeApps = {safe}
  MaxTasks = 2
  NULL = NULL
  QueueSize = 3
  MaxSubs = 3
CHECK_DEADLOCK FALSE
INVARIANTS
  NoAssertFails
  OneOwner
  ArgsOutliveApp
  InsomniaRestored
PROPERTIES
  LoaderFreed
  DeviceLocksAgain
