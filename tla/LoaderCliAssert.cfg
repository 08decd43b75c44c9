SPECIFICATION CliSpec
CONSTANTS
  Starters <- MCStarters
  Cli <- MCCli
  Apps <- MCApps
  SafeApps <- MCSafeApps
  MaxTasks = 2
  NULL = NULL
CHECK_DEADLOCK FALSE
INVARIANTS
  NoAssertFails
