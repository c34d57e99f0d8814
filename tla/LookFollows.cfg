SPECIFICATION LinkFairSpec
CONSTANTS
  here = here
  there = there
  a = a
  b = b
  Devices <- MCDevices
  Tabs <- MCTabs
  Callers <- MCCallers
  Settings <- MCSettings
  Locks = TRUE
  Tries = 2
  StaleRounds = 2
  Reapplied = FALSE
  Cap = 1
  MaxLinks = 3
  MaxMints = 3
  MaxLooks = 2
  MaxFaults = 1
INVARIANTS PointersMatch LiveCounts NeverAhead ElsewhereIsSo ConfirmedIsSo
PROPERTIES ShownByKey KeysKept ForgottenIsGone Follows
CHECK_DEADLOCK FALSE
