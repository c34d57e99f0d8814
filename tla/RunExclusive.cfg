SPECIFICATION FairSpec
CONSTANTS
  a = a
  b = b
  c = c
  here = here
  there = there
  Ids <- MCIds
  Devices <- MCDevices
  Made <- MCMade
  Starter = here
  Overlap = FALSE
  StartFails = FALSE
  Exclusive = TRUE
  MaxSeq = 7
  MaxFaults = 2
  NoEvent = NoEvent
INVARIANTS InSync
PROPERTIES Converges
CHECK_DEADLOCK FALSE
