SPECIFICATION Spec
CONSTANTS
  a = a
  b = b
  c = c
  here = here
  there = there
  Ids <- MCIds
  Devices <- MCDevices
  Made <- MCMade
  Starter = here
  Overlap = TRUE
  StartFails = TRUE
  Exclusive = FALSE
  MaxSeq = 7
  MaxFaults = 1
  NoEvent = NoEvent
INVARIANTS EventOnce MovesKept
PROPERTIES ConfirmedStays StoredStays
CHECK_DEADLOCK FALSE
CONSTRAINT Followed
