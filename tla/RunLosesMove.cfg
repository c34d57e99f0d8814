SPECIFICATION Spec
CONSTANTS
  a = a
  b = b
  c = c
  here = here
  there = there
  Ids <- MCIds
  Devices <- MCDevices
  Made <- MCMade
  Starter = here
  Overlap = FALSE
  StartFails = FALSE
  Exclusive = FALSE
  MaxSeq = 5
  MaxFaults = 0
  NoEvent = NoEvent
INVARIANTS NothingMadeIsLost
CHECK_DEADLOCK FALSE
