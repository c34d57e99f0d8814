SPECIFICATION FairSpec
CONSTANTS
  here = here
  there = there
  Devices <- MCDevices
  Hazards = {"overlap", "midpass", "unnoted"}
  MaxWrites = 5
  MaxFaults = 2
  NoText = NoText
  Bought = Bought
INVARIANTS StaysHome ObjectIsRows
PROPERTIES BoughtStays Converges
CHECK_DEADLOCK FALSE
