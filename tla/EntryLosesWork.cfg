SPECIFICATION Spec
CONSTANTS
  here = here
  there = there
  Devices <- MCDevices
  Hazards = {"outOfTurn"}
  MaxWrites = 4
  MaxFaults = 0
  NoText = NoText
  Bought = Bought
PROPERTIES WorkStays
CHECK_DEADLOCK FALSE
