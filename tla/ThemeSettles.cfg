SPECIFICATION FairSpec
CONSTANTS
  here = here
  there = there
  Devices <- MCDevices
  MaxThemes = 1
  PageSize = 2
  Tries = 1
  Kinds = {"error", "pause", "close", "expire"}
  Invalid = {}
  MaxTexts = 3
  MaxNew = 1
  MaxIds = 3
  MaxKeys = 9
  MaxFaults = 1
PROPERTIES Settles
CHECK_DEADLOCK FALSE
