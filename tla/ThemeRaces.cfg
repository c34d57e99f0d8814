SPECIFICATION MCSpec
CONSTANTS
  here = here
  there = there
  Devices <- MCDevices
  MaxThemes = 1
  PageSize = 2
  Tries = 1
  Kinds = {"error", "pause", "close", "expire"}
  Invalid = {4}
  MaxTexts = 4
  MaxNew = 1
  MaxIds = 3
  MaxKeys = 9
  MaxFaults = 1
SYMMETRY AnyDevice
INVARIANTS KeyIsOneChange AppliedOnce NoSaveLost HoldsWhatItNoted LiveIsCounted
PROPERTIES NothingBlind
CHECK_DEADLOCK FALSE
