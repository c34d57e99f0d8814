SPECIFICATION FairSpec
CONSTANTS
  a = a
  b = b
  c = c
  p = p
  host = host
  guest = guest
  Ids <- MCIds
  Subs <- MCSubs
  Owner = host
  Made <- MCMade
  PressIds = {p}
  Workers = {w1, w2}
  Chunk = 2
  Ops = {"create", "append", "patch", "delete", "join", "leave", "remove", "conflict"}
  MaxSeq = 10
  MaxRequests = 3
  NoEvent = NoEvent
  AnySeq = AnySeq
PROPERTIES AppendLands
CHECK_DEADLOCK FALSE
