SPECIFICATION Spec
CONSTANTS
  a = a
  b = b
  c = c
  p = p
  host = host
  guest = guest
  Ids <- MCIds
  Subs <- MCSubs
  Owner = host
  Made <- MCMade
  PressIds = {p}
  Workers = {w1, w2}
  Chunk = 1
  Ops = {"create", "append", "patch"}
  MaxSeq = 8
  MaxRequests = 4
  NoEvent = NoEvent
  AnySeq = AnySeq
PROPERTIES AppendOnly
CHECK_DEADLOCK FALSE
