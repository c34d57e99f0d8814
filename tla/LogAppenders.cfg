SPECIFICATION Spec
CONSTANTS
  a = a
  b = b
  c = c
  p = p
  host = host
  guest = guest
  Ids <- MCIds
  Subs <- MCSubs
  Owner = host
  Made <- MCMade
  PressIds = {p}
  Workers = {w1, w2}
  Chunk = 1
  Ops = {"create", "append", "press", "join", "crash", "conflict"}
  MaxSeq = 8
  MaxRequests = 3
  NoEvent = NoEvent
  AnySeq = AnySeq
SYMMETRY AnyWorker
INVARIANTS NumberedOnce OutboxInOrder Reservations
PROPERTIES LedgerSpec
CHECK_DEADLOCK FALSE
