CONSTANTS
  NoPacket = NoPacket
  Serial = Serial
  Packets = {p1, p2, p3}
  Producers = {r1, r2}
  Cpus = {c1, c2}
  PeerQueueLen = 2
  RxRingFills = TRUE
  Budget = 3
SPECIFICATION Spec
INVARIANTS
  FlushedTwiceIsEmpty
CHECK_DEADLOCK FALSE
