CONSTANTS
  Cells = {p1, p2}
  NoPeer = NoPeer
  Keys = {k1, k2}
  NoKey = NoKey
  LowOrder = {}
  Workers = {w1}
  MAX_PEERS_PER_DEVICE = 2
  ZeroKeyTimer = TRUE
  SlowDone = FALSE
SPECIFICATION Spec
INVARIANT
  PeersBeforeDevice
