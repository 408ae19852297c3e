\* Two peers with two keys and one worker; the shortest times that keep the
\* order of the real ones.
CONSTANTS
  Cells = {p1, p2}
  NoPeer = NoPeer
  Keys = {k1, k2}
  NoKey = NoKey
  LowOrder = {}
  Workers = {w1}
  MAX_PEERS_PER_DEVICE = 2
  ZeroKeyTimer = FALSE
  SlowDone = FALSE
  NoKeypair = NoKeypair
  REKEY_TIMEOUT = 1
  KEEPALIVE_TIMEOUT = 1
  REKEY_AFTER_TIME = 1
  REJECT_AFTER_TIME = 4
  REKEY_AFTER_MESSAGES = 1
  REJECT_AFTER_MESSAGES = 2
  MAX_TIMER_HANDSHAKES = 1
  MAX_STAGED_PACKETS = 1
  MaxBatches = 1
  Intervals = {0, 2}
  RacingStop = FALSE
SPECIFICATION PeersSpec
SYMMETRY Symmetry
INVARIANTS
  PeersSound
  
  
  
PROPERTY
  DumpComplete
