\* The x86_64 code in a kernel that may be preempted.
CONSTANTS
  CHACHA20_BLOCK_SIZE = 4
  POLY1305_BLOCK_SIZE = 2
  POLY1305_MAC_SIZE = 2
  POLY1305_KEY_SIZE = 3
  PAGE_SIZE = 4
  PreemptArchs = {"x86_64"}
  MsgLens = {0, 1, 4, 6, 8, 9, 14}
  AdLens = {0, 1, 2}
INIT AeadInit
NEXT AeadNext
INVARIANT
  VectorInSection
