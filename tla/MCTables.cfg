\* The window: a ring of four words of two bits (window 6) and counters up to
\* 16, so that the ring is overwritten twice before the message limit.
CONSTANTS
  BitsPerLong = 2
  Words = 4
  U64 = 24
  ULong = 24
  Threads = {p, q}
  Handshakes = {h1, h2}
  Keypairs = {k1, k2}
  Indices = {a, b, c}
  NoEntry = NoEntry
  NoIndex = NoIndex
  Bits = 2
  Cells = {a, b, c}
  NoNode = NoNode
  Assignable <- MCAssignable
  Sought <- MCSought
  MaxRaces = 2
  Peers = {p, q}
  NoPeer = NoPeer
SPECIFICATION TablesSpec
SYMMETRY Symmetry
INVARIANTS
  WindowExact
  IndexResolves
  LookupIsLongestPrefix
  TrieSafe
  DumpConsistent
