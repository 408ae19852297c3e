\* A few packets, two producers and two CPUs; rings of up to four slots; three
\* entries; one peer reached over IPv4 or IPv6 in two namespaces.
CONSTANTS
  NoPacket = NoPacket
  Serial = Serial
  Packets = {a, b, c}
  Producers = {p, q}
  Cpus = {p, q}
  PeerQueueLen = 2
  RxRingFills = FALSE
  Budget = 1
  Ptrs = {x, y}
  NULL = NULL
  Sizes = {0, 1, 2, 4}
  CACHE_BATCH = 2
  MaxHeld = 3
  Shrinks = FALSE
  Workers = {p, q}
  Sources = {s1, s2}
  EntryCells = {a, b, c}
  NoCell = NoCell
  max_entries = 2
  PACKET_COST = 1
  PACKETS_BURSTABLE = 2
  SECOND = 3
  SlowCollector = FALSE
  Senders = {p, q}
  Handlers = {p, q}
  Datagrams <- SomeDatagrams
  Replied <- SomeReplied
  Devices = {"e1", "e2", "wg"}
  SockIds = {1, 2, 3, 4}
  Ports = {1, 2}
  Nets = {"n1", "n2"}
  Busy <- SomeBusy
  Requests <- SomeRequests
  MaxJiffies = 1
  MaxGen = 1
  MaxRetries = 1
  NONE = NONE
SPECIFICATION TrafficSpec
SYMMETRY Symmetry
INVARIANTS
  InOrder
  NothingStranded
  RemovalReleases
  
  EndpointSound
  SocketsPaired
PROPERTY
  RingIsFifo
