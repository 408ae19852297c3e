\* Three peers and four allowed IPs, and buffers of all sizes that matter.
CONSTANTS
  IpOrder <- SomeIpOrder
  Requests <- SomeRequests
  Others <- SomeOthers
  MaxOthers = 1
  Starts <- SomeStarts
  BufferSizes <- SomeBufferSizes
  SetNetns = {"own"}
  DumpUnits = {2, 4}
  BusyPorts = {8}
  Links <- SomeLinks
  NameBuffer = 6
  Shown <- SomeShown
  Files <- SomeFiles
  Commands <- SomeCommands
  MarkMax = 15
  KeepaliveMax = 25
  WG_KEY_LEN = 5
  Keys <- SomeKeys
  Base64Texts <- SomeBase64Texts
  HexTexts <- SomeHexTexts
SPECIFICATION UserspaceSpec
INVARIANTS
  FragmentsMakeOneSet
  
  ListExact
  ShowconfRestores
  
  KeyTextExact
PROPERTIES
  SetAdvances
  CommandEnds
CHECK_DEADLOCK FALSE
