\* A device in another network namespace.
CONSTANTS
  IpOrder <- SomeIpOrder
  Requests <- SomeRequests
  Others <- SomeOthers
  MaxOthers = 1
  Starts <- SomeStarts
  BufferSizes <- SomeBufferSizes
  SetNetns = {"far"}
  DumpUnits = {2, 4}
  BusyPorts = {8}
  Links = {}
  NameBuffer = 6
  Shown <- SomeShown
  Files <- SomeFiles
  Commands <- SomeCommands
  MarkMax = 15
  KeepaliveMax = 25
  WG_KEY_LEN = 5
  Keys <- SomeKeys
  Base64Texts <- SomeBase64Texts
  HexTexts <- SomeHexTexts
SPECIFICATION NetlinkSpec
INVARIANT
  FragmentsMakeOneSet
CHECK_DEADLOCK FALSE
