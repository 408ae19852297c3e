\* Nothing is set but by others, and dumps are read with the usual buffer.
CONSTANTS
  IpOrder <- SomeIpOrder
  Requests = {}
  Others <- SomeOthers
  MaxOthers = 1
  Starts <- SomeStarts
  BufferSizes = {256}
  SetNetns = {"own"}
  DumpUnits = {2, 4}
  BusyPorts = {8}
  Links = {}
  NameBuffer = 6
  Shown <- SomeShown
  Files <- SomeFiles
  Commands <- SomeCommands
  MarkMax = 15
  KeepaliveMax = 25
  WG_KEY_LEN = 5
  Keys <- SomeKeys
  Base64Texts <- SomeBase64Texts
  HexTexts <- SomeHexTexts
SPECIFICATION NetlinkSpec
PROPERTY
  GetReturns
CHECK_DEADLOCK FALSE
