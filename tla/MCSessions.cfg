\* Two devices with a handshake worker each; for the cookies two workers, two
\* addresses and a secret that lives for three ticks.
CONSTANTS
  NoKeypair = NoKeypair
  Devices = {a, b}
  Initiators = {a, b}
  WorkersPerDevice = 1
  MaxInitiations = 3
  MaxClears = 1
  CookieWorkers = {1, 2}
  Addresses = {x, y}
  Mac1s = {1, 2, 3}
  NoMessage = NoMessage
  NoCookie = NoCookie
  Stale = Stale
  COOKIE_SECRET_MAX_AGE = 3
  COOKIE_SECRET_LATENCY = 1
  MaxFailures = 3
SPECIFICATION SessionsSpec

  
PROPERTIES
  CookieSound
  GetsThrough
