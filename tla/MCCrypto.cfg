\* Words of a few bits, so that the carries of the real ones all happen.
CONSTANTS
  WordBits = 6
  Excess = 2
  A24 = 5
  LimbBits = 5
  U64Bits = 14
  Nineteen = 3
  WideBits = 3
  U32Bits = 14
  FiatNineteen = 3
  FiatA24 = 6
  FeBits = 7
  Limbs16 = 3
  ThirtyEight = 6
  X86Left <- X86Lefts
  X86Right <- X86Rights
  HaclLeft <- HaclLefts
  HaclRight <- HaclRights
  FiatLeft <- FiatLefts
  FiatRight <- FiatRights
  FeLeft <- FeLefts
  FeRight <- FeRights
  Scalars = {1, 6}
  Moduli <- SomeModuli
  Prime = 53
  CurveA = 22
  BaseX = 9
  KeyWord = 4
  Secrets <- SomeSecrets
  Points <- SomePoints
  W26 = 5
  W44 = 9
  U32W = 11
  U64W = 20
  U128W = 30
  OctetBits = 1
  BlockOctets = 23
  MacWords <- FourWords
  HalfWords <- TwoWords
  Clamped <- ClampedBits
  PageBlocks = 2
  VectorBlocks = 2
  PolyKeys <- SomePolyKeys
  PolyNonces <- SomePolyNonces
  PolyInputs <- SomePolyInputs
  PolyMax = 76
  LooseStates <- SomeLooseStates
  CHACHA20_BLOCK_SIZE = 4
  POLY1305_BLOCK_SIZE = 2
  POLY1305_MAC_SIZE = 2
  POLY1305_KEY_SIZE = 3
  PAGE_SIZE = 4
  PreemptArchs = {"none", "arm"}
  MsgLens = {0, 1, 4, 17}
  AdLens = {0, 1, 2}
  BLAKE2S_BLOCK_SIZE = 4
  BLAKE2S_HASH_SIZE = 3
  PageOfBlocks = 2
  CounterMod = 9
  PieceLens = {0, 1, 3, 4, 5, 9, 17}
  KeyLens = {0, 1, 3, 4, 5, 9}
  MessageMax = 22
  HashLens = {0, 1, 2, 3, 4, 5, 6, 7, 8, 9, 11, 12, 13, 15, 16, 17, 20, 24, 25, 31, 32, 33}
  LongSizes = {4, 8}
  Cpus <- SomeCpus
  ZINC_SELFTEST = {TRUE, FALSE}
  DEBUG = TRUE
SPECIFICATION CryptoSpec
INVARIANTS
  FieldExact
  LadderExact
  TagExact
  AeadExact
  
  DigestExact
  HashesExact
  DispatchSound
