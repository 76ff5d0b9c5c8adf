SPECIFICATION CryptoSpec
CONSTANTS
  W = 2
  NW = 4
  DW = 1
  CounterMod = 128
  TotalMod = 16
  CountMod = 128
  OffsetMod = 16
  AES_BLOCK_SIZE = 3
  BFR_BLOCKS = 2
  ByteMod = 2
  StreamBlock = 4
  MacBlock = 2
  BlockMod = 3
  MaxLen = 20
  MaxIterations = 4
  AesKeys <- MCAesKeys
  AesFirst <- MCAesFirst
  OneBlock <- MCOneBlock
  Published <- MCPublished
  Apis <- MCApis
  DigitBytes = 3
  Digest <- MCDigest
  Codec = {"base58", "check", "address", "p2sh", "wif", "base32", "nem", "bech32", "segwit", "cash", "mnemonic", "script", "nem_transaction", "der", "number"}
  UINT32_MAX = 1000
  NoArgument = NoArgument
  ValuesOf <- MCValuesOf
  ForeignOf <- MCForeignOf
  SizesOf <- MCSizesOf
  NetworksOf <- MCNetworksOf
  Places = {1, 2, 5, 14}
  Order = 3593
  WordRange = 4096
  Hmac <- MCHmac
  SeedHmac <- MCSeedHmac
  Hardened = 8
  DepthMod = 256
  ZlWords = 32
  CardanoTop = 1024
  NemBlock = 3
  MaxTries = 24
  Seeds = {1, 2, 5}
  PeerSeed = 3
  Secret <- MCSecret
  ChildIndices = {0, 1, 8}
  Payloads <- MCPayloads
  MaxDepth = 2
  Paths <- MCPaths
  FieldBits = 14
  Fold19 = 3
  Room <- MCRoom
  Chain <- MCChain
  ChainTop = 10
  ScalarLimbs = 2
  ScalarWidth = 10
  ScalarBits = 15
  ScalarByte = 5
  GroupOrder = 2039
  CurveD = 10920
  CurveA24 = 2
  BaseX = 16102
  BaseY = 8
  SqrtMinus1 = 16200
  Fffb <- MCRoots
  Window1 = 3
  Window2 = 4
  SlideReach = 3
  ed25519_hash <- MCHash
  EdSecrets = {1, 2, 3}
  EdMessages = {1, 2}
  EdTeams <- MCTeams
  EdStrangers <- MCStrangers
  EdElements <- MCElements
  EdScalars <- MCScalars
  EdLimbs <- MCLimbs
  Narrow <- MCNarrow
  Wider <- MCWider
INVARIANTS
  StreamIsStandard
  ContentsArrive OneTextPerContent NothingOverflows
  WatcherFollows NodeIsItsPath 
  EdSessionsAreStandard ArithmeticIsExact
