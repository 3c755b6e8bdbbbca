\* The server: two deliveries of a universe of requests; a cache of two sessions
\* and two entries. The encodings: the fields of one byte have fewer values than
\* 256, 12 in TLV and 16 in CoAP, so that the widest ones are reached by short
\* values.
CONSTANTS
  Radix = 12
  Uris <- SomeUris
  Trees <- SomeTrees
  ObjectIds = {0, 12, 21}
  InstanceIds = {0, 10}
  Lifetimes = {0, 86400}
  NameLen = 4
  MsisdnLen = 5
  AltPathLens = {6}
  ByteRange = 16
  OptionNumbers = {4, 15, 35}
  OptionLengths = {0, 13, 30}
  TokenLengths = {0, 5}
  DataLengths = {0, 3}
  Codes = {1, 225}
  MaxOptions = 3
  AllocUnit = 16
  MaxSize = 52
  MessageUris <- SomeMessageUris
  AltPath <- SomeAltPath
  IntValues = {0, 200, 65535}
  QueryLengths = {0, 3, 13}
  BlockSizesOffered = {8, 16, 2048, 4096}
  MaxFields = 2
  Bodies = {1, 2}
  BodyBlocks = 3
  MAX_BLOCK1_SIZE = 4
  PayloadSizes = {0, 5, 9}
  BlockSizes = {2, 8}
  REST_MAX_CHUNK_SIZE = 4
  Message <- ManyMessages
  ServerConfigs <- SomeConfigs
  HandlerCodes = {0, 205, 404}
  Delays = {0, 1, 2}
  LeisureDelays = {0, 1, 2}
  RstGap = 1
  MaxDeliveries = 2
  MaxClock = 3
  CacheSessions = {"s1", "s2"}
  Transport <- SameTransport
  CacheRequests <- SomeCacheRequests
  IgnoreOptions = {}
  IdleTimes = {0, 1}
  MaxEntries = 2
  MaxCacheClock = 1
SPECIFICATION CodecSpec
CHECK_DEADLOCK FALSE
INVARIANTS RepliesFit DelayedIsServed CacheExact DataExact RegisterExact PduExact MessageExact BlocksInOrder
