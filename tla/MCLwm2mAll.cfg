\* The client: two servers with an order, one of which asks for a bootstrap when
\* it cannot be registered with, and a bootstrap server that may be missing.
\* The server: two devices and two requests. The organizer: two devices, three
\* things that they or the console do unasked. Transactions: one request, two
\* peers. Notifications: one watcher, values 0..3. Operations: two servers, two
\* instances.
CONSTANTS
  Servers = {1, 2}
  Bootstraps = {3}
  Provisioned = {{1, 2, 3}, {1, 2}}
  ServerObject <- TwoThenOne
  MaxTransactions = 3
  MaxCalls = 2
  MaxCommands = 1
  Devices = {"d", "e"}
  MaxId = 1
  Uris <- ObjectAndInstance
  Announcements <- SomeAnnouncements
  LifetimesAsked = {0, 1}
  DefaultLifetime = 1
  MaxRequests = 2
  MaxStepLate = 0
  Endpoint = {"d", "e"}
  OrgUri = {"u"}
  UriDepth <- InstanceDepth
  OrgAsk = {"observe1", "write1"}
  AskKind <- AskKinds
  AskUri <- AskUris
  Garbage = {0, 1}
  NoGlobal = NoGlobal
  Console = "console"
  MaxEvents = 3
  Peers = {"p", "q"}
  MaxMid = 1
  MAX_RETRANSMIT = 3
  RESPONSE_TIMEOUT = 1
  MaxLate = 1
  MaxCon = 1
  Watchers = {"a"}
  MaxValue = 3
  PMin = 2
  PMax = 3
  LessThan = 1
  Step = 1
  GtValues = {2, 4}
  Offers <- SomeOffers
  MaxSleep = 3
  MaxChanges = 3
  MaxWrites = 2
  DmServers = {"a", "b"}
  Object = 5
  Resource = 1
  MaxInstance = 1
  AttributesWritten <- SomeAttributes
  MaxMessageId = 1
  MaxOperations = 3
SPECIFICATION Lwm2mSpec
CHECK_DEADLOCK FALSE
INVARIANTS ClientKeepsUp RequestsExact AskAccounted DeviceExact
PROPERTIES AskAnswered EveryEnds ChangeTold
