CONSTANTS
  self = self
  p1 = p1
  p2 = p2
  p3 = p3
  p4 = p4
  c1 = c1
  c2 = c2
  c3 = c3
  q1 = q1
  Peers <- FourPeers
  Self = self
  Buckets <- TwoBuckets
  BucketIndex <- AllButOneInBucketOne
  K = 2
  REQUEST_SLOTS = 2
  Far = 4
  OwnAddr = {3}
  StoreNodes = {"n", "s"}
  Seeds = {"s"}
  DHTKeys = {"m", "f"}
  Puts <- SomePuts
  Gets <- SomeGets
  Drains = {"n"}
  Size <- SomeSizes
  MAX_MAILBOX_VALUE_BYTES = 8
  MAX_MAILBOX_ENVELOPES = 2
  STORE_SIZE = 11
  MAX_STORAGE_BYTES = 13
  MAX_STORAGE_RECORDS = 2
  RecordTtl = 0
  RepublishInterval = 0
  MaxStores = 1
  LookupK = 2
  ALPHA = 2
  MaxClock = 5
  MaxMoves = 1
  Calls <- ThreeCalls
  Hop <- HopCalls
  Evictions <- PingCalls
  Requests <- OneRequest
  RPC_RETRIES = 1
  Slots = 1
  Datagrams <- SomeDatagrams
  IpOf <- TwoAddresses
  MAX_CHUNKS_PER_MESSAGE = 3
  MAX_PENDING_ASSEMBLIES = 2
  MAX_PENDING_PER_IP = 1
  ReassemblyTimeout = 1
  Sent <- SomeMessages
  Arriving <- StrangeDatagrams
  CutLengths <- CutLengthsSeen
  Candidates = {"a", "b"}
  Strangers = {"x"}
  Awaited = {"c"}
  MaxAttempts = 2
  MaxInbox = 2
  Servers <- TwoServers
  Endpoints = {"e", "f"}
  Bodies <- SomeBodies
  MaxQueries = 2
  Attempts = 2
  OtherPort = "other"
  Sessions = {"i", "j"}
  Hosts = {"h"}
  Accounts = {"u"}
  PACKETS = 2
  SESSIONS = 1
  QUOTA = 1
  WINDOW = 3
  MaxTime = 5
SPECIFICATION NetworkSpec
SYMMETRY NetworkSymmetry
CHECK_DEADLOCK FALSE
INVARIANTS
  NetworkTypeOK
  BucketsSound
  OnlyTargetAnswers
  PendingOwned
  AssembledFromArrived
  LimitsHold
  FindsClosest
  TraversalIsConfirmed
PROPERTIES
  OnlyEvictionRemoves
  AckedIsStored
  DecodedAsSent
