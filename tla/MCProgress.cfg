CONSTANTS
  c1 = c1
  c2 = c2
  Calls <- TwoCalls
  Hop <- TwoCalls
  Evictions <- None
  Requests <- None
  RPC_RETRIES = 1
  Slots = 1
  Envelopes <- SomeEnvelopes
  Sealing <- Sealed
  Day = 2
  LookBack = 2
  MAX_REPLAY_WINDOW = 6
  MAX_REPLAY_CACHE_ENTRIES = 2
  FAST = 2
  SLOW = 4
  LastHour = 1
  MaxNow = 8
  Far = 4
  OwnAddr <- OldIds
  LookupK = 2
  ALPHA = 2
  Programs <- ThePrograms
  Gui <- TheGui
  Supervised <- TheDaemon
  BasePort = 1
  PORT_ATTEMPTS = 2
  MaxLaunches = 2
  MaxPeerMoves = 2
  MaxRenames = 0
SPECIFICATION ProgressSpec
CHECK_DEADLOCK FALSE
INVARIANTS ProgressTypeOK AcceptedOnce
PROPERTIES EveryCallEnds  MailIsRead
