CONSTANTS
  v1 = v1
  g1 = g1
  s1 = s1
  NoItem = NoItem
  Text <- NoText
  Media <- OneMedia
  Group <- OneGroup
  Saved <- OneSaved
  MAX_RETRY_ATTEMPTS = 2
  MAX_QUEUED_MESSAGES = 1
  CONFIRM_DELAY = 1
  MaxTime = 3
  MaxRestarts = 1
  SavesMayFail = FALSE
  MaxKeys = 2
  MaxVersion = 2
  RenameMayFail = TRUE
  Users <- ThreeUsers
  Dials <- CrossedCalls
  AudioCalls = 2
  FrameTimes = {10, 30}
  SendInterval = 20
  BytesPerMs = 32
  MAX_AUDIO_BYTES = 900
  MAX_STREAMS = 2
  MAX_QUEUED = 1
  MaxSeq = 3
  WindowIds = {"w"}
  StoreIds = {"s"}
  PeerIds = {"p"}
  Emojis = {"a"}
  MaxCommands = 2
  MaxEvents = 1
  AUTO_LOCK = 1
  MaxPhrases = 2
  MaxStarts = 2
SPECIFICATION ClientSpec
CHECK_DEADLOCK FALSE
INVARIANT KeyFileMatches
