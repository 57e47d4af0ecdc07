CONSTANTS
  t1 = t1
  t2 = t2
  v1 = v1
  g1 = g1
  s1 = s1
  NoItem = NoItem
  Text <- OneText
  Media <- OneMedia
  Group <- Empty
  Saved <- Empty
  MAX_RETRY_ATTEMPTS = 2
  MAX_QUEUED_MESSAGES = 1
  CONFIRM_DELAY = 1
  MaxTime = 4
  MaxRestarts = 0
  SavesMayFail = FALSE
SPECIFICATION FairSpec
CHECK_DEADLOCK FALSE
INVARIANTS
  RetryBudget
PROPERTIES
  RetryEnds
  TextIsDecided
