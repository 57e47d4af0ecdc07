CONSTANTS
  t1 = t1
  t2 = t2
  v1 = v1
  g1 = g1
  s1 = s1
  NoItem = NoItem
  Text <- TwoTexts
  Media <- Empty
  Group <- OneGroup
  Saved <- OneSaved
  MAX_RETRY_ATTEMPTS = 1
  MAX_QUEUED_MESSAGES = 1
  CONFIRM_DELAY = 1
  MaxTime = 1
  MaxRestarts = 1
  SavesMayFail = TRUE
SPECIFICATION Spec
CONSTRAINT TwoSent
SYMMETRY TextSymmetry
CHECK_DEADLOCK FALSE
INVARIANTS
  TypeOK
  OneCopy
  QueueBounded
  NoSilentDrop
  ConfirmedIsFinal
  TextDeliveredByReceipt
