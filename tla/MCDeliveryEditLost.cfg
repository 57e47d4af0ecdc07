CONSTANTS
  m1 = m1
  m2 = m2
  Msgs <- OneMsg
  Edits <- OneMsg
  Tombstones <- None
  MAX_DEPOSIT = 2
  MAX_MAILBOX_ENVELOPES = 2
  MaxSends = 2
  MaxDeposits = 0
  MaxCrashes = 0
  MaxSaveFailures = 0
SPECIFICATION Spec
CHECK_DEADLOCK FALSE
PROPERTIES EditsSurvive
