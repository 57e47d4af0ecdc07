CONSTANTS
  m1 = m1
  m2 = m2
  Msgs <- TwoMsgs
  Edits <- None
  Tombstones <- None
  MAX_DEPOSIT = 2
  MAX_MAILBOX_ENVELOPES = 3
  MaxSends = 1
  MaxDeposits = 1
  MaxCrashes = 0
  MaxSaveFailures = 0
SPECIFICATION Spec
CHECK_DEADLOCK FALSE
PROPERTIES DrainsOnlyProcessed
