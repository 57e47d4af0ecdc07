CONSTANTS
  m1 = m1
  m2 = m2
  Msgs <- OneMsg
  Edits <- None
  Tombstones <- OneMsg
  MAX_DEPOSIT = 1
  MAX_MAILBOX_ENVELOPES = 1
  MaxSends = 2
  MaxDeposits = 1
  MaxCrashes = 2
  MaxSaveFailures = 1
SPECIFICATION Spec
CHECK_DEADLOCK FALSE
INVARIANTS TypeOK ReceiptMeansStored NotifiedOnce DeletionIsFinal
PROPERTIES Implements
