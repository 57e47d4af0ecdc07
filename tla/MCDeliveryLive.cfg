CONSTANTS
  m1 = m1
  m2 = m2
  Msgs <- OneMsg
  Edits <- OneMsg
  Tombstones <- None
  MAX_DEPOSIT = 2
  MAX_MAILBOX_ENVELOPES = 2
  MaxSends = 1
  MaxDeposits = 1
  MaxCrashes = 1
  MaxSaveFailures = 1
SPECIFICATION FairSpec
CHECK_DEADLOCK FALSE
INVARIANTS RecordsBounded
PROPERTIES MailboxIsRead
