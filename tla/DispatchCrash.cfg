SPECIFICATION FairSpec
CONSTANTS
  n1 = n1
  n2 = n2
  n3 = n3
  Notification = {n1}
  Worker = {w1}
  MaxAttempts = 5
  Countdowns <- MCCountdowns
  None = None
  Outcomes <- AnyOutcome
  Faults = {"crash", "redeliver", "dlq_publish"}
  MaxFaults = 3
INVARIANTS
  NothingLost
  RowsConsistent
PROPERTIES
  TransitionsFollowTable
  NoSendOnceSettled
  EventuallySettled
