SPECIFICATION FairSpec
CONSTANTS
  n1 = n1
  n2 = n2
  n3 = n3
  Notification = {n1, n2, n3}
  Worker = {w1, w2}
  MaxAttempts = 3
  Countdowns <- MCTwoSlots
  None = None
  Outcomes <- Simulated
  Faults = {}
  MaxFaults = 0
INVARIANTS
  FailedForAReason
PROPERTIES
  ImplementsFairLifecycle
  EventuallyDeadLettered
