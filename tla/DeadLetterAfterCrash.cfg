SPECIFICATION Spec
CONSTANTS
  n1 = n1
  n2 = n2
  n3 = n3
  Notification = {n1}
  Worker = {w1, w2}
  MaxAttempts = 3
  Countdowns <- MCTwoSlots
  None = None
  Outcomes <- AnyOutcome
  Faults = {"crash"}
  MaxFaults = 1
INVARIANTS
  FailedIsDeadLettered
