SPECIFICATION Spec
CONSTANTS
  n1 = n1
  n2 = n2
  n3 = n3
  Notification = {n1, n2}
  Worker = {w1, w2}
  MaxAttempts = 4
  Countdowns <- MCTwoSlots
  None = None
  Outcomes <- AnyOutcome
  Faults = {"task_error", "retry_publish", "dlq_publish"}
  MaxFaults = 2
INVARIANTS
  AtMostOneDelivery
  SendsWithinBudget
  CountersAgree
  DamageContained
PROPERTIES
  ImplementsLifecycle
