SPECIFICATION FairSpec
CONSTANTS
  r1 = r1
  r2 = r2
  r3 = r3
  acme = acme
  other = other
  k = k
  Notification = {r1, r2, r3}
  Client = {acme, other}
  Owner <- MCOwner
  KeyOf <- MCKeyOf
  MaxAttempts = 2
  Countdowns <- MCCountdowns
  None = None
  RequestFaults = {"died", "select", "constraint", "commit", "publish"}
  MaxRequestFaults = 1
  Worker = {w1}
  Reader = {acme}
  Outcomes <- MCOutcomes
  Faults = {"task_error", "retry_publish"}
  MaxFaults = 1
INVARIANTS
  TypeOK
  NeverMissing
  OneMessagePerKey
  AcceptedIsVisible
  AnswersAreFinal
  MetricsAreTrue
  EachFaultHarmsOne
PROPERTIES
  MetricsNeverShrink
  ImplementsService
  EveryRequestSettles
